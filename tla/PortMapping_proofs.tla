------------------------- MODULE PortMapping_proofs -------------------------
(***************************************************************************)
(* Proofs about the interface helpers and the listener of port events, for *)
(* any interfaces, addresses and queue length.                             *)
(***************************************************************************)
EXTENDS PortMapping, IfMapping_proofs, SequenceTheorems

-----------------------------------------------------------------------------
(* The interface database under the interface manager *)

ChangeOK ==
  \/ change = NoChange
  \/ \E s \in {"dereg", "reg"}, o, n \in Details \cup {NULL} :
       /\ change = [step |-> s, old |-> o, new |-> n]
       /\ o # NULL \/ n # NULL

\* A change that is in progress is of the kind Begin makes.
LEMMA InProgress ==
  ASSUME ChangeOK, change.step \in {"dereg", "reg"}
  PROVE  /\ change # NoChange
         /\ change.old \in Details \cup {NULL} /\ change.new \in Details \cup {NULL}
         /\ change.old # NULL \/ change.new # NULL
         /\ change = [step |-> change.step, old |-> change.old, new |-> change.new]
<1>1. NoChange.step = "none"
  BY DEF NoChange
<1>2. PICK s \in {"dereg", "reg"}, o \in Details \cup {NULL}, n \in Details \cup {NULL} :
        change = [step |-> s, old |-> o, new |-> n] /\ (o # NULL \/ n # NULL)
  BY <1>1 DEF ChangeOK
<1> QED BY <1>1, <1>2

\* The records that are registered.
LEMMA RegisteredIs ==
  ASSUME Inv, NEW r
  PROVE  /\ r \in Registered <=> \E p \in Ptr : heap[p] = r /\ r # NULL
         /\ r \in Registered => r \in Records /\ r.det \in Details
<1>1. r \in Registered <=> \E p \in Ptr : heap[p] = r /\ r # NULL
  BY DEF Registered
<1>2. \A p \in Ptr : heap[p] # NULL => heap[p] \in Records /\ heap[p].det \in Details
  BY DEF Inv, TypeOK, Records
<1> QED BY <1>1, <1>2

\* Whatever the interface manager and the listener do, the database sees
\* calls of its own interface only.
LEMMA DbStep ==
  ASSUME Inv, ChangeOK, [PortNext]_allVars
  PROVE  [Next]_vars /\ ChangeOK'
<1>1. ASSUME NEW d \in Details, BeginCreate(d)
      PROVE  [Next]_vars /\ ChangeOK'
  BY <1>1, EventAssumption DEF BeginCreate, Begin, ChangeOK
<1>2. ASSUME NEW r \in Registered, BeginDelete(r.det)
      PROVE  [Next]_vars /\ ChangeOK'
  <2>1. r.det \in Details /\ r.det # NULL
    BY RegisteredIs, EventAssumption
  <2>2. Next
    BY <1>2, <2>1 DEF BeginDelete, Next
  <2>3. change' = [step |-> "dereg", old |-> r.det, new |-> NULL]
    BY <1>2 DEF BeginDelete, Begin
  <2>4. NULL \in Details \cup {NULL} /\ r.det \in Details \cup {NULL} /\ "dereg" \in {"dereg", "reg"}
    BY <2>1
  <2>5. ChangeOK'
    BY ONLY <2>1, <2>3, <2>4, Zenon DEF ChangeOK
  <2> QED BY <2>2, <2>5
<1>3. ASSUME NEW r \in Registered, NEW e \in Details, BeginChange(r.det, e)
      PROVE  [Next]_vars /\ ChangeOK'
  <2>1. r.det \in Details /\ e # NULL
    BY RegisteredIs, EventAssumption
  <2> QED BY <1>3, <2>1 DEF BeginChange, Begin, ChangeOK, Next
<1>4. CASE Reregister
  <2>1. /\ change.old \in Details \cup {NULL} /\ change.new \in Details \cup {NULL}
        /\ change.old # NULL \/ change.new # NULL
        /\ change = [step |-> change.step, old |-> change.old, new |-> change.new]
    BY <1>4, InProgress DEF Reregister
  <2>2. change' = [step |-> "reg", old |-> change.old, new |-> change.new]
    BY <1>4, <2>1 DEF Reregister
  <2> QED BY <1>4, <2>1, <2>2 DEF Reregister, ChangeOK, Next
<1>5. CASE Publish \/ Handle \/ \E e \in OtherEvents : PublishOther(e)
  BY <1>5 DEF Publish, Handle, PublishOther, ChangeOK
<1>6. ASSUME NEW d \in Details, NEW m \in Macs, ChangeMac(d.if_index, m)
      PROVE  [Next]_vars /\ ChangeOK'
  BY <1>6 DEF ChangeMac, portVars, ChangeOK, Next
<1>7. CASE UNCHANGED allVars
  BY <1>7 DEF allVars, portVars, ChangeOK
<1> QED BY <1>1, <1>2, <1>3, <1>4, <1>5, <1>6, <1>7 DEF PortNext

DbInv == Inv /\ ChangeOK

\* The database stays consistent.
LEMMA DbInvStep == DbInv /\ [PortNext]_allVars => DbInv'
BY DbStep, NextInv DEF DbInv

-----------------------------------------------------------------------------
(* The helpers *)

\* A registered interface is found under each key it has.
LEMMA EntryFinds ==
  ASSUME Inv, NEW p \in Ptr, heap[p] # NULL, NEW q \in QTypes, HasKey(q, heap[p].det)
  PROVE  /\ MkKey(q, heap[p].det) \in Keys(q)
         /\ Entry(q, MkKey(q, heap[p].det)) = p /\ p # NULL
         /\ Found(p) = heap[p].det /\ heap[p].det \in Details /\ heap[p].det # NULL
<1>1. heap[p].det \in Details
  BY DEF Inv, TypeOK, Records
<1>2. MkKey(q, heap[p].det) \in Keys(q)
  BY <1>1, MkKeyType
<1>3. if_mappings[q][MkKey(q, heap[p].det)] = p
  BY DEF Inv, IndexConsistent, RecordsReachable
<1> QED BY <1>1, <1>2, <1>3, NullAssumption, EventAssumption DEF Entry, Found

\* What a search finds has the key that was searched for.
LEMMA EntrySound ==
  ASSUME Inv, NEW q \in QTypes, NEW k, Entry(q, k) # NULL
  PROVE  /\ Entry(q, k) \in Ptr /\ heap[Entry(q, k)] # NULL
         /\ HasKey(q, heap[Entry(q, k)].det) /\ MkKey(q, heap[Entry(q, k)].det) = k
BY DEF Entry, Inv, TypeOK, IndexConsistent, EntriesValid

\* The helpers answer alike whichever key they are asked by.
LEMMA HelpersAlike == Inv => HelpersAgree
<1> SUFFICES ASSUME Inv, NEW r \in Registered, r.det.vrf_id = 0
             PROVE  /\ r.det.if_name # "" =>
                         /\ GetIfIndexToName(GetNameToIfIndex(r.det.if_name), 0) = r.det.if_name
                         /\ GetIntfMacAddrStr(r.det.if_name) = GetInterfaceMac(r.det.if_index)
                         /\ GetIfType(r.det.if_name) = r.det.int_type
                    /\ r.det.int_type = "LAG" =>
                         GetLagIfIndex(GetLagIdFromIfIndex(r.det.if_index)) = r.det.if_index
                    /\ IsVirtualPort(r.det.if_index) <=>
                         /\ r.det.int_type = "PORT"
                         /\ \A k \in Keys("PORT") : Found(Entry("PORT", k)) # r.det
  BY DEF HelpersAgree
<1> DEFINE d == r.det
<1>1. PICK p \in Ptr : heap[p] = r /\ r # NULL
  BY RegisteredIs
<1>2. d \in Details /\ d # NULL /\ p # NULL /\ Found(p) = d
  BY <1>1, RegisteredIs, NullAssumption, EventAssumption DEF Found
<1>3. Entry("IF", <<0, d.if_index>>) = p
  BY <1>1, <1>2, IfKey, EntryFinds DEF QTypes
<1>4. d.if_name # "" => Entry("IF_NAME", d.if_name) = p
  <2>1. ASSUME d.if_name # "" PROVE HasKey("IF_NAME", d) /\ MkKey("IF_NAME", d) = d.if_name
    BY <2>1 DEF HasKey, QueryValid, MkKey
  <2> QED BY <1>1, <2>1, EntryFinds DEF QTypes
<1>5. d.int_type = "LAG" => Entry("LAG", d.obj_id) = p
  <2>1. ASSUME d.int_type = "LAG" PROVE HasKey("LAG", d) /\ MkKey("LAG", d) = d.obj_id
    BY <2>1 DEF HasKey, QueryValid, MkKey
  <2> QED BY <1>1, <2>1, EntryFinds DEF QTypes
<1>6. d.if_name # "" =>
        /\ GetIfIndexToName(GetNameToIfIndex(d.if_name), 0) = d.if_name
        /\ GetIntfMacAddrStr(d.if_name) = GetInterfaceMac(d.if_index)
        /\ GetIfType(d.if_name) = d.int_type
  BY <1>1, <1>2, <1>3, <1>4
     DEF GetIfIndexToName, GetNameToIfIndex, GetIntfMacAddrStr, GetInterfaceMac, GetIfType
<1>7. d.int_type = "LAG" => GetLagIfIndex(GetLagIdFromIfIndex(d.if_index)) = d.if_index
  BY <1>2, <1>3, <1>5 DEF GetLagIfIndex, GetLagIdFromIfIndex, ByIfIndex
<1>8. IsVirtualPort(d.if_index) <=> d.int_type = "PORT" /\ ~d.port_mapped
  BY <1>2, <1>3 DEF IsVirtualPort, ByIfIndex
<1>9. ASSUME d.int_type = "PORT"
      PROVE  d.port_mapped <=> \E k \in Keys("PORT") : Found(Entry("PORT", k)) = d
  <2>1. ASSUME d.port_mapped PROVE \E k \in Keys("PORT") : Found(Entry("PORT", k)) = d
    <3>1. HasKey("PORT", d)
      BY <1>9, <2>1 DEF HasKey, QueryValid
    <3> QED BY <1>1, <1>2, <3>1, EntryFinds DEF QTypes
  <2>2. ASSUME NEW k \in Keys("PORT"), Found(Entry("PORT", k)) = d PROVE d.port_mapped
    <3>1. Entry("PORT", k) # NULL
      BY <1>2, <2>2 DEF Found
    <3>2. HasKey("PORT", heap[Entry("PORT", k)].det) /\ heap[Entry("PORT", k)].det = d
      BY <2>2, <3>1, EntrySound DEF Found, QTypes
    <3> QED BY <3>2 DEF HasKey
  <2> QED BY <2>1, <2>2
<1> QED BY <1>6, <1>7, <1>8, <1>9

\* Index and name, index and LAG id, the two MAC addresses and the virtual
\* port check agree at every moment, in the middle of a change of port too.
THEOREM HelpersConsistent == PortSpec => []HelpersAgree
<1>1. PortInit => DbInv
  BY InitInv DEF PortInit, DbInv, ChangeOK
<1>2. DbInv => HelpersAgree
  BY HelpersAlike DEF DbInv
<1> QED BY <1>1, <1>2, DbInvStep, PTL DEF PortSpec

-----------------------------------------------------------------------------
(* The listener *)

\* Interfaces of VRF 0 with a name each that goes with the if_index, a type
\* that does not change and one tap per port; events that are not about ports
\* say nothing of one; and no event is handled between the DEREG and the REG
\* of a change.
Coherent ==
  /\ \A d, e \in Details :
       /\ d.vrf_id = 0 /\ d.if_name # ""
       /\ d.if_name = e.if_name <=> d.if_index = e.if_index
       /\ d.if_index = e.if_index => d.int_type = e.int_type
       /\ d.port_mapped /\ e.port_mapped => (d.port = e.port <=> d.tap_id = e.tap_id)
  /\ \A e \in OtherEvents :
       e.op = "SET" /\ (e.port = NULL \/ (e.if_index = NULL /\ e.name = NULL))
  /\ Atomic

SetEvent(d) ==
  [op |-> "SET", if_index |-> d.if_index, port |-> d.port,
   name |-> IF d.if_index \in ByIndex THEN NULL ELSE d.if_name]

DeleteEvent(d) ==
  [op |-> "DELETE", if_index |-> d.if_index, port |-> NULL, name |-> d.if_name]

PortEvents ==
  {SetEvent(d) : d \in {x \in Details : x.port_mapped}} \cup {DeleteEvent(d) : d \in Details}

\* the events that the change in progress will publish
Ahead == IF change = NoChange THEN <<>> ELSE Events(change.old, change.new)

In(s) == {s[n] : n \in 1..Len(s)}

Deletes(e, i) == e.op = "DELETE" /\ e.if_index = i

Sets(e, i, port) == e.op = "SET" /\ e.if_index = i /\ e.port = port

About(e, i, port) == e.if_index = i /\ (e.port = port \/ e.op = "DELETE")

Here(i) == \E r \in Registered : r.det.if_index = i

Mapped(i, port) ==
  \E r \in Registered : r.det.if_index = i /\ r.det.port_mapped /\ r.det.port = port

\* the interface is between its DEREG and its REG
Moving(i) ==
  change.step = "dereg" /\ change.old # NULL /\ change.new # NULL /\ change.new.if_index = i

\* An interface that was taken out to be changed can be put back, and one
\* that is deleted is gone.
Moves ==
  change # NoChange =>
    /\ change.old # NULL /\ change.new # NULL => change.new.if_index = change.old.if_index
    /\ change.old # NULL /\ change.new # NULL /\ change.step = "dereg" =>
         ~Conflict(change.new) /\ \E p \in Ptr : heap[p] = NULL
    /\ change.old # NULL /\ change.new # NULL /\ change.step = "reg" =>
         Here(change.new.if_index)
    /\ change.new = NULL => ~Here(change.old.if_index)

\* A DELETE of an earlier life of an interface is followed by the event about
\* the port it has now.
SetFollows ==
  \A d \in Details : d.port_mapped /\ Mapped(d.if_index, d.port) =>
    \A n \in 1..Len(queue) : Deletes(queue[n], d.if_index) =>
      \/ \E m \in (n + 1)..Len(queue) : Sets(queue[m], d.if_index, d.port)
      \/ \E e \in In(Ahead) : Sets(e, d.if_index, d.port)

\* The listener has forgotten an interface that is gone, or will be told.
Forgotten ==
  \A d \in Details : ~Here(d.if_index) /\ ~Moving(d.if_index) =>
    \/ \A x \in setup : x[1] # d.if_index
    \/ \E e \in In(queue) \cup In(Ahead) : Deletes(e, d.if_index)

Told ==
  /\ DbInv /\ queue \in Seq(OtherEvents \cup PortEvents)
  /\ Moves /\ SetFollows /\ Forgotten /\ ListenerAgrees

\* ListenerAgrees for one interface and port
AgreesOn(i, port) ==
  (\A e \in In(queue) \cup In(Ahead) : ~About(e, i, port))
    => (<<i, port>> \in setup <=> Mapped(i, port))

\* ListenerAgrees in these terms ...
LEMMA AgreesIs ==
  ListenerAgrees <=> \A d \in Details : d.port_mapped => AgreesOn(d.if_index, d.port)
<1>1. \A i, port : Pending(i, port) <=> \E e \in In(queue) \cup In(Ahead) : About(e, i, port)
  BY DEF Pending, In, Ahead, About
<1> QED BY <1>1 DEF ListenerAgrees, AgreesOn, Mapped

\* ... and after a step.
LEMMA AgreesNext ==
  ListenerAgrees' <=> \A d \in Details : d.port_mapped => AgreesOn(d.if_index, d.port)'
<1>1. (\A i, port : Pending(i, port) <=> \E e \in In(queue) \cup In(Ahead) : About(e, i, port))'
  BY DEF Pending, In, Ahead, About
<1> QED BY <1>1 DEF ListenerAgrees, AgreesOn, Mapped

\* The elements of sequences.
LEMMA Members ==
  ASSUME NEW S, NEW s \in Seq(S), NEW t \in Seq(S)
  PROVE  /\ In(s \o t) = In(s) \cup In(t)
         /\ In(<<>>) = {}
         /\ \A x : In(<<x>>) = {x}
         /\ s # <<>> => In(s) = {Head(s)} \cup In(Tail(s)) /\ Head(s) \in S
<1>1. In(<<>>) = {} /\ \A x : In(<<x>>) = {x}
  BY DEF In
<1>2. In(s \o t) = In(s) \cup In(t)
  <2>1. /\ Len(s) \in Nat /\ Len(t) \in Nat /\ Len(s \o t) = Len(s) + Len(t)
        /\ \A n \in 1..Len(s) : (s \o t)[n] = s[n]
        /\ \A n \in 1..Len(t) : (s \o t)[Len(s) + n] = t[n]
    BY ConcatProperties
  <2>2. \A n \in 1..(Len(s) + Len(t)) :
          n \in 1..Len(s) \/ \E m \in 1..Len(t) : n = Len(s) + m
    <3>1. \A n \in 1..(Len(s) + Len(t)) :
            n \in 1..Len(s) \/ (n - Len(s) \in 1..Len(t) /\ n = Len(s) + (n - Len(s)))
      BY <2>1
    <3> QED BY <3>1
  <2>3. \A n \in 1..Len(s) : n \in 1..(Len(s) + Len(t))
    BY <2>1
  <2>4. \A n \in 1..Len(t) : Len(s) + n \in 1..(Len(s) + Len(t))
    BY <2>1
  <2> QED BY <2>1, <2>2, <2>3, <2>4 DEF In
<1>3. ASSUME s # <<>> PROVE In(s) = {Head(s)} \cup In(Tail(s)) /\ Head(s) \in S
  <2>1. /\ Len(s) \in Nat /\ Len(s) > 0 /\ Head(s) = s[1] /\ s[1] \in S
        /\ Len(Tail(s)) = Len(s) - 1
        /\ \A n \in 1..(Len(s) - 1) : Tail(s)[n] = s[n + 1]
    BY <1>3
  <2>2. \A n \in 1..Len(s) : n = 1 \/ (n - 1 \in 1..(Len(s) - 1) /\ s[n] = Tail(s)[n - 1])
    BY <2>1
  <2>3. \A n \in 1..(Len(s) - 1) : n + 1 \in 1..Len(s)
    BY <2>1
  <2>4. 1 \in 1..Len(s)
    BY <2>1
  <2> QED BY <2>1, <2>2, <2>3, <2>4 DEF In
<1> QED BY <1>1, <1>2, <1>3

\* The events of the change in progress.
LEMMA AheadIs ==
  ASSUME DbInv
  PROVE  /\ Ahead \in Seq(PortEvents)
         /\ change = NoChange => In(Ahead) = {}
         /\ change # NoChange /\ change.new = NULL => In(Ahead) = {DeleteEvent(change.old)}
         /\ change # NoChange /\ change.new # NULL =>
              /\ \A e \in In(Ahead) : \E d \in {change.old, change.new} \ {NULL} :
                   d.port_mapped /\ e = SetEvent(d)
              /\ \A d \in {change.old, change.new} \ {NULL} :
                   d.port_mapped => SetEvent(d) \in In(Ahead)
<1>1. CASE change = NoChange
  BY <1>1 DEF Ahead, In
<1>2. CASE change # NoChange
  <2> DEFINE old == change.old
             new == change.new
  <2>1. old \in Details \cup {NULL} /\ new \in Details \cup {NULL} /\ (old # NULL \/ new # NULL)
    BY <1>2 DEF DbInv, ChangeOK
  <2>2. Ahead = Events(old, new)
    BY <1>2 DEF Ahead
  <2> HIDE DEF old, new
  <2>3. CASE new = NULL
    <3>1. Ahead = <<DeleteEvent(old)>> /\ DeleteEvent(old) \in PortEvents
      BY <2>1, <2>2, <2>3 DEF Events, DeleteEvent, PortEvents
    <3>2. In(Ahead) = {DeleteEvent(old)} /\ Ahead \in Seq(PortEvents)
      BY <3>1 DEF In
    <3> QED BY <1>2, <2>3, <3>2 DEF old, new
  <2>4. CASE new # NULL
    <3>1. ASSUME NEW d \in Details
          PROVE  /\ PortEvent(d) = IF d.port_mapped THEN <<SetEvent(d)>> ELSE <<>>
                 /\ PortEvent(d) \in Seq(PortEvents)
                 /\ In(PortEvent(d)) = IF d.port_mapped THEN {SetEvent(d)} ELSE {}
      <4>1. PortEvent(d) = IF d.port_mapped THEN <<SetEvent(d)>> ELSE <<>>
        BY DEF PortEvent, SetEvent
      <4>2. d.port_mapped => SetEvent(d) \in PortEvents
        BY DEF PortEvents
      <4> QED BY <4>1, <4>2 DEF In
    <3>2. CASE old = NULL
      <4>1. Ahead = <<>> \o PortEvent(new)
        BY <2>2, <2>4, <3>2 DEF Events
      <4>2. <<>> \in Seq(PortEvents) /\ PortEvent(new) \in Seq(PortEvents)
        BY <2>1, <2>4, <3>1
      <4>3. In(Ahead) = In(PortEvent(new)) /\ Ahead \in Seq(PortEvents)
        BY <4>1, <4>2, Members
      <4> QED BY <1>2, <2>1, <2>4, <3>1, <3>2, <4>3 DEF old, new
    <3>3. CASE old # NULL
      <4>1. Ahead = PortEvent(old) \o PortEvent(new)
        BY <2>2, <2>4, <3>3 DEF Events
      <4>2. PortEvent(old) \in Seq(PortEvents) /\ PortEvent(new) \in Seq(PortEvents)
        BY <2>1, <2>4, <3>1, <3>3
      <4>3. In(Ahead) = In(PortEvent(old)) \cup In(PortEvent(new)) /\ Ahead \in Seq(PortEvents)
        BY <4>1, <4>2, Members
      <4> QED BY <1>2, <2>1, <2>4, <3>1, <3>3, <4>3 DEF old, new
    <3> QED BY <3>2, <3>3
  <2> QED BY <2>3, <2>4
<1> QED BY <1>1, <1>2

Room == \E p \in Ptr : heap[p] = NULL

\* Details with the same if_index have the same IF key.
LEMMA SameIf ==
  ASSUME Coherent, NEW d \in Details, NEW e \in Details, d.if_index = e.if_index
  PROVE  MkKey("IF", d) = MkKey("IF", e) /\ HasKey("IF", d) /\ HasKey("IF", e)
<1>1. d.vrf_id = 0 /\ e.vrf_id = 0
  BY Zenon DEF Coherent
<1> QED BY <1>1, IfKey

\* One interface per if_index.
LEMMA OnePerIndex ==
  ASSUME Coherent, Inv, NEW p \in Ptr, NEW o \in Ptr, heap[p] # NULL, heap[o] # NULL,
         heap[p].det.if_index = heap[o].det.if_index
  PROVE  p = o
<1>1. heap[p].det \in Details /\ heap[o].det \in Details
  BY DEF Inv, TypeOK, Records
<1>2. /\ MkKey("IF", heap[p].det) = MkKey("IF", heap[o].det)
      /\ HasKey("IF", heap[p].det) /\ HasKey("IF", heap[o].det)
  BY <1>1, SameIf
<1> QED BY <1>1, <1>2 DEF Inv, IndexConsistent, RecordsReachable, QTypes

\* A registration is refused for a key that a registered interface has.
LEMMA ConflictIs ==
  ASSUME Inv, NEW d \in Details
  PROVE  Conflict(d) <=>
           \E p \in Ptr, q \in QTypes :
             /\ heap[p] # NULL /\ HasKey(q, d) /\ HasKey(q, heap[p].det)
             /\ MkKey(q, heap[p].det) = MkKey(q, d)
<1>1. ASSUME Conflict(d)
      PROVE  \E p \in Ptr, q \in QTypes :
               /\ heap[p] # NULL /\ HasKey(q, d) /\ HasKey(q, heap[p].det)
               /\ MkKey(q, heap[p].det) = MkKey(q, d)
  <2>1. PICK q \in QTypes : Locate(q, d) # NULL
    BY <1>1 DEF Conflict
  <2> QED BY <2>1, LocateFinds, RecordAssumption
<1>2. ASSUME NEW p \in Ptr, NEW q \in QTypes,
             heap[p] # NULL, HasKey(q, d), HasKey(q, heap[p].det),
             MkKey(q, heap[p].det) = MkKey(q, d)
      PROVE  Conflict(d)
  <2>1. Locate(q, d) = p
    BY <1>2 DEF Locate, Inv, IndexConsistent, RecordsReachable
  <2> QED BY <2>1, NullAssumption DEF Conflict
<1> QED BY <1>1, <1>2

\* A DEREG with the details of a registered interface takes that one out.
LEMMA TakesOut ==
  ASSUME Inv, NEW r \in Registered, Deregister(r.det)
  PROVE  \E p \in Ptr : heap[p] = r /\ r # NULL /\ heap' = [heap EXCEPT ![p] = NULL]
<1>1. PICK p \in Ptr : heap[p] = r /\ r # NULL
  BY RegisteredIs
<1>2. r.det \in Details
  BY RegisteredIs
<1>3. Locate("IF", r.det) = p
  BY <1>1, <1>2, IfKey DEF Locate, Inv, IndexConsistent, RecordsReachable, QTypes
<1>4. Conflict(r.det)
  BY <1>3, NullAssumption DEF Conflict, QTypes
<1>5. PICK i \in 1..7 : FirstHit(i, r.det) /\ Remove(Locate(AllQueries[i], r.det), r.det.vrf_id)
  BY <1>4 DEF Deregister, Cleanup
<1>6. AllQueries[i] \in QTypes /\ Locate(AllQueries[i], r.det) # NULL
  BY <1>5, QueriesType DEF FirstHit
<1>7. HasKey(AllQueries[i], r.det)
  BY <1>6 DEF Locate
<1>8. Locate(AllQueries[i], r.det) = p
  BY <1>1, <1>6, <1>7 DEF Locate, Inv, IndexConsistent, RecordsReachable
<1> QED BY <1>1, <1>5, <1>8 DEF Remove

\* What is registered after that.
LEMMA Taken ==
  ASSUME Coherent, Inv, Inv', NEW r \in Registered, Deregister(r.det)
  PROVE  /\ \A i : Here(i)' <=> Here(i) /\ i # r.det.if_index
         /\ \A i, port : Mapped(i, port)' <=> Mapped(i, port) /\ i # r.det.if_index
         /\ Room'
         /\ \A s \in Registered' : s \in Registered /\ s.det.if_index # r.det.if_index
<1>1. PICK p \in Ptr : heap[p] = r /\ r # NULL /\ heap' = [heap EXCEPT ![p] = NULL]
  BY TakesOut
<1>2. heap'[p] = NULL /\ \A o \in Ptr \ {p} : heap'[o] = heap[o]
  BY <1>1 DEF Inv, TypeOK
<1>3. \A o \in Ptr \ {p} : heap[o] # NULL => heap[o].det.if_index # r.det.if_index
  BY <1>1, OnePerIndex
<1>4. \A s : s \in Registered' <=> s \in Registered /\ s.det.if_index # r.det.if_index
  <2>1. \A s : s \in Registered <=> \E o \in Ptr : heap[o] = s /\ s # NULL
    BY RegisteredIs
  <2>2. \A s : s \in Registered' <=> \E o \in Ptr : heap'[o] = s /\ s # NULL
    BY DEF Registered
  <2> QED BY <1>1, <1>2, <1>3, <2>1, <2>2
<1>5. \A i : Here(i)' <=> Here(i) /\ i # r.det.if_index
  BY <1>4 DEF Here
<1>6. \A i, port : Mapped(i, port)' <=> Mapped(i, port) /\ i # r.det.if_index
  BY <1>4 DEF Mapped
<1> QED BY <1>2, <1>4, <1>5, <1>6 DEF Room

\* A REG is refused or adds one interface.
LEMMA Added ==
  ASSUME Coherent, Inv, NEW d \in Details, NEW m \in Macs, NEW l \in L3Infos, Register(d, m, l)
  PROVE  \/ /\ UNCHANGED vars /\ (Conflict(d) \/ ~Room)
         \/ /\ ~Here(d.if_index)
            /\ \A i : Here(i)' <=> Here(i) \/ i = d.if_index
            /\ \A i, port : Mapped(i, port)' <=>
                 Mapped(i, port) \/ (i = d.if_index /\ d.port_mapped /\ port = d.port)
<1> DEFINE r == [det |-> d, mac |-> m, l3 |-> l, desc |-> NULL]
<1>1. CASE UNCHANGED <<heap, if_mappings, if_indexes, live, dangling>> /\ (Conflict(d) \/ ~Room)
  BY <1>1 DEF Register, vars
<1>2. ASSUME ~Conflict(d), NEW p \in Ptr, heap[p] = NULL, heap' = [heap EXCEPT ![p] = r]
      PROVE  /\ ~Here(d.if_index)
             /\ \A i : Here(i)' <=> Here(i) \/ i = d.if_index
             /\ \A i, port : Mapped(i, port)' <=>
                  Mapped(i, port) \/ (i = d.if_index /\ d.port_mapped /\ port = d.port)
  <2>1. ASSUME NEW s \in Registered, s.det.if_index = d.if_index
        PROVE  FALSE
    <3>1. PICK o \in Ptr : heap[o] = s /\ s # NULL
      BY RegisteredIs
    <3>2. MkKey("IF", s.det) = MkKey("IF", d) /\ HasKey("IF", s.det) /\ HasKey("IF", d)
      BY <2>1, RegisteredIs, SameIf
    <3> QED BY <1>2, <3>1, <3>2, ConflictIs DEF QTypes
  <2>2. heap'[p] = r /\ \A o \in Ptr \ {p} : heap'[o] = heap[o]
    BY <1>2 DEF Inv, TypeOK
  <2>3. r.det = d
    OBVIOUS
  <2>5. r # NULL
    BY RecordAssumption DEF Records
  <2>6. \A s : s \in Registered' <=> s \in Registered \/ s = r
    <3>1. \A s : s \in Registered <=> \E o \in Ptr : heap[o] = s /\ s # NULL
      BY RegisteredIs
    <3>2. \A s : s \in Registered' <=> \E o \in Ptr : heap'[o] = s /\ s # NULL
      BY DEF Registered
    <3> HIDE DEF r
    <3> QED BY <1>2, <2>2, <2>5, <3>1, <3>2
  <2> HIDE DEF r
  <2>7. \A i : Here(i)' <=> Here(i) \/ i = d.if_index
    BY <2>3, <2>6 DEF Here
  <2>8. \A i, port : Mapped(i, port)' <=>
          Mapped(i, port) \/ (i = d.if_index /\ d.port_mapped /\ port = d.port)
    BY <2>3, <2>6 DEF Mapped
  <2> QED BY <2>1, <2>7, <2>8 DEF Here
<1>3. r.det = d
  OBVIOUS
<1> HIDE DEF r
<1>4. Insert(r)
  BY DEF Register, r
<1> QED BY <1>1, <1>2, <1>3, <1>4 DEF Insert, Room

\* A change of address moves nothing.
LEMMA SameMac ==
  ASSUME Inv, NEW d \in Details, NEW m \in Macs, UpdateIntfMac(d.if_index, m)
  PROVE  /\ \A i : Here(i)' <=> Here(i)
         /\ \A i, port : Mapped(i, port)' <=> Mapped(i, port)
         /\ \A e \in Details : Conflict(e)' <=> Conflict(e)
         /\ Room' <=> Room
<1>1. PICK p \in Ptr, r \in Records :
        /\ heap[p] \in Records /\ heap' = [heap EXCEPT ![p] = r]
        /\ r.det = heap[p].det /\ r.desc = heap[p].desc
  BY MacStep
<1>2. /\ heap'[p] = r /\ r # NULL /\ heap[p] # NULL
      /\ \A o \in Ptr \ {p} : heap'[o] = heap[o]
  BY <1>1, RecordAssumption DEF Inv, TypeOK
<1>3. \A s \in Registered' : \E t \in Registered : t.det = s.det
  BY <1>1, <1>2 DEF Registered
<1>4. \A t \in Registered : \E s \in Registered' : t.det = s.det
  BY <1>1, <1>2 DEF Registered
<1>5. UNCHANGED if_mappings
  BY DEF UpdateIntfMac
<1>6. \A e \in Details : Conflict(e)' <=> Conflict(e)
  BY <1>5 DEF Conflict, Locate
<1>7. Room' <=> Room
  BY <1>2 DEF Room
<1>8. \A i : Here(i)' <=> Here(i)
  BY <1>3, <1>4 DEF Here
<1>9. \A i, port : Mapped(i, port)' <=> Mapped(i, port)
  BY <1>3, <1>4 DEF Mapped
<1> QED BY <1>6, <1>7, <1>8, <1>9

-----------------------------------------------------------------------------
(* The steps of the interface manager *)

\* What a step that leaves queue and listener alone has to announce: each
\* mapping it makes or ends, and each interface that is gone.
LEMMA Announced ==
  ASSUME Told, UNCHANGED <<queue, setup>>, In(Ahead) \subseteq In(Ahead)',
         \A d \in Details : d.port_mapped /\ Mapped(d.if_index, d.port)' =>
           \/ Mapped(d.if_index, d.port)
           \/ \E e \in In(Ahead)' : Sets(e, d.if_index, d.port),
         \A d \in Details : d.port_mapped /\ Mapped(d.if_index, d.port) =>
           \/ Mapped(d.if_index, d.port)'
           \/ \E e \in In(Ahead)' : About(e, d.if_index, d.port),
         \A d \in Details : ~Here(d.if_index)' /\ ~Moving(d.if_index)' =>
           \/ ~Here(d.if_index) /\ ~Moving(d.if_index)
           \/ \E e \in In(Ahead)' : Deletes(e, d.if_index)
  PROVE  SetFollows' /\ Forgotten' /\ ListenerAgrees'
<1>1. SetFollows'
  <2> SUFFICES ASSUME NEW d \in Details, d.port_mapped, Mapped(d.if_index, d.port)',
                      NEW n \in 1..Len(queue), Deletes(queue[n], d.if_index)
               PROVE  \/ \E m \in (n + 1)..Len(queue) : Sets(queue[m], d.if_index, d.port)
                      \/ \E e \in In(Ahead)' : Sets(e, d.if_index, d.port)
    BY DEF SetFollows, Deletes, Sets
  <2>1. CASE Mapped(d.if_index, d.port)
    <3>1. \/ \E m \in (n + 1)..Len(queue) : Sets(queue[m], d.if_index, d.port)
          \/ \E e \in In(Ahead) : Sets(e, d.if_index, d.port)
      BY <2>1, Zenon DEF Told, SetFollows
    <3> QED BY <3>1, Zenon
  <2> QED BY <2>1, Zenon
<1>2. Forgotten'
  <2> SUFFICES ASSUME NEW d \in Details, ~Here(d.if_index)', ~Moving(d.if_index)'
               PROVE  \/ \A x \in setup : x[1] # d.if_index
                      \/ \E e \in In(queue) \cup In(Ahead)' : Deletes(e, d.if_index)
    BY DEF Forgotten, Deletes, In
  <2>1. CASE ~Here(d.if_index) /\ ~Moving(d.if_index)
    BY <2>1, Zenon DEF Told, Forgotten
  <2> QED BY <2>1, Zenon
<1>3. ASSUME NEW d \in Details, d.port_mapped PROVE AgreesOn(d.if_index, d.port)'
  <2> SUFFICES ASSUME \A e \in In(queue) \cup In(Ahead)' : ~About(e, d.if_index, d.port)
               PROVE  <<d.if_index, d.port>> \in setup <=> Mapped(d.if_index, d.port)'
    BY DEF AgreesOn, About, In
  <2>1. AgreesOn(d.if_index, d.port)
    BY <1>3, AgreesIs DEF Told
  <2>2. <<d.if_index, d.port>> \in setup <=> Mapped(d.if_index, d.port)
    BY <2>1, Zenon DEF AgreesOn
  <2>3. Mapped(d.if_index, d.port)' <=> Mapped(d.if_index, d.port)
    BY <1>3, Zenon DEF Sets, About
  <2> QED BY <2>2, <2>3
<1> QED BY <1>1, <1>2, <1>3, AgreesNext

\* A removal announces itself.
LEMMA AheadDeletes ==
  DbInv => (change # NoChange /\ change.new = NULL => In(Ahead) = {DeleteEvent(change.old)})
BY AheadIs

\* What the events say.
LEMMA EventsSay ==
  ASSUME NEW d \in Details
  PROVE  /\ Sets(SetEvent(d), d.if_index, d.port) /\ About(SetEvent(d), d.if_index, d.port)
         /\ \A i : ~Deletes(SetEvent(d), i)
         /\ Deletes(DeleteEvent(d), d.if_index)
         /\ \A port : About(DeleteEvent(d), d.if_index, port)
         /\ \A i : Deletes(DeleteEvent(d), i) => i = d.if_index
         /\ \A i, port : ~Sets(DeleteEvent(d), i, port)
BY DEF Sets, About, Deletes, SetEvent, DeleteEvent

\* The change that is to create an interface only says what will be announced,
\* and nothing has moved yet.
LEMMA BeginCreateTold ==
  ASSUME Coherent, Told, DbInv', NEW d \in Details, BeginCreate(d)
  PROVE  Told'
<1>1. /\ change = NoChange /\ change' = [step |-> "dereg", old |-> NULL, new |-> d]
      /\ UNCHANGED <<queue, setup>> /\ UNCHANGED vars
  BY DEF BeginCreate, Begin
<1>2. change'.old = NULL /\ change'.new = d /\ d # NULL
  BY <1>1, EventAssumption
<1>3. Moves' /\ \A i : ~Moving(i)'
  BY <1>2 DEF Moves, Moving
<1>4. In(Ahead) = {}
  BY <1>1, AheadIs DEF Told
<1>5. \A i : (Here(i)' <=> Here(i)) /\ \A port : Mapped(i, port)' <=> Mapped(i, port)
  BY <1>1 DEF vars, Here, Mapped, Registered
<1>6. \A i : ~Moving(i)
  <2>1. NoChange.step = "none"
    BY DEF NoChange
  <2> QED BY <1>1, <2>1 DEF Moving
<1>7. SetFollows' /\ Forgotten' /\ ListenerAgrees'
  BY <1>1, <1>4, <1>5, <1>6, Announced
<1> QED BY <1>1, <1>3, <1>7 DEF Told

\* An interface taken out for good is announced by its DELETE.
LEMMA BeginDeleteTold ==
  ASSUME Coherent, Told, DbInv', NEW r \in Registered, BeginDelete(r.det)
  PROVE  Told'
<1>1. /\ change = NoChange /\ change' = [step |-> "dereg", old |-> r.det, new |-> NULL]
      /\ UNCHANGED <<queue, setup>> /\ Deregister(r.det)
  BY DEF BeginDelete, Begin
<1>2. /\ change'.old = r.det /\ change'.new = NULL /\ change' # NoChange
      /\ r.det \in Details /\ r.det # NULL
  <2>1. NoChange.step = "none" /\ change'.step = "dereg"
    BY <1>1 DEF NoChange
  <2> QED BY <1>1, <2>1, RegisteredIs, EventAssumption DEF Told, DbInv
<1>3. /\ \A i : Here(i)' <=> Here(i) /\ i # r.det.if_index
      /\ \A i, port : Mapped(i, port)' <=> Mapped(i, port) /\ i # r.det.if_index
  BY <1>1, Taken DEF Told, DbInv
<1>4. In(Ahead) = {}
  BY <1>1, AheadIs DEF Told
<1>5. In(Ahead)' = {DeleteEvent(r.det)}
  <2>1. (change # NoChange /\ change.new = NULL => In(Ahead) = {DeleteEvent(change.old)})'
    BY AheadDeletes, PTL
  <2> QED BY <1>2, <2>1
<1>6. \A i : ~Moving(i)
  <2>1. NoChange.step = "none"
    BY DEF NoChange
  <2> QED BY <1>1, <2>1 DEF Moving
<1>7. SetFollows' /\ Forgotten' /\ ListenerAgrees'
  <2>1. \A d \in Details : d.port_mapped /\ Mapped(d.if_index, d.port) =>
           \/ Mapped(d.if_index, d.port)'
           \/ \E e \in In(Ahead)' : About(e, d.if_index, d.port)
    BY <1>2, <1>3, <1>5, EventsSay
  <2>2. \A d \in Details : ~Here(d.if_index)' /\ ~Moving(d.if_index)' =>
           \/ ~Here(d.if_index) /\ ~Moving(d.if_index)
           \/ \E e \in In(Ahead)' : Deletes(e, d.if_index)
    BY <1>2, <1>3, <1>5, <1>6, EventsSay
  <2>3. \A d \in Details : d.port_mapped /\ Mapped(d.if_index, d.port)' => Mapped(d.if_index, d.port)
    BY <1>3
  <2> QED BY <1>1, <1>4, <2>1, <2>2, <2>3, Announced
<1>8. Moves'
  BY <1>2, <1>3 DEF Moves
<1> QED BY <1>1, <1>7, <1>8 DEF Told

\* A change of port announces the port it leaves and the port it joins.
LEMMA AheadSets ==
  DbInv => (change # NoChange /\ change.new # NULL =>
              \A d \in {change.old, change.new} \ {NULL} :
                   d.port_mapped => SetEvent(d) \in In(Ahead))
BY AheadIs

\* No interface is moving between changes.
LEMMA Still == change = NoChange => \A i : ~Moving(i)
<1>1. NoChange.step = "none"
  BY DEF NoChange
<1> QED BY <1>1 DEF Moving

\* Which registrations are refused, in every state.
LEMMA ConflictAll ==
  Inv => \A d \in Details : Conflict(d) <=>
           \E p \in Ptr, q \in QTypes :
             /\ heap[p] # NULL /\ HasKey(q, d) /\ HasKey(q, heap[p].det)
             /\ MkKey(q, heap[p].det) = MkKey(q, d)
BY ConflictIs

\* The keys that an interface is to have after a change of port are free once
\* it has been taken out.
LEMMA KeysFree ==
  ASSUME Coherent, Inv, Inv', NEW r \in Registered, NEW e \in Details,
         r.det.if_index = e.if_index, r.det.int_type = "PORT",
         \A s \in Registered : s.det.if_index # e.if_index /\ s.det.port_mapped
                                 => s.det.port # e.port,
         Deregister(r.det)
  PROVE  ~Conflict(e)'
<1>1. \A s \in Registered' : s \in Registered /\ s.det.if_index # e.if_index
  BY Taken
<1>2. e.int_type = "PORT"
  BY RegisteredIs, Zenon DEF Coherent
<1> SUFFICES ASSUME Conflict(e)' PROVE FALSE
  OBVIOUS
<1>3. (\E p \in Ptr, q \in QTypes :
             /\ heap[p] # NULL /\ HasKey(q, e) /\ HasKey(q, heap[p].det)
             /\ MkKey(q, heap[p].det) = MkKey(q, e))'
  <2>1. (\A d \in Details : Conflict(d) <=>
           \E p \in Ptr, q \in QTypes :
             /\ heap[p] # NULL /\ HasKey(q, d) /\ HasKey(q, heap[p].det)
             /\ MkKey(q, heap[p].det) = MkKey(q, d))'
    BY ConflictAll, PTL
  <2> QED BY <2>1
<1>4. PICK p \in Ptr, q \in QTypes :
        /\ heap'[p] # NULL /\ HasKey(q, e) /\ HasKey(q, heap'[p].det)
        /\ MkKey(q, heap'[p].det) = MkKey(q, e)
  BY <1>3 DEF HasKey, MkKey
<1> DEFINE s == heap'[p]
<1>5. s \in Registered /\ s.det.if_index # e.if_index /\ s.det \in Details
  <2>1. s \in Registered'
    BY <1>4 DEF Registered
  <2> QED BY <1>1, <2>1, RegisteredIs
<1> HIDE DEF s
<1>6. HasKey(q, s.det) /\ MkKey(q, s.det) = MkKey(q, e)
  BY <1>4 DEF s
<1>7. s.det.if_name # e.if_name
  BY <1>5, Zenon DEF Coherent
<1>8. q \in {"PORT", "IF", "TAP", "IF_NAME"}
  BY <1>2, <1>4 DEF HasKey, QueryValid, QTypes
<1>9. CASE q = "IF"
  BY <1>5, <1>6, <1>9, IfKey
<1>10. CASE q = "IF_NAME"
  BY <1>6, <1>7, <1>10 DEF MkKey
<1>11. CASE q = "PORT"
  BY <1>5, <1>6, <1>11 DEF MkKey, HasKey
<1>12. CASE q = "TAP"
  <2>1. s.det.port_mapped /\ e.port_mapped /\ s.det.tap_id = e.tap_id
    BY <1>4, <1>6, <1>12 DEF MkKey, HasKey
  <2>2. s.det.port = e.port
    BY <1>5, <2>1, Zenon DEF Coherent
  <2> QED BY <1>5, <2>1, <2>2
<1> QED BY <1>8, <1>9, <1>10, <1>11, <1>12

\* An interface taken out to be moved will be announced at the port it left.
LEMMA BeginChangeTold ==
  ASSUME Coherent, Told, DbInv', NEW r \in Registered, NEW e \in Details, BeginChange(r.det, e)
  PROVE  Told'
<1>1. /\ change = NoChange /\ change' = [step |-> "dereg", old |-> r.det, new |-> e]
      /\ UNCHANGED <<queue, setup>> /\ Deregister(r.det)
      /\ r.det.if_index = e.if_index /\ r.det.int_type = "PORT"
      /\ \A s \in Registered : s.det.if_index # e.if_index /\ s.det.port_mapped
                                 => s.det.port # e.port
  BY DEF BeginChange, Begin
<1>2. /\ change'.old = r.det /\ change'.new = e /\ change' # NoChange /\ change'.step = "dereg"
      /\ r.det \in Details /\ r.det # NULL /\ e # NULL
  <2>1. NoChange.step = "none" /\ change'.step = "dereg"
    BY <1>1 DEF NoChange
  <2> QED BY <1>1, <2>1, RegisteredIs, EventAssumption DEF Told, DbInv
<1>3. /\ \A i : Here(i)' <=> Here(i) /\ i # r.det.if_index
      /\ \A i, port : Mapped(i, port)' <=> Mapped(i, port) /\ i # r.det.if_index
      /\ Room'
  BY <1>1, Taken DEF Told, DbInv
<1>4. In(Ahead) = {}
  BY <1>1, AheadIs DEF Told
<1>5. r.det.port_mapped => SetEvent(r.det) \in In(Ahead)'
  <2>1. (change # NoChange /\ change.new # NULL =>
              \A d \in {change.old, change.new} \ {NULL} :
                   d.port_mapped => SetEvent(d) \in In(Ahead))'
    BY AheadSets, PTL
  <2>2. \A d \in {change'.old, change'.new} \ {NULL} : d.port_mapped => SetEvent(d) \in In(Ahead)'
    BY <1>2, <2>1 DEF SetEvent
  <2> QED BY <1>2, <2>2
<1>6. \A i : ~Moving(i)
  BY <1>1, Still
<1>7. \A port : Mapped(r.det.if_index, port) => r.det.port_mapped /\ r.det.port = port
  <2> SUFFICES ASSUME NEW port, NEW s \in Registered, s.det.if_index = r.det.if_index,
                      s.det.port_mapped, s.det.port = port
               PROVE  r.det.port_mapped /\ r.det.port = port
    BY DEF Mapped
  <2>1. PICK p \in Ptr, o \in Ptr : heap[p] = r /\ r # NULL /\ heap[o] = s /\ s # NULL
    BY RegisteredIs DEF Told, DbInv
  <2>2. p = o
    BY <2>1, OnePerIndex DEF Told, DbInv
  <2> QED BY <2>1, <2>2
<1>8. SetFollows' /\ Forgotten' /\ ListenerAgrees'
  <2>1. \A d \in Details : d.port_mapped /\ Mapped(d.if_index, d.port) =>
           \/ Mapped(d.if_index, d.port)'
           \/ \E x \in In(Ahead)' : About(x, d.if_index, d.port)
    BY <1>2, <1>3, <1>5, <1>7, EventsSay
  <2>2. Moving(r.det.if_index)'
    BY <1>1, <1>2 DEF Moving
  <2>3. \A d \in Details : ~Here(d.if_index)' /\ ~Moving(d.if_index)' =>
           ~Here(d.if_index) /\ ~Moving(d.if_index)
    BY <1>3, <1>6, <2>2
  <2>4. \A d \in Details : d.port_mapped /\ Mapped(d.if_index, d.port)' => Mapped(d.if_index, d.port)
    BY <1>3
  <2> QED BY <1>1, <1>4, <2>1, <2>3, <2>4, Announced
<1>9. ~Conflict(e)'
  BY <1>1, KeysFree DEF Told, DbInv
<1>10. Moves'
  <2>1. ~Conflict(change.new)'
    BY <1>2, <1>9
  <2> QED BY <1>1, <1>2, <1>3, <2>1 DEF Moves, Room
<1> QED BY <1>1, <1>8, <1>10 DEF Told

\* The interface put back is at the port it will be announced at.
LEMMA ReregisterTold ==
  ASSUME Coherent, Told, DbInv', Reregister
  PROVE  Told'
<1> DEFINE old == change.old
           new == change.new
<1>1. /\ change # NoChange /\ change.step = "dereg"
      /\ old \in Details \cup {NULL} /\ new \in Details \cup {NULL} /\ (old # NULL \/ new # NULL)
      /\ change = [step |-> change.step, old |-> old, new |-> new]
  BY InProgress DEF Reregister, Told, DbInv
<1>2. /\ change' = [step |-> "reg", old |-> old, new |-> new]
      /\ UNCHANGED <<queue, setup>>
  BY <1>1 DEF Reregister
<1>3. /\ change'.old = old /\ change'.new = new /\ change'.step = "reg" /\ change' # NoChange
  <2>1. NoChange.step = "none" /\ change'.step = "reg"
    BY <1>2 DEF NoChange
  <2> QED BY <1>2, <2>1
<1>4. In(Ahead)' = In(Ahead)
  <2>1. Ahead = Events(old, new) /\ Ahead' = Events(old, new)
    BY <1>1, <1>3 DEF Ahead, Events, PortEvent
  <2> QED BY <2>1 DEF In
<1>5. \A i : ~Moving(i)'
  BY <1>3 DEF Moving
<1>6. CASE UNCHANGED vars /\ (old = NULL \/ new = NULL)
  <2>1. \A i : (Here(i)' <=> Here(i)) /\ \A port : Mapped(i, port)' <=> Mapped(i, port)
    BY <1>6 DEF vars, Here, Mapped, Registered
  <2>2. \A i : ~Moving(i)
    BY <1>6 DEF Moving
  <2>3. SetFollows' /\ Forgotten' /\ ListenerAgrees'
    BY <1>2, <1>4, <2>1, <2>2, Announced
  <2>4. Moves'
    BY <1>1, <1>3, <1>6, <2>1 DEF Moves, Told
  <2> QED BY <1>2, <2>3, <2>4 DEF Told
<1>7. ASSUME new # NULL, \A i : Here(i)' <=> Here(i) \/ i = new.if_index,
             \A i, port : Mapped(i, port)' <=>
               Mapped(i, port) \/ (i = new.if_index /\ new.port_mapped /\ port = new.port)
      PROVE  Told'
  <2>1. new.port_mapped => SetEvent(new) \in In(Ahead)'
    BY <1>1, <1>4, <1>7, AheadIs DEF Told
  <2>2. \A d \in Details : d.port_mapped /\ Mapped(d.if_index, d.port)' =>
           \/ Mapped(d.if_index, d.port)
           \/ \E e \in In(Ahead)' : Sets(e, d.if_index, d.port)
    BY <1>1, <1>7, <2>1, EventsSay
  <2>3. \A i : Moving(i) => i = new.if_index
    BY DEF Moving
  <2>4. \A d \in Details : ~Here(d.if_index)' => ~Here(d.if_index) /\ ~Moving(d.if_index)
    BY <1>7, <2>3
  <2>5. SetFollows' /\ Forgotten' /\ ListenerAgrees'
    BY <1>2, <1>4, <1>7, <2>2, <2>4, Announced
  <2>6. Moves'
    BY <1>1, <1>3, <1>7 DEF Moves, Told
  <2> QED BY <1>2, <2>5, <2>6 DEF Told
<1>8. CASE new = NULL
  BY <1>6, <1>8 DEF Reregister
<1>9. CASE new # NULL
  <2>1. PICK m \in Macs, l \in L3Infos : Register(new, m, l)
    BY <1>9 DEF Reregister
  <2>2. CASE UNCHANGED vars /\ (Conflict(new) \/ ~Room)
    <3>1. old = NULL
      BY <1>1, <1>9, <2>2 DEF Told, Moves, Room
    <3> QED BY <1>6, <2>2, <3>1
  <2>3. new \in Details /\ Inv
    BY <1>1, <1>9 DEF Told, DbInv
  <2> HIDE DEF new, old
  <2>4. \/ UNCHANGED vars /\ (Conflict(new) \/ ~Room)
        \/ /\ \A i : Here(i)' <=> Here(i) \/ i = new.if_index
           /\ \A i, port : Mapped(i, port)' <=>
                Mapped(i, port) \/ (i = new.if_index /\ new.port_mapped /\ port = new.port)
    BY <2>1, <2>3, Added
  <2> QED BY <1>7, <1>9, <2>2, <2>4
<1> QED BY <1>8, <1>9

\* A change of address moves nothing.
LEMMA ChangeMacTold ==
  ASSUME Told, DbInv', NEW d \in Details, NEW m \in Macs, ChangeMac(d.if_index, m)
  PROVE  Told'
<1>1. UNCHANGED portVars /\ UpdateIntfMac(d.if_index, m) /\ Inv
  BY DEF ChangeMac, Told, DbInv
<1>2. /\ \A i : Here(i)' <=> Here(i)
      /\ \A i, port : Mapped(i, port)' <=> Mapped(i, port)
      /\ \A e \in Details : Conflict(e)' <=> Conflict(e)
      /\ Room' <=> Room
  BY <1>1, SameMac
<1>3. UNCHANGED <<change, queue, setup>>
  BY <1>1 DEF portVars
<1>4. In(Ahead)' = In(Ahead)
  BY <1>3 DEF Ahead, In, Events, PortEvent
<1>5. \A i : Moving(i)' <=> Moving(i)
  BY <1>3 DEF Moving
<1>6. SetFollows' /\ Forgotten' /\ ListenerAgrees'
  BY <1>2, <1>3, <1>4, <1>5, Announced
<1>7. Moves'
  <2>1. change # NoChange /\ change.new # NULL => change.new \in Details
    BY DEF Told, DbInv, ChangeOK
  <2>2. change # NoChange /\ change.new # NULL => (Conflict(change.new)' <=> Conflict(change.new))
    <3>1. change # NoChange /\ change.new # NULL =>
            (Conflict(change.new)' <=> \E q \in QTypes : Locate(q, change.new)' # NULL)
      BY DEF Conflict
    <3>2. UNCHANGED if_mappings
      BY <1>1 DEF UpdateIntfMac
    <3> QED BY <1>3, <3>2 DEF Conflict, Locate, HasKey, MkKey
  <2> QED BY <1>2, <1>3, <2>1, <2>2 DEF Moves, Room, Told
<1> QED BY <1>3, <1>6, <1>7 DEF Told

-----------------------------------------------------------------------------
(* The queue and the listener *)

\* Publishing moves the announced events to the end of the queue.
LEMMA PublishTold ==
  ASSUME Told, DbInv', Publish
  PROVE  Told'
<1>1. /\ change # NoChange /\ change.step = "reg"
      /\ change.old \in Details \cup {NULL} /\ change.new \in Details \cup {NULL}
      /\ change.old # NULL \/ change.new # NULL
  BY InProgress DEF Publish, Told, DbInv
<1>2. /\ queue' = queue \o Ahead /\ change' = NoChange
      /\ UNCHANGED vars /\ UNCHANGED setup
  BY <1>1 DEF Publish, Ahead
<1>3. Ahead' = <<>> /\ In(Ahead)' = {}
  <2>1. Ahead' = <<>>
    BY <1>2 DEF Ahead
  <2> QED BY <2>1 DEF In
<1>4. queue \in Seq(OtherEvents \cup PortEvents) /\ Ahead \in Seq(OtherEvents \cup PortEvents)
  <2>1. Ahead \in Seq(PortEvents)
    BY AheadIs DEF Told
  <2> HIDE DEF Ahead
  <2> QED BY <2>1 DEF Told
<1>5. queue' \in Seq(OtherEvents \cup PortEvents)
  BY <1>2, <1>4, ConcatProperties
<1>6. In(queue)' = In(queue) \cup In(Ahead)
  <2>1. In(queue \o Ahead) = In(queue) \cup In(Ahead)
    BY <1>4, Members
  <2>2. In(queue)' = In(queue')
    BY DEF In
  <2> QED BY <1>2, <2>1, <2>2
<1>7. \A i : (Here(i)' <=> Here(i)) /\ \A port : Mapped(i, port)' <=> Mapped(i, port)
  BY <1>2 DEF vars, Here, Mapped, Registered
<1>8. \A i : ~Moving(i)
  BY <1>1 DEF Moving
<1>9. Moves'
  BY <1>2 DEF Moves
<1>10. Forgotten'
  <2> SUFFICES ASSUME NEW d \in Details, ~Here(d.if_index)'
               PROVE  \/ \A x \in setup : x[1] # d.if_index
                      \/ \E e \in In(queue)' \cup In(Ahead)' : Deletes(e, d.if_index)
    BY <1>2 DEF Forgotten, Deletes
  <2> QED BY <1>3, <1>6, <1>7, <1>8 DEF Told, Forgotten
<1>11. ASSUME NEW d \in Details, d.port_mapped PROVE AgreesOn(d.if_index, d.port)'
  <2> SUFFICES ASSUME \A e \in In(queue)' \cup In(Ahead)' : ~About(e, d.if_index, d.port)
               PROVE  <<d.if_index, d.port>> \in setup <=> Mapped(d.if_index, d.port)'
    BY <1>2 DEF AgreesOn, About
  <2>1. AgreesOn(d.if_index, d.port)
    BY <1>11, AgreesIs DEF Told
  <2> QED BY <1>3, <1>6, <1>7, <2>1 DEF AgreesOn
<1>12. SetFollows'
  <2> SUFFICES ASSUME NEW d \in Details, d.port_mapped, Mapped(d.if_index, d.port)',
                      NEW n \in 1..Len(queue'), Deletes(queue'[n], d.if_index)
               PROVE  \E m \in (n + 1)..Len(queue') : Sets(queue'[m], d.if_index, d.port)
    BY DEF SetFollows, Deletes, Sets
  <2>1. /\ Len(queue) \in Nat /\ Len(Ahead) \in Nat /\ Len(queue') = Len(queue) + Len(Ahead)
        /\ \A k \in 1..Len(queue) : queue'[k] = queue[k]
        /\ \A k \in 1..Len(Ahead) : queue'[Len(queue) + k] = Ahead[k]
    BY <1>2, <1>4, ConcatProperties
  <2>2. Mapped(d.if_index, d.port) /\ Here(d.if_index)
    <3>1. Mapped(d.if_index, d.port)
      BY <1>7
    <3> QED BY <3>1 DEF Mapped, Here
  <2>3. CASE n \in 1..Len(queue)
    <3>1. \/ \E m \in (n + 1)..Len(queue) : Sets(queue[m], d.if_index, d.port)
          \/ \E e \in In(Ahead) : Sets(e, d.if_index, d.port)
      BY <2>1, <2>2, <2>3 DEF Told, SetFollows
    <3>2. ASSUME NEW m \in (n + 1)..Len(queue), Sets(queue[m], d.if_index, d.port)
          PROVE  m \in (n + 1)..Len(queue') /\ Sets(queue'[m], d.if_index, d.port)
      <4>1. m \in 1..Len(queue) /\ m \in (n + 1)..Len(queue')
        BY <2>1
      <4> QED BY <2>1, <3>2, <4>1
    <3>3. ASSUME NEW k \in 1..Len(Ahead), Sets(Ahead[k], d.if_index, d.port)
          PROVE  \E m \in (n + 1)..Len(queue') : Sets(queue'[m], d.if_index, d.port)
      <4>1. Len(queue) + k \in (n + 1)..Len(queue')
        BY <2>1, <2>3
      <4> QED BY <2>1, <3>3, <4>1
    <3> QED BY <3>1, <3>2, <3>3 DEF In
  <2>4. CASE n \notin 1..Len(queue)
    <3>1. n - Len(queue) \in 1..Len(Ahead) /\ n = Len(queue) + (n - Len(queue))
      BY <2>1, <2>4
    <3>2. PICK e \in In(Ahead) : Deletes(e, d.if_index)
      <4>1. queue'[n] = Ahead[n - Len(queue)]
        BY <2>1, <3>1
      <4> QED BY <3>1, <4>1 DEF In
    <3>3. CASE change.new # NULL
      <4>1. PICK x \in {change.old, change.new} \ {NULL} : e = SetEvent(x)
        BY <1>1, <3>2, <3>3, AheadIs DEF Told
      <4> QED BY <1>1, <3>2, <4>1, EventsSay
    <3>4. CASE change.new = NULL
      <4>1. e = DeleteEvent(change.old) /\ change.old \in Details
        BY <1>1, <3>2, <3>4, AheadIs DEF Told
      <4>2. d.if_index = change.old.if_index
        BY <3>2, <4>1, EventsSay
      <4> QED BY <1>1, <2>2, <3>4, <4>2 DEF Told, Moves
    <3> QED BY <3>3, <3>4
  <2> QED BY <2>3, <2>4
<1> QED BY <1>5, <1>9, <1>10, <1>11, <1>12, AgreesNext DEF Told

\* An event that is not about ports changes nothing.
LEMMA PublishOtherTold ==
  ASSUME Coherent, Told, DbInv', NEW x \in OtherEvents, PublishOther(x)
  PROVE  Told'
<1>1. /\ queue' = Append(queue, x) /\ change = NoChange
      /\ UNCHANGED vars /\ UNCHANGED <<change, setup>>
  BY DEF PublishOther
<1>2. In(Ahead) = {} /\ In(Ahead)' = {}
  BY <1>1 DEF Ahead, In
<1>3. queue \in Seq(OtherEvents \cup PortEvents)
  BY DEF Told
<1>4. /\ Len(queue) \in Nat /\ Len(queue') = Len(queue) + 1 /\ queue'[Len(queue) + 1] = x
      /\ \A k \in 1..Len(queue) : queue'[k] = queue[k]
      /\ queue' \in Seq(OtherEvents \cup PortEvents)
  BY <1>1, <1>3
<1>5. In(queue)' = In(queue) \cup {x}
  <2>1. \A k \in 1..(Len(queue) + 1) : k \in 1..Len(queue) \/ k = Len(queue) + 1
    BY <1>4
  <2>2. \A k \in 1..Len(queue) : k \in 1..(Len(queue) + 1)
    BY <1>4
  <2>3. Len(queue) + 1 \in 1..(Len(queue) + 1)
    BY <1>4
  <2> QED BY <1>4, <2>1, <2>2, <2>3 DEF In
<1>6. \A i : (Here(i)' <=> Here(i)) /\ \A port : Mapped(i, port)' <=> Mapped(i, port)
  BY <1>1 DEF vars, Here, Mapped, Registered
<1>7. \A i : ~Moving(i)
  BY <1>1, Still
<1>8. Moves'
  BY <1>1 DEF Moves
<1>9. Forgotten'
  <2> SUFFICES ASSUME NEW d \in Details, ~Here(d.if_index)'
               PROVE  \/ \A y \in setup : y[1] # d.if_index
                      \/ \E e \in In(queue)' \cup In(Ahead)' : Deletes(e, d.if_index)
    BY <1>1 DEF Forgotten, Deletes
  <2> QED BY <1>2, <1>5, <1>6, <1>7 DEF Told, Forgotten
<1>10. ASSUME NEW d \in Details, d.port_mapped PROVE AgreesOn(d.if_index, d.port)'
  <2> SUFFICES ASSUME \A e \in In(queue)' \cup In(Ahead)' : ~About(e, d.if_index, d.port)
               PROVE  <<d.if_index, d.port>> \in setup <=> Mapped(d.if_index, d.port)'
    BY <1>1 DEF AgreesOn, About
  <2>1. AgreesOn(d.if_index, d.port)
    BY <1>10, AgreesIs DEF Told
  <2> QED BY <1>2, <1>5, <1>6, <2>1 DEF AgreesOn
<1>11. SetFollows'
  <2> SUFFICES ASSUME NEW d \in Details, d.port_mapped, Mapped(d.if_index, d.port)',
                      NEW n \in 1..Len(queue'), Deletes(queue'[n], d.if_index)
               PROVE  \E m \in (n + 1)..Len(queue') : Sets(queue'[m], d.if_index, d.port)
    BY DEF SetFollows, Deletes, Sets
  <2>1. x.op = "SET"
    BY Zenon DEF Coherent
  <2>2. n \in 1..Len(queue)
    BY <1>4, <2>1 DEF Deletes
  <2>3. PICK m \in (n + 1)..Len(queue) : Sets(queue[m], d.if_index, d.port)
    BY <1>2, <1>4, <1>6, <2>2 DEF Told, SetFollows
  <2>4. m \in 1..Len(queue) /\ m \in (n + 1)..Len(queue')
    BY <1>4, <2>2
  <2> QED BY <1>4, <2>3, <2>4
<1> QED BY <1>4, <1>8, <1>9, <1>10, <1>11, AgreesNext DEF Told

\* What nas_get_phy_port_mapping_change answers for an event about a port: the
\* interface found by the name or the if_index of the event decides.
LEMMA AnswerIs ==
  ASSUME Coherent, Inv, NEW d \in Details
  PROVE  /\ ~Here(d.if_index) => MappingChange(SetEvent(d)) = "none"
         /\ Mapped(d.if_index, d.port) => MappingChange(SetEvent(d)) = "MAPPED"
         /\ Here(d.if_index) /\ ~Mapped(d.if_index, d.port) =>
              MappingChange(SetEvent(d)) = "UNMAPPED"
<1> DEFINE f == EventIntf(SetEvent(d))
<1>1. /\ SetEvent(d).op = "SET" /\ SetEvent(d).port = d.port /\ SetEvent(d).if_index = d.if_index
      /\ SetEvent(d).name = IF d.if_index \in ByIndex THEN NULL ELSE d.if_name
      /\ d.port # NULL /\ d.if_index # NULL /\ d.if_name # NULL
  BY EventAssumption, DetailsAssumption DEF SetEvent
<1>2. f = IF d.if_index \in ByIndex THEN Found(Entry("IF", <<0, d.if_index>>))
                                    ELSE Found(Entry("IF_NAME", d.if_name))
  BY <1>1 DEF EventIntf, ByIfIndex
<1>3. \A x \in Details : x.vrf_id = 0 /\ x.if_name # "" /\ (x.if_name = d.if_name <=> x.if_index = d.if_index)
  BY Zenon DEF Coherent
<1>4. ASSUME NEW r \in Registered, r.det.if_index = d.if_index
      PROVE  f = r.det /\ f # NULL
  <2>1. PICK p \in Ptr : heap[p] = r /\ r # NULL
    BY RegisteredIs
  <2>2. r.det \in Details /\ r.det.vrf_id = 0 /\ r.det.if_name # "" /\ r.det.if_name = d.if_name
    BY <1>3, <1>4, RegisteredIs
  <2>3. /\ HasKey("IF", heap[p].det) /\ MkKey("IF", heap[p].det) = <<0, d.if_index>>
        /\ HasKey("IF_NAME", heap[p].det) /\ MkKey("IF_NAME", heap[p].det) = d.if_name
    BY <1>4, <2>1, <2>2 DEF HasKey, MkKey, QueryValid
  <2>4. /\ Entry("IF", <<0, d.if_index>>) = p /\ Entry("IF_NAME", d.if_name) = p
        /\ Found(p) = r.det /\ r.det # NULL
    BY <2>1, <2>3, EntryFinds DEF QTypes
  <2> QED BY <1>2, <2>4
<1>5. ASSUME f # NULL PROVE \E r \in Registered : r.det.if_index = d.if_index
  <2>1. PICK q \in {"IF", "IF_NAME"} :
          /\ f = Found(Entry(q, IF q = "IF" THEN <<0, d.if_index>> ELSE d.if_name))
          /\ d.if_index \in ByIndex <=> q = "IF"
    BY <1>2
  <2> DEFINE k == IF q = "IF" THEN <<0, d.if_index>> ELSE d.if_name
             o == Entry(q, k)
  <2>2. o # NULL
    BY <1>5, <2>1 DEF Found
  <2>3. q \in QTypes
    BY DEF QTypes
  <2>4. o \in Ptr /\ heap[o] # NULL /\ MkKey(q, heap[o].det) = k
    BY <2>2, <2>3, EntrySound
  <2> HIDE DEF o
  <2>5. heap[o] \in Registered /\ heap[o].det \in Details
    BY <2>4, RegisteredIs
  <2>6. CASE q = "IF"
    <3>1. <<heap[o].det.vrf_id, heap[o].det.if_index>> = <<0, d.if_index>>
      BY <2>4, <2>5, <2>6, IfKey
    <3> QED BY <2>5, <3>1
  <2>7. CASE q = "IF_NAME"
    <3>1. heap[o].det.if_name = d.if_name
      BY <2>4, <2>7 DEF MkKey
    <3> QED BY <1>3, <2>5, <3>1
  <2> QED BY <2>6, <2>7
<1> HIDE DEF f
<1>6. MappingChange(SetEvent(d)) =
        IF f = NULL THEN "none"
        ELSE IF f.port_mapped /\ f.port = d.port THEN "MAPPED" ELSE "UNMAPPED"
  BY <1>1 DEF MappingChange, f
<1>7. CASE Here(d.if_index)
  <2>1. PICK r \in Registered : r.det.if_index = d.if_index
    BY <1>7 DEF Here
  <2>2. f = r.det /\ f # NULL
    BY <1>4, <2>1
  <2>3. Mapped(d.if_index, d.port) <=> f.port_mapped /\ f.port = d.port
    <3>1. ASSUME f.port_mapped, f.port = d.port PROVE Mapped(d.if_index, d.port)
      BY <2>1, <2>2, <3>1 DEF Mapped
    <3>2. ASSUME NEW s \in Registered, s.det.if_index = d.if_index, s.det.port_mapped,
                 s.det.port = d.port
          PROVE  f.port_mapped /\ f.port = d.port
      BY <1>4, <3>2
    <3> QED BY <3>1, <3>2 DEF Mapped
  <2> QED BY <1>6, <1>7, <2>2, <2>3
<1>8. CASE ~Here(d.if_index)
  <2>1. f = NULL
    BY <1>5, <1>8 DEF Here
  <2>2. ~Mapped(d.if_index, d.port)
    BY <1>8 DEF Here, Mapped
  <2> QED BY <1>6, <1>8, <2>1, <2>2
<1> QED BY <1>7, <1>8

\* What any event in the queue does to the listener.
LEMMA Effect ==
  ASSUME Coherent, Told, queue # <<>>, Handle
  PROVE  LET e == Head(queue) IN
         \/ /\ e \in OtherEvents /\ setup' = setup
            /\ \A d \in Details : ~About(e, d.if_index, d.port)
            /\ \A i : ~Deletes(e, i)
         \/ \E x \in Details :
              /\ x.port_mapped /\ e = SetEvent(x)
              /\ ~Here(x.if_index) => setup' = setup
              /\ Mapped(x.if_index, x.port) => setup' = setup \cup {<<x.if_index, x.port>>}
              /\ Here(x.if_index) /\ ~Mapped(x.if_index, x.port) =>
                   setup' = setup \ {<<x.if_index, x.port>>}
         \/ \E x \in Details :
              /\ e = DeleteEvent(x)
              /\ setup' = {y \in setup : y[1] # x.if_index}
<1> DEFINE e == Head(queue)
<1>1. e \in OtherEvents \cup PortEvents
  BY Members DEF Told
<1>2. setup' = CASE MappingChange(e) = "MAPPED"   -> setup \cup {<<e.if_index, e.port>>}
                 [] MappingChange(e) = "UNMAPPED" -> setup \ {<<e.if_index, e.port>>}
                 [] e.op = "DELETE"               -> {x \in setup : x[1] # e.if_index}
                 [] OTHER                         -> setup
  BY DEF Handle
<1>3. Inv
  BY DEF Told, DbInv
<1> HIDE DEF e
<1>4. CASE e \in OtherEvents
  <2>1. e.op = "SET" /\ (e.port = NULL \/ (e.if_index = NULL /\ e.name = NULL))
    BY <1>4, Zenon DEF Coherent
  <2>2. MappingChange(e) = "none"
    BY <2>1 DEF MappingChange, EventIntf
  <2>3. setup' = setup
    BY <1>2, <2>1, <2>2
  <2>4. \A d \in Details : d.if_index # NULL /\ d.port # NULL
    BY DetailsAssumption, EventAssumption
  <2>5. \A d \in Details : ~About(e, d.if_index, d.port)
    BY <2>1, <2>4 DEF About
  <2>6. \A i : ~Deletes(e, i)
    BY <2>1 DEF Deletes
  <2> QED BY <1>4, <2>3, <2>5, <2>6 DEF e
<1>5. ASSUME NEW x \in Details, x.port_mapped, e = SetEvent(x)
      PROVE  /\ ~Here(x.if_index) => setup' = setup
             /\ Mapped(x.if_index, x.port) => setup' = setup \cup {<<x.if_index, x.port>>}
             /\ Here(x.if_index) /\ ~Mapped(x.if_index, x.port) =>
                  setup' = setup \ {<<x.if_index, x.port>>}
  <2>1. e.op = "SET" /\ e.if_index = x.if_index /\ e.port = x.port
    BY <1>5 DEF SetEvent
  <2> QED BY <1>2, <1>3, <1>5, <2>1, AnswerIs
<1>6. ASSUME NEW x \in Details, e = DeleteEvent(x)
      PROVE  setup' = {y \in setup : y[1] # x.if_index}
  <2>1. e.op = "DELETE" /\ e.if_index = x.if_index
    BY <1>6 DEF DeleteEvent
  <2>2. MappingChange(e) = "none"
    BY <2>1 DEF MappingChange
  <2> QED BY <1>2, <2>1, <2>2
<1>7. \/ e \in OtherEvents
      \/ \E x \in Details : x.port_mapped /\ e = SetEvent(x)
      \/ \E x \in Details : e = DeleteEvent(x)
  BY <1>1 DEF PortEvents
<1> QED BY <1>4, <1>5, <1>6, <1>7 DEF e

\* Handling an event brings the listener up to date with it, or leaves a
\* later event to do so.
LEMMA HandleTold ==
  ASSUME Coherent, Told, DbInv', Handle
  PROVE  Told'
<1> DEFINE e == Head(queue)
<1>1. /\ queue # <<>> /\ queue' = Tail(queue) /\ UNCHANGED vars /\ UNCHANGED change
      /\ change.step # "dereg"
  BY DEF Handle, Coherent
<1>2. queue \in Seq(OtherEvents \cup PortEvents)
  BY DEF Told
<1>3. In(queue) = {e} \cup In(queue)'
  <2>1. In(queue) = {e} \cup In(Tail(queue))
    BY <1>1, <1>2, Members
  <2>2. In(queue)' = In(queue')
    BY DEF In
  <2> QED BY <1>1, <2>1, <2>2
<1>4. /\ Len(queue) \in Nat /\ Len(queue') = Len(queue) - 1 /\ Len(queue) >= 1 /\ e = queue[1]
      /\ \A k \in 1..(Len(queue) - 1) : queue'[k] = queue[k + 1]
      /\ queue' \in Seq(OtherEvents \cup PortEvents)
  BY <1>1, <1>2
<1>5. In(Ahead)' = In(Ahead)
  BY <1>1 DEF Ahead, In, Events, PortEvent
<1>6. \A i : (Here(i)' <=> Here(i)) /\ \A port : Mapped(i, port)' <=> Mapped(i, port)
  BY <1>1 DEF vars, Here, Mapped, Registered
<1>7. \A i : ~Moving(i)
  BY <1>1 DEF Moving
<1>8. \A i, port : Mapped(i, port) => Here(i)
  BY DEF Mapped, Here
<1>9. Moves'
  <2>1. Moves
    BY DEF Told
  <2>2. change # NoChange => (Conflict(change.new)' <=> Conflict(change.new))
    BY <1>1 DEF vars, Conflict, Locate, HasKey, MkKey
  <2> QED BY <1>1, <1>6, <2>1, <2>2 DEF Moves
<1>10. SetFollows'
  <2> SUFFICES ASSUME NEW d \in Details, d.port_mapped, Mapped(d.if_index, d.port)',
                      NEW n \in 1..Len(queue'), Deletes(queue'[n], d.if_index)
               PROVE  \/ \E m \in (n + 1)..Len(queue') : Sets(queue'[m], d.if_index, d.port)
                      \/ \E x \in In(Ahead)' : Sets(x, d.if_index, d.port)
    BY DEF SetFollows, Deletes, Sets
  <2>1. n + 1 \in 1..Len(queue) /\ queue[n + 1] = queue'[n]
    BY <1>4
  <2>2. Mapped(d.if_index, d.port)
    BY <1>6
  <2>3. \/ \E m \in ((n + 1) + 1)..Len(queue) : Sets(queue[m], d.if_index, d.port)
        \/ \E x \in In(Ahead) : Sets(x, d.if_index, d.port)
    BY <2>1, <2>2 DEF Told, SetFollows
  <2>4. ASSUME NEW m \in ((n + 1) + 1)..Len(queue), Sets(queue[m], d.if_index, d.port)
        PROVE  \E k \in (n + 1)..Len(queue') : Sets(queue'[k], d.if_index, d.port)
    <3>1. m - 1 \in (n + 1)..Len(queue') /\ queue'[m - 1] = queue[m]
      BY <1>4, <2>4
    <3> QED BY <2>4, <3>1
  <2> QED BY <1>5, <2>3, <2>4
<1> HIDE DEF e
<1>11. \/ /\ setup' = setup
          /\ \A d \in Details : ~About(e, d.if_index, d.port)
          /\ \A i : ~Deletes(e, i)
       \/ \E x \in Details :
            /\ x.port_mapped /\ e = SetEvent(x)
            /\ ~Here(x.if_index) => setup' = setup
            /\ Mapped(x.if_index, x.port) => setup' = setup \cup {<<x.if_index, x.port>>}
            /\ Here(x.if_index) /\ ~Mapped(x.if_index, x.port) =>
                 setup' = setup \ {<<x.if_index, x.port>>}
       \/ \E x \in Details :
            /\ e = DeleteEvent(x)
            /\ setup' = {y \in setup : y[1] # x.if_index}
  BY <1>1, Effect DEF e
<1>12. Forgotten'
  <2> SUFFICES ASSUME NEW d \in Details, ~Here(d.if_index)'
               PROVE  \/ \A y \in setup' : y[1] # d.if_index
                      \/ \E x \in In(queue)' \cup In(Ahead)' : Deletes(x, d.if_index)
    BY DEF Forgotten, Deletes
  <2>1. ~Here(d.if_index)
    BY <1>6
  <2>2. \/ \A y \in setup : y[1] # d.if_index
        \/ \E x \in In(queue) \cup In(Ahead) : Deletes(x, d.if_index)
    BY <1>7, <2>1 DEF Told, Forgotten
  <2>3. CASE \A y \in setup : y[1] # d.if_index
    <3>1. ASSUME NEW x \in Details, Mapped(x.if_index, x.port)
          PROVE  <<x.if_index, x.port>>[1] # d.if_index
      BY <1>8, <2>1, <3>1
    <3> QED BY <1>11, <2>3, <3>1
  <2>4. CASE Deletes(e, d.if_index)
    <3>1. \A x \in Details : e # SetEvent(x)
      BY <2>4, EventsSay
    <3> QED BY <1>11, <2>4, <3>1, EventsSay
  <2> QED BY <1>3, <1>5, <2>2, <2>3, <2>4
<1>13. ASSUME NEW d \in Details, d.port_mapped PROVE AgreesOn(d.if_index, d.port)'
  <2> DEFINE pair == <<d.if_index, d.port>>
  <2> SUFFICES ASSUME \A x \in In(queue)' \cup In(Ahead)' : ~About(x, d.if_index, d.port)
               PROVE  pair \in setup' <=> Mapped(d.if_index, d.port)'
    BY DEF AgreesOn, About
  <2>1. \A x \in In(queue)' \cup In(Ahead) : ~About(x, d.if_index, d.port)
    BY <1>5
  <2>2. CASE ~About(e, d.if_index, d.port)
    <3>1. AgreesOn(d.if_index, d.port)
      BY <1>13, AgreesIs DEF Told
    <3>2. pair \in setup <=> Mapped(d.if_index, d.port)
      BY <1>3, <2>1, <2>2, <3>1 DEF AgreesOn
    <3>3. ASSUME NEW x \in Details, e = SetEvent(x)
          PROVE  pair # <<x.if_index, x.port>>
      BY <2>2, <3>3, EventsSay
    <3>4. ASSUME NEW x \in Details, e = DeleteEvent(x)
          PROVE  pair[1] # x.if_index
      BY <2>2, <3>4, EventsSay
    <3>5. pair \in setup' <=> pair \in setup
      <4> HIDE DEF pair
      <4> QED BY <1>8, <1>11, <3>3, <3>4
    <3> QED BY <1>6, <3>2, <3>5
  <2>3. CASE About(e, d.if_index, d.port)
    <3>1. ASSUME NEW x \in Details, x.port_mapped, e = SetEvent(x),
                 ~Here(x.if_index) => setup' = setup,
                 Mapped(x.if_index, x.port) => setup' = setup \cup {<<x.if_index, x.port>>},
                 Here(x.if_index) /\ ~Mapped(x.if_index, x.port) =>
                   setup' = setup \ {<<x.if_index, x.port>>}
          PROVE  pair \in setup' <=> Mapped(d.if_index, d.port)
      <4>1. x.if_index = d.if_index /\ x.port = d.port
        BY <2>3, <3>1 DEF About, SetEvent
      <4>2. CASE Here(x.if_index)
        BY <3>1, <4>1, <4>2
      <4>3. CASE ~Here(x.if_index)
        <5>1. \A y \in In(queue) \cup In(Ahead) : ~Deletes(y, d.if_index)
          <6>1. \A y \in In(queue)' \cup In(Ahead) : ~Deletes(y, d.if_index)
            BY <2>1 DEF About, Deletes
          <6>2. ~Deletes(e, d.if_index)
            BY <3>1, EventsSay
          <6> QED BY <1>3, <6>1, <6>2
        <5>2. \A y \in setup : y[1] # d.if_index
          BY <1>7, <4>1, <4>3, <5>1 DEF Told, Forgotten
        <5>3. pair \notin setup /\ ~Mapped(d.if_index, d.port)
          BY <1>8, <4>1, <4>3, <5>2
        <5> QED BY <3>1, <4>3, <5>3
      <4> QED BY <4>2, <4>3
    <3>2. ASSUME NEW x \in Details, e = DeleteEvent(x), setup' = {y \in setup : y[1] # x.if_index}
          PROVE  pair \in setup' <=> Mapped(d.if_index, d.port)
      <4>1. x.if_index = d.if_index
        BY <2>3, <3>2 DEF About, DeleteEvent
      <4>2. pair \notin setup'
        BY <3>2, <4>1
      <4>3. ASSUME Mapped(d.if_index, d.port) PROVE FALSE
        <5>1. 1 \in 1..Len(queue) /\ Deletes(queue[1], d.if_index)
          BY <1>4, <3>2, <4>1, EventsSay DEF e
        <5>2. \/ \E m \in (1 + 1)..Len(queue) : Sets(queue[m], d.if_index, d.port)
              \/ \E y \in In(Ahead) : Sets(y, d.if_index, d.port)
          BY <1>13, <4>3, <5>1 DEF Told, SetFollows
        <5>3. ASSUME NEW m \in (1 + 1)..Len(queue) PROVE queue[m] \in In(queue)'
          <6>1. m - 1 \in 1..Len(queue') /\ queue'[m - 1] = queue[m]
            BY <1>4
          <6> QED BY <6>1 DEF In
        <5> QED BY <2>1, <5>2, <5>3 DEF Sets, About
      <4> QED BY <4>2, <4>3
    <3>3. pair \in setup' <=> Mapped(d.if_index, d.port)
      <4> HIDE DEF pair
      <4> QED BY <1>11, <2>3, <3>1, <3>2
    <3> QED BY <1>6, <3>3
  <2> QED BY <2>2, <2>3
<1> QED BY <1>4, <1>9, <1>10, <1>12, <1>13, AgreesNext DEF Told

\* Every step keeps the listener informed.
LEMMA ToldStep ==
  ASSUME Coherent
  PROVE  Told /\ [PortNext]_allVars => Told'
<1> SUFFICES ASSUME Told, [PortNext]_allVars PROVE Told'
  OBVIOUS
<1>1. DbInv'
  BY DbInvStep DEF Told
<1>2. CASE UNCHANGED allVars
  BY <1>2 DEF allVars, portVars, vars, Told, DbInv, Inv, TypeOK, IndexConsistent,
              RecordsReachable, EntriesValid, ChangeOK, Moves, SetFollows, Forgotten, ListenerAgrees,
              Conflict, Locate, Here, Mapped, Moving, Registered, Ahead, In, Pending
<1> QED BY <1>1, <1>2, BeginCreateTold, BeginDeleteTold, BeginChangeTold, ReregisterTold,
           PublishTold, PublishOtherTold, ChangeMacTold, HandleTold DEF PortNext

\* However quickly interfaces move from port to port, come and go, and however
\* far the listener is behind, the ports it has set up are those in use, save
\* for the ports it is still to be told about, for any interfaces that are
\* Coherent, any other events and any length of the queue.
THEOREM ListenerTold ==
  ASSUME Coherent
  PROVE  PortSpec => []ListenerAgrees
<1>1. PortInit => Told
  <2> SUFFICES ASSUME PortInit PROVE Told
    OBVIOUS
  <2>1. DbInv
    BY InitInv DEF PortInit, DbInv, ChangeOK
  <2>2. /\ queue = <<>> /\ change = NoChange /\ setup = {} /\ Registered = {}
        /\ In(queue) = {} /\ In(Ahead) = {}
    BY DEF PortInit, Init, Registered, In, Ahead
  <2>3. queue \in Seq(OtherEvents \cup PortEvents)
    BY <2>2
  <2>4. Moves /\ SetFollows /\ Forgotten
    BY <2>2 DEF Moves, SetFollows, Forgotten
  <2>5. \A d \in Details : AgreesOn(d.if_index, d.port)
    BY <2>2 DEF AgreesOn, Mapped
  <2> QED BY <2>1, <2>3, <2>4, <2>5, AgreesIs DEF Told
<1>2. Told => ListenerAgrees
  BY DEF Told
<1>3. Told /\ [PortNext]_allVars => Told'
  BY ToldStep
<1> QED BY <1>1, <1>2, <1>3, PTL DEF PortSpec

=============================================================================
