----------------------------- MODULE PortMapping -----------------------------
(***************************************************************************)
(* The helpers of nas_if_utils.cpp over the interface database, and the    *)
(* listeners that ask nas_get_phy_port_mapping_change what an interface    *)
(* event means for a physical port.                                        *)
(*                                                                         *)
(* The event names a port; whether the interface is mapped to it is read   *)
(* from the database when the event is HANDLED, so events and database may *)
(* be several changes apart.                                               *)
(*                                                                         *)
(* External: the interface manager, which changes the port of an interface *)
(* the only way the database allows (DEREG, then REG of the new details)   *)
(* and then publishes one SET event for the port left and one for the port *)
(* joined, or a DELETE event; the event queue, first in first out; and the *)
(* listener, which sets up or cleans up the port it is told about.         *)
(***************************************************************************)
EXTENDS IfMapping, Sequences

CONSTANTS ByIndex,    \* if_index values whose events carry no name
          OtherEvents,\* interface events that are not about ports
          MaxEvents,  \* bound on the queue
          Atomic      \* are events handled only outside a DEREG-REG pair?

ASSUME EventAssumption ==
  /\ MaxEvents \in Nat /\ Atomic \in BOOLEAN
  /\ NULL \notin Details \cup Nat /\ \A d \in Details : d.if_name # NULL

VARIABLES change,     \* the interface manager's change in progress
          queue,      \* events not handled yet
          setup       \* <<if_index, port>> pairs the listener has set up

portVars == <<change, queue, setup>>
allVars  == <<vars, portVars>>

NoChange == [step |-> "none"]

PortInit ==
  /\ Init
  /\ change = NoChange /\ queue = <<>> /\ setup = {}

-----------------------------------------------------------------------------
(* The helpers.  Each searches by one key; all that take an if_index alone *)
(* search VRF 0.  NULL stands for an error.  A MAC address is the value    *)
(* its string denotes; strings in the database are well formed.            *)

Entry(q, k) == IF k \in Keys(q) THEN if_mappings[q][k] ELSE NULL

Found(p) == IF p = NULL THEN NULL ELSE heap[p].det

ByIfIndex(ifx) == Found(Entry("IF", <<0, ifx>>))

GetNameToIfIndex(name) ==
  LET d == Found(Entry("IF_NAME", name)) IN IF d = NULL THEN NULL ELSE d.if_index

GetIfIndexToName(ifx, vrf) ==
  LET d == Found(Entry("IF", <<vrf, ifx>>)) IN IF d = NULL THEN NULL ELSE d.if_name

GetIfType(name) ==
  LET d == Found(Entry("IF_NAME", name)) IN IF d = NULL THEN NULL ELSE d.int_type

GetLagIdFromIfIndex(ifx) ==
  LET d == ByIfIndex(ifx)
  IN IF d = NULL THEN NULL ELSE IF d.int_type # "LAG" THEN NULL ELSE d.obj_id

GetLagIfIndex(id) ==
  LET d == Found(Entry("LAG", id)) IN IF d = NULL THEN NULL ELSE d.if_index

GetIntfMacAddrStr(name) ==
  LET p == Entry("IF_NAME", name) IN IF p = NULL THEN NULL ELSE heap[p].mac

GetInterfaceMac(ifx) ==
  LET p == Entry("IF", <<0, ifx>>) IN IF p = NULL THEN NULL ELSE heap[p].mac

\* mutant: the type of the interface is not looked at
IsVirtualPortAnyType(ifx) ==
  LET d == ByIfIndex(ifx) IN IF d = NULL THEN FALSE ELSE ~d.port_mapped

IsVirtualPort(ifx) ==
  LET d == ByIfIndex(ifx)
  IN IF d = NULL THEN FALSE ELSE d.int_type = "PORT" /\ ~d.port_mapped

-----------------------------------------------------------------------------
(* nas_get_phy_port_mapping_change *)

\* an event carries a name or, failing that, an if_index
EventIntf(e) ==
  CASE e.name # NULL                         -> Found(Entry("IF_NAME", e.name))
    [] e.name = NULL /\ e.if_index # NULL    -> ByIfIndex(e.if_index)
    [] OTHER                                 -> NULL

\* mutant: the port of the event is not compared with the current one
MappingChangeNoCompare(e) ==
  LET d == EventIntf(e) IN
  IF e.op # "SET" \/ e.port = NULL \/ d = NULL THEN "none"
  ELSE IF d.port_mapped THEN "MAPPED" ELSE "UNMAPPED"

\* "none" stands for false.  An interface that has moved on to another port
\* counts as unmapped from the port of the event.
MappingChange(e) ==
  LET d == EventIntf(e) IN
  IF e.op # "SET" \/ e.port = NULL \/ d = NULL THEN "none"
  ELSE IF d.port_mapped /\ d.port = e.port THEN "MAPPED" ELSE "UNMAPPED"

-----------------------------------------------------------------------------
(* The interface manager *)

Registered == {heap[p] : p \in {x \in Ptr : heap[x] # NULL}}

PortEvent(d) ==
  IF d.port_mapped
  THEN << [op |-> "SET", if_index |-> d.if_index, port |-> d.port,
           name |-> IF d.if_index \in ByIndex THEN NULL ELSE d.if_name] >>
  ELSE <<>>

\* what is published about a change from the details old to new
Events(old, new) ==
  IF new = NULL
  THEN << [op |-> "DELETE", if_index |-> old.if_index, port |-> NULL, name |-> old.if_name] >>
  ELSE (IF old = NULL THEN <<>> ELSE PortEvent(old)) \o PortEvent(new)

\* the manager gives a port to one interface at a time
Begin(old, new) ==
  /\ change = NoChange
  /\ Len(queue) + 2 <= MaxEvents
  /\ change' = [step |-> "dereg", old |-> old, new |-> new]
  /\ UNCHANGED <<queue, setup>>

BeginCreate(d) ==
  /\ ~Conflict(d)
  /\ Begin(NULL, d)
  /\ UNCHANGED vars

BeginChange(d, e) ==
  /\ d # e /\ d.if_index = e.if_index /\ d.int_type = "PORT"
  /\ \A r \in Registered : r.det.if_index # e.if_index /\ r.det.port_mapped
                             => r.det.port # e.port
  /\ Begin(d, e)
  /\ Deregister(d)

BeginDelete(d) ==
  /\ Begin(d, NULL)
  /\ Deregister(d)

Reregister ==
  /\ change.step = "dereg"
  /\ \/ change.new # NULL /\ \E m \in Macs, l \in L3Infos : Register(change.new, m, l)
     \/ change.new = NULL /\ UNCHANGED vars
  /\ change' = [change EXCEPT !.step = "reg"]
  /\ UNCHANGED <<queue, setup>>

Publish ==
  /\ change.step = "reg"
  /\ queue' = queue \o Events(change.old, change.new)
  /\ change' = NoChange
  /\ UNCHANGED <<vars, setup>>

\* any other module: an event about something else
PublishOther(e) ==
  /\ change = NoChange
  /\ Len(queue) < MaxEvents
  /\ queue' = Append(queue, e)
  /\ UNCHANGED <<vars, change, setup>>

ChangeMac(ifx, mac) == UpdateIntfMac(ifx, mac) /\ UNCHANGED portVars

-----------------------------------------------------------------------------
(* The listener *)

Handle ==
  LET e == Head(queue)
      s == MappingChange(e)
  IN /\ queue # <<>>
     /\ Atomic => change.step # "dereg"
     /\ setup' = CASE s = "MAPPED"     -> setup \cup {<<e.if_index, e.port>>}
                   [] s = "UNMAPPED"   -> setup \ {<<e.if_index, e.port>>}
                   [] e.op = "DELETE"  -> {x \in setup : x[1] # e.if_index}
                   [] OTHER            -> setup
     /\ queue' = Tail(queue)
     /\ UNCHANGED <<vars, change>>

PortNext ==
  \/ \E d \in Details : BeginCreate(d)
  \/ \E r \in Registered : BeginDelete(r.det) \/ \E e \in Details : BeginChange(r.det, e)
  \/ Reregister \/ Publish
  \/ \E e \in OtherEvents : PublishOther(e)
  \/ \E d \in Details, m \in Macs : ChangeMac(d.if_index, m)
  \/ Handle

PortSpec == PortInit /\ [][PortNext]_allVars

-----------------------------------------------------------------------------
(* Properties *)

\* an event that will still tell the listener about the port of an interface
Pending(ifx, port) ==
  \/ \E i \in 1..Len(queue) : /\ queue[i].if_index = ifx
                              /\ queue[i].port = port \/ queue[i].op = "DELETE"
  \/ /\ change # NoChange
     /\ LET es == Events(change.old, change.new) IN
        \E i \in 1..Len(es) : /\ es[i].if_index = ifx
                              /\ es[i].port = port \/ es[i].op = "DELETE"

\* A port is set up by the listener exactly when the interface is mapped to
\* it, unless an event about it is still to come: however quickly interfaces
\* move, every port left is cleaned up and every port joined is set up
\* ("let caller do cleanup on origin port, and there should be following
\* event to indicate interface associated again").
ListenerAgrees ==
  \A d \in Details : d.port_mapped /\ ~Pending(d.if_index, d.port) =>
    (<<d.if_index, d.port>> \in setup
       <=> \E r \in Registered : r.det.if_index = d.if_index /\ r.det.port_mapped
                                   /\ r.det.port = d.port)

\* The helpers answer alike whichever key they are asked by: index and name,
\* index and LAG id, the two MAC addresses, and a port is virtual exactly
\* when no search by port leads to it.
HelpersAgree ==
  \A r \in Registered : r.det.vrf_id = 0 =>
    LET d == r.det IN
    /\ d.if_name # "" => /\ GetIfIndexToName(GetNameToIfIndex(d.if_name), 0) = d.if_name
                         /\ GetIntfMacAddrStr(d.if_name) = GetInterfaceMac(d.if_index)
                         /\ GetIfType(d.if_name) = d.int_type
    /\ d.int_type = "LAG" => GetLagIfIndex(GetLagIdFromIfIndex(d.if_index)) = d.if_index
    /\ IsVirtualPort(d.if_index) <=>
         /\ d.int_type = "PORT"
         /\ \A k \in Keys("PORT") : Found(Entry("PORT", k)) # d

=============================================================================
