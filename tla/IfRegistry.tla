----------------------------- MODULE IfRegistry -----------------------------
(***************************************************************************)
(* What the interface database promises (hal_if_mapping.h): a set of       *)
(* interfaces of which no two have a key in common.  A registration adds   *)
(* one interface whole, a removal takes one away whole, an update changes  *)
(* one field of one interface, and a search hands out an interface as it   *)
(* is at that moment.                                                      *)
(***************************************************************************)
EXTENDS Naturals, Sequences

CONSTANTS Details, Macs, L3Infos, Clients, NULL,
          AllQueries,        \* the queries in the order a removal tries them
          SameKey(_, _, _)   \* has the query one key for both details?

VARIABLES interfaces,  \* the registered interfaces
          handed       \* the interface each client was given last

registryVars == <<interfaces, handed>>

Interfaces == [det : Details, mac : Macs, l3 : L3Infos]

RegistryInit == interfaces = {} /\ handed = [c \in Clients |-> NULL]

\* the interfaces that the i-th query finds for a caller's details
Found(i, d) == {r \in interfaces : SameKey(AllQueries[i], d, r.det)}

\* of the interfaces that details name, the one a removal is for
FirstFound(d, r) ==
  \E i \in 1..Len(AllQueries) :
    /\ r \in Found(i, d)
    /\ \A j \in 1..(i - 1) : Found(j, d) = {}

Enter(r) ==
  /\ interfaces' = interfaces \cup {r} /\ r \in Interfaces
  /\ \A i \in 1..Len(AllQueries) : Found(i, r.det) = {}
  /\ UNCHANGED handed

Withdraw(r) ==
  /\ interfaces' = interfaces \ {r}
  /\ UNCHANGED handed

\* one field changes; the MAC address only of an interface of VRF 0
Update(r, new) ==
  /\ interfaces' = (interfaces \ {r}) \cup {new} /\ new \in Interfaces
  /\ new.det = r.det
  /\ \/ new.l3 = r.l3 /\ r.det.vrf_id = 0
     \/ new.mac = r.mac
  /\ UNCHANGED handed

Give(c, r) ==
  /\ handed' = [handed EXCEPT ![c] = r]
  /\ UNCHANGED interfaces

RegistryNext ==
  \/ \E new \in interfaces' : Enter(new)
  \/ \E r \in interfaces :
       \/ Withdraw(r)
       \/ \E new \in interfaces' : Update(r, new)
       \/ \E c \in Clients : Give(c, r)

=============================================================================
