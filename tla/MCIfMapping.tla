---------------------------- MODULE MCIfMapping ----------------------------
(* Small instances of IfMapping. *)
EXTENDS IfMapping, TLC

Intf(t, vrf, ifx, name, mapped, port, tap, obj) ==
  [int_type |-> t, vrf_id |-> vrf, if_index |-> ifx, if_name |-> name,
   port_mapped |-> mapped, port |-> port, tap_id |-> tap, obj_id |-> obj]

\* a mapped and an unmapped port, one port that collides by NPU port only and
\* has no name, a VLAN that collides by name, a LAG of VRF 1 with the
\* if_index of the first port, and a bridge
MCDetails ==
  { Intf("PORT", 0, 1, "e1", TRUE,  1, 1, 0),
    Intf("PORT", 0, 2, "e2", FALSE, 2, 2, 0),
    Intf("PORT", 0, 3, "",   TRUE,  1, 3, 0),
    Intf("VLAN", 0, 4, "e1", FALSE, 0, 0, 7),
    Intf("LAG",  1, 1, "l1", FALSE, 0, 0, 7),
    Intf("DOT1D_BRIDGE", 0, 5, "br", FALSE, 0, 0, 7) }

\* two network namespaces, each with an interface of the same name
MCSameName ==
  { Intf("PORT", 0, 1, "e1", TRUE,  1, 1, 0),
    Intf("PORT", 1, 1, "e1", FALSE, 0, 0, 0),
    Intf("PORT", 0, 2, "e2", TRUE,  2, 2, 0) }

Perms == Permutations(Ptr) \cup Permutations(Blocks)

\* bound: no record and no copy has both the second MAC address and the second
\* router information; no condition of the code reads either of them
OneUpdate(r) == r = NULL \/ r.mac = "m1" \/ r.l3 = "none"

InScope ==
  /\ \A p \in Ptr : OneUpdate(heap[p])
  /\ \A c \in Clients : OneUpdate(copy[c])

MCSpec == Init /\ [][Next /\ InScope']_vars

ASSUME VrfAgreement == Details = MCDetails => VrfAgree

=============================================================================
