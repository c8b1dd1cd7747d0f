--------------------------- MODULE MCPortMapping ---------------------------
(* Small instances of PortMapping. *)
EXTENDS PortMapping, TLC

Intf(t, ifx, name, mapped, port, obj) ==
  [int_type |-> t, vrf_id |-> 0, if_index |-> ifx, if_name |-> name,
   port_mapped |-> mapped, port |-> port, tap_id |-> port, obj_id |-> obj]

Port(ifx, name) ==
  {Intf("PORT", ifx, name, FALSE, 0, 0)}
    \cup {Intf("PORT", ifx, name, TRUE, p, 0) : p \in {1, 2}}

\* two interfaces that share two ports, and a LAG
MCDetails == Port(1, "e1") \cup Port(2, "e2") \cup {Intf("LAG", 3, "l1", FALSE, 0, 7)}

\* an event without a port, one that names no interface
MCOther == { [op |-> "SET", if_index |-> 1, port |-> NULL, name |-> "e1"],
             [op |-> "SET", if_index |-> NULL, port |-> 1, name |-> NULL] }

Perms == Permutations(Ptr)

=============================================================================
