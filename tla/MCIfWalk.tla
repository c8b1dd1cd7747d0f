------------------------------ MODULE MCIfWalk ------------------------------
(* Small instances of IfWalk. *)
EXTENDS IfWalk

Plain(vrf, ifx) ==
  [int_type |-> "LPBK", vrf_id |-> vrf, if_index |-> ifx, if_name |-> "",
   port_mapped |-> FALSE, port |-> 0, tap_id |-> 0, obj_id |-> 0]

\* three interfaces of VRF 0 and one of VRF 1 that shares an index with them
MCDetails == {Plain(0, 1), Plain(0, 2), Plain(0, 3), Plain(1, 2)}

=============================================================================
