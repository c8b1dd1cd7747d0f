------------------------------ MODULE BridgeVid ------------------------------
(***************************************************************************)
(* The untagged VLANs of 1D bridges (nas_com_bridge_utils.cpp): a map from *)
(* attached bridges to their VLAN, and one reserved VLAN that answers for  *)
(* every other bridge.  Each call but the read of the reserved VLAN holds  *)
(* the mutex; that read is of one aligned 16-bit word.  Callers program    *)
(* the hardware with the VLAN they were given and look it up again later.  *)
(***************************************************************************)
EXTENDS Naturals

CONSTANTS Bridges, Vids, BridgeUsers,
          NoVid                 \* no entry, or nothing read

ASSUME VidAssumption == Vids \subseteq 1..4094 /\ NoVid \notin 0..4094

VARIABLES bridge_to_vlan_id,    \* bridge -> VLAN
          reserved_vid,
          heldVid               \* the answer a user has, and whether the bridge
                                \* has been attached ever since (history)

vidVars == <<bridge_to_vlan_id, reserved_vid, heldVid>>

VidInit ==
  /\ bridge_to_vlan_id = [b \in Bridges |-> NoVid]
  /\ reserved_vid = 0
  /\ heldVid = [u \in BridgeUsers |-> NoVid]

\* nas_com_get_1d_br_untag_vid: a reserved VLAN of 0 is an error
GetUntagVid(u, b) ==
  LET vid == IF bridge_to_vlan_id[b] # NoVid THEN bridge_to_vlan_id[b] ELSE reserved_vid
  IN /\ vid # 0
     /\ heldVid' = [heldVid EXCEPT ![u] = [bridge |-> b, vid |-> vid,
                                    attached |-> bridge_to_vlan_id[b] # NoVid]]
     /\ UNCHANGED <<bridge_to_vlan_id, reserved_vid>>

\* mutant: a second add overwrites
AddOverwrites(b, vid) ==
  /\ bridge_to_vlan_id' = [bridge_to_vlan_id EXCEPT ![b] = vid]
  /\ UNCHANGED <<reserved_vid, heldVid>>

\* nas_com_add_1d_br_untag_vid: an error when the bridge is present
AddUntagVid(b, vid) ==
  /\ bridge_to_vlan_id[b] = NoVid
  /\ bridge_to_vlan_id' = [bridge_to_vlan_id EXCEPT ![b] = vid]
  /\ UNCHANGED <<reserved_vid, heldVid>>

DelUntagVid(b) ==
  /\ bridge_to_vlan_id[b] # NoVid
  /\ bridge_to_vlan_id' = [bridge_to_vlan_id EXCEPT ![b] = NoVid]
  /\ heldVid' = [u \in BridgeUsers |->
                   IF heldVid[u] # NoVid /\ heldVid[u].bridge = b
                   THEN [heldVid[u] EXCEPT !.attached = FALSE] ELSE heldVid[u]]
  /\ UNCHANGED reserved_vid

SetReservedVid(vid) ==
  /\ reserved_vid' = vid
  /\ UNCHANGED <<bridge_to_vlan_id, heldVid>>

VidNext ==
  \/ \E u \in BridgeUsers, b \in Bridges : GetUntagVid(u, b)
  \/ \E b \in Bridges, v \in Vids : AddUntagVid(b, v)
  \/ \E b \in Bridges : DelUntagVid(b)
  \/ \E v \in Vids \cup {0} : SetReservedVid(v)

VidSpec == VidInit /\ [][VidNext]_vidVars

-----------------------------------------------------------------------------
(* Properties *)

\* The VLAN that was read of an attached bridge is the one read again until
\* the bridge is detached, whatever others add and whichever VLAN becomes
\* reserved meanwhile: a user cleans up the VLAN it programmed.
AttachedVidStable ==
  \A u \in BridgeUsers : heldVid[u] # NoVid /\ heldVid[u].attached =>
    bridge_to_vlan_id[heldVid[u].bridge] = heldVid[u].vid

=============================================================================
