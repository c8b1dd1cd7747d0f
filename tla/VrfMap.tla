------------------------------- MODULE VrfMap -------------------------------
(***************************************************************************)
(* The VRF table of nas_vrf_utils.cpp: an unordered_map from a key string  *)
(* on the heap to a nas_vrf_ctrl_t on the heap.  Writers hold rw_lock for  *)
(* the whole call, so a call is one action.  Readers keep the ids they     *)
(* were given and use them later.                                          *)
(*                                                                         *)
(* A key compares by the text at its address.  Addresses are few, so that  *)
(* memory may run out: malloc then returns null, new throws.               *)
(***************************************************************************)
EXTENDS Naturals

CONSTANTS VrfNames, VrfOids,
          VrfIntIds,        \* internal ids; 0 means "none"
          KeyAddrs, CtrlAddrs,
          VrfReaders,
          FREE              \* not allocated, or nothing read

VARIABLES vrf_map,          \* pairs of addresses <<key, record>>
          keyText,          \* what each key block holds
          ctrl,             \* what each nas_vrf_ctrl_t holds
          heldVrf           \* what a reader was told, and whether the VRF
                            \* has stayed in the table since (history)

vrfVars == <<vrf_map, keyText, ctrl, heldVrf>>

VrfRecords == [name : VrfNames, vrf_int_id : VrfIntIds, vrf_id : VrfOids]

ASSUME FreeAssumption == FREE \notin VrfNames /\ FREE \notin VrfRecords

VrfInit ==
  /\ vrf_map = {}
  /\ keyText = [k \in KeyAddrs |-> FREE]
  /\ ctrl = [a \in CtrlAddrs |-> FREE]
  /\ heldVrf = [c \in VrfReaders |-> FREE]

Entries(name) == {e \in vrf_map : keyText[e[1]] = name}

-----------------------------------------------------------------------------
(* nas_update_vrf_info *)

\* mutant: the entry is replaced
InsertReplaces(k, a, name) == (vrf_map \ Entries(name)) \cup {<<k, a>>}

\* insert keeps an entry that is already there
InsertEntry(k, a, name) ==
  IF Entries(name) = {} THEN vrf_map \cup {<<k, a>>} ELSE vrf_map

\* NAS_VRF_OP_ADD.  The blocks of an add that finds its name taken, and the
\* key when the record cannot be allocated, are never freed.
AddVrf(rec) ==
  /\ \/ \E k \in KeyAddrs :
          /\ keyText[k] = FREE
          /\ keyText' = [keyText EXCEPT ![k] = rec.name]
          /\ \/ \E a \in CtrlAddrs :
                  /\ ctrl[a] = FREE
                  /\ ctrl' = [ctrl EXCEPT ![a] = rec]
                  /\ vrf_map' = InsertEntry(k, a, rec.name)
             \/ /\ \A a \in CtrlAddrs : ctrl[a] # FREE
                /\ UNCHANGED <<vrf_map, ctrl>>
     \/ /\ \A k \in KeyAddrs : keyText[k] # FREE
        /\ UNCHANGED <<vrf_map, keyText, ctrl>>
  /\ UNCHANGED heldVrf

\* NAS_VRF_OP_UPD: only the internal id, only when it is not 0, and no error
\* when the VRF does not exist
UpdateVrf(rec) ==
  /\ ctrl' = [a \in CtrlAddrs |->
                IF rec.vrf_int_id # 0 /\ \E e \in Entries(rec.name) : e[2] = a
                THEN [ctrl[a] EXCEPT !.vrf_int_id = rec.vrf_int_id] ELSE ctrl[a]]
  /\ UNCHANGED <<vrf_map, keyText, heldVrf>>

\* mutant: key and record are freed, the entry is not erased
FreeVrfKeepsEntry(e) ==
  /\ keyText' = [keyText EXCEPT ![e[1]] = FREE]
  /\ ctrl' = [ctrl EXCEPT ![e[2]] = FREE]
  /\ UNCHANGED vrf_map

\* the key is freed before erase(it), which works on the node
FreeVrf(e) ==
  /\ keyText' = [keyText EXCEPT ![e[1]] = FREE]
  /\ vrf_map' = vrf_map \ {e}
  /\ ctrl' = [ctrl EXCEPT ![e[2]] = FREE]

\* NAS_VRF_OP_DEL; readers' values are outdated from here on
CleanupVrf(name) ==
  /\ \E e \in Entries(name) : FreeVrf(e)
  /\ heldVrf' = [c \in VrfReaders |->
                   IF heldVrf[c] # FREE /\ heldVrf[c].rec.name = name
                   THEN [heldVrf[c] EXCEPT !.stayed = FALSE] ELSE heldVrf[c]]

\* nas_get_vrf_ctrl_from_vrf_name; the id getters read a part of the same
GetVrfCtrl(c, name) ==
  /\ \E e \in Entries(name) :
       heldVrf' = [heldVrf EXCEPT ![c] = [rec |-> ctrl[e[2]], stayed |-> TRUE]]
  /\ UNCHANGED <<vrf_map, keyText, ctrl>>

\* nas_get_all_vrf_ctrl
AllVrfCtrl == {ctrl[e[2]] : e \in vrf_map}

VrfNext ==
  \/ \E r \in VrfRecords : AddVrf(r) \/ UpdateVrf(r)
  \/ \E n \in VrfNames : CleanupVrf(n) \/ \E c \in VrfReaders : GetVrfCtrl(c, n)

VrfSpec == VrfInit /\ [][VrfNext]_vrfVars

-----------------------------------------------------------------------------
(* Properties *)

\* Every entry leads to a key and a record that are allocated, agree on the
\* name and belong to no other entry: adds of a name that is taken, deletes
\* and failing allocations leave nothing dangling in the table.
VrfEntriesSound ==
  /\ \A e \in vrf_map : /\ keyText[e[1]] # FREE /\ ctrl[e[2]] # FREE
                        /\ ctrl[e[2]].name = keyText[e[1]]
  /\ \A e, f \in vrf_map : e # f => e[1] # f[1] /\ e[2] # f[2]
                                      /\ keyText[e[1]] # keyText[f[1]]

\* The NPU's object id a reader was given stays that of the VRF until the VRF
\* is deleted, however often others add or update it, and a walk over the
\* table shows the same id.
VrfOidStable ==
  \A c \in VrfReaders : heldVrf[c] # FREE /\ heldVrf[c].stayed =>
    \E r \in AllVrfCtrl : /\ r.name = heldVrf[c].rec.name
                          /\ r.vrf_id = heldVrf[c].rec.vrf_id

=============================================================================
