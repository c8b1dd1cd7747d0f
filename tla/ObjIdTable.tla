----------------------------- MODULE ObjIdTable -----------------------------
(***************************************************************************)
(* nas_ndi_obj_id_table.cpp: a table from NPUs to NDI object ids is put    *)
(* into a CPS object as a list, two attributes per entry, in the order of  *)
(* an unordered_map, and read back by the receiver.  Adding an attribute   *)
(* may fail when the object is full; the sender then drops the object.     *)
(*                                                                         *)
(* External: the CPS object, here the function from list instances to the  *)
(* attributes they hold; sender and receiver.                              *)
(***************************************************************************)
EXTENDS Naturals

CONSTANTS TableNpus, NdiIds,
          NoId              \* no entry, attribute not present

VARIABLES table,            \* the sender's
          received,         \* the receiver's
          object,           \* instance -> [npu, obj]
          todo_npus,        \* entries the loop has not visited
          inst_attr_id,     \* next list index
          serial,           \* "idle", "adding", "sent", "received" or "refused"
          original          \* history: the table that was serialized

tableVars == <<table, received, object, todo_npus, inst_attr_id, serial, original>>

NoTable == [n \in TableNpus |-> NoId]

TableInit ==
  /\ table = NoTable /\ received = NoTable /\ original = NoTable
  /\ object = <<>>
  /\ todo_npus = {} /\ inst_attr_id = 1
  /\ serial = "idle"

NotAdding == serial # "adding"

SetId(n, id) ==
  /\ NotAdding
  /\ table' = [table EXCEPT ![n] = id]
  /\ UNCHANGED <<received, object, todo_npus, inst_attr_id, serial, original>>

EraseId(n) ==
  /\ NotAdding
  /\ table[n] # NoId
  /\ table' = [table EXCEPT ![n] = NoId]
  /\ UNCHANGED <<received, object, todo_npus, inst_attr_id, serial, original>>

-----------------------------------------------------------------------------
(* ndi_obj_id_table_cps_serialize into a new object *)

Serialize ==
  /\ serial \in {"idle", "received", "refused"}
  /\ serial' = "adding"
  /\ object' = <<>>
  /\ todo_npus' = {n \in TableNpus : table[n] # NoId}
  /\ inst_attr_id' = 1
  /\ original' = table
  /\ UNCHANGED <<table, received>>

NextInst == inst_attr_id + 1

\* both attributes of one entry; a failure at either returns false
SerializeEntry(n) ==
  /\ serial = "adding" /\ n \in todo_npus
  /\ \/ /\ object' = [i \in DOMAIN object \cup {inst_attr_id} |->
                        IF i = inst_attr_id THEN [npu |-> n, obj |-> table[n]]
                        ELSE object[i]]
        /\ todo_npus' = todo_npus \ {n}
        /\ inst_attr_id' = NextInst
        /\ UNCHANGED serial
     \/ /\ serial' = "idle"
        /\ object' = <<>> /\ todo_npus' = {}
        /\ UNCHANGED inst_attr_id
  /\ UNCHANGED <<table, received, original>>

SerializeDone ==
  /\ serial = "adding" /\ todo_npus = {}
  /\ serial' = "sent"
  /\ UNCHANGED <<table, received, object, todo_npus, inst_attr_id, original>>

-----------------------------------------------------------------------------
(* ndi_obj_id_table_cps_unserialize *)

\* mutant: entries go into the table as it is
UnserializedOnto(obj) ==
  [n \in TableNpus |->
     IF \E i \in DOMAIN obj : obj[i].npu = n
     THEN obj[CHOOSE i \in DOMAIN obj : obj[i].npu = n].obj ELSE received[n]]

\* the temporary table: a later instance of an NPU overwrites an earlier one
Unserialized(obj) ==
  [n \in TableNpus |->
     LET of == {i \in DOMAIN obj : obj[i].npu = n}
     IN IF of = {} THEN NoId
        ELSE obj[CHOOSE i \in of : \A j \in of : j <= i].obj]

\* without the attribute, which an empty table does not write, the
\* receiver's table stays as it is
Unserialize ==
  /\ serial = "sent"
  /\ \/ /\ DOMAIN object # {}
        /\ received' = Unserialized(object)
        /\ serial' = "received"
     \/ /\ DOMAIN object = {}
        /\ serial' = "refused"
        /\ UNCHANGED received
  /\ UNCHANGED <<table, object, todo_npus, inst_attr_id, original>>

TableNext ==
  \/ \E n \in TableNpus : EraseId(n) \/ SerializeEntry(n)
  \/ \E n \in TableNpus, id \in NdiIds : SetId(n, id)
  \/ Serialize \/ SerializeDone \/ Unserialize

TableSpec == TableInit /\ [][TableNext]_tableVars

-----------------------------------------------------------------------------
(* Properties *)

\* A table that was serialized and unserialized with success arrives as it
\* was, whatever order the map was walked in and whatever the receiver's
\* table held before ("Overwrite the contents").
RoundTrip == serial = "received" => received = original

=============================================================================
