------------------------------- MODULE BaseObj -------------------------------
(***************************************************************************)
(* nas::base_obj_t and the commit engine of nas_base_ndi_utl.cpp: an       *)
(* object is created, modified or deleted on every NPU of its list, one    *)
(* push per NPU (and attribute); a push that throws base_exception makes   *)
(* the engine undo, last first, the pushes it has tracked.                 *)
(*                                                                         *)
(* One object is followed through its life.  "stored" is the object in the *)
(* table of the application module, "work" the new object or the copy that *)
(* one request edits and commits; a request that fails leaves "work" to be *)
(* edited and committed again, or dropped.  The class is not thread-safe   *)
(* and is used by one thread, so requests do not overlap; what interleaves *)
(* with the engine's steps are the outcomes of the NDI calls.              *)
(*                                                                         *)
(* The virtual push_*_to_npu functions and the NDI calls in them are       *)
(* external: each changes one NPU, or throws and changes nothing, or       *)
(* returns false without calling NDI on the NPUs the object does not apply *)
(* to.  Non-leaf attributes are pushed and rolled back by overrides and    *)
(* are left out.                                                           *)
(***************************************************************************)
EXTENDS Naturals, Sequences

CONSTANTS Npus,        \* all NPUs
          FirstNpus,   \* those of the logical switch at start
          SkipNpus,    \* those for which push_*_to_npu returns false
          NpuLists,    \* lists that derived classes install
          Attrs, Vals,
          DefaultVal,
          NONE, ABSENT

ASSUME NpuAssumption ==
  FirstNpus \subseteq Npus /\ SkipNpus \subseteq Npus /\ NpuLists \subseteq SUBSET Npus

ASSUME ValAssumption == DefaultVal \in Vals /\ ABSENT \notin [Attrs -> Vals]

VARIABLES switch_npus, \* base_switch_t::_npus
          stored, work,
          hw,          \* what each NPU holds for the object
          txn,         \* the commit in progress
          gone,        \* history: stored was deleted from NDI, not yet erased
          bad          \* history: NPUs where an undoing push failed

vars == <<switch_npus, stored, work, hw, txn, gone, bad>>

Objects == [vals : [Attrs -> Vals], npus : SUBSET Npus, dirty : SUBSET Attrs,
            set : SUBSET Attrs, created : BOOLEAN, npu_list_dirty : BOOLEAN,
            following : BOOLEAN]

NewObject == [vals |-> [a \in Attrs |-> DefaultVal], npus |-> {}, dirty |-> {},
              set |-> {}, created |-> FALSE, npu_list_dirty |-> FALSE,
              following |-> FALSE]

ASSUME NoneAssumption ==
  NONE \notin Objects /\ NONE \notin [vals : [Attrs -> Vals], npus : SUBSET Npus]

Elems == [type : {"CREATE_OBJ", "DELETE_OBJ"}, npu : Npus]
           \cup [type : {"MODIFY_ATTR"}, npu : Npus, attr : Attrs]

Txns == [op : {"none", "create", "modify", "delete"}, rolling_back : BOOLEAN,
         undo : BOOLEAN, add : SUBSET Npus, del : SUBSET Npus,
         mod : SUBSET (Attrs \X Npus), trakr : Seq(Elems)]

Idle == [op |-> "none", rolling_back |-> FALSE, undo |-> FALSE,
         add |-> {}, del |-> {}, mod |-> {}, trakr |-> <<>>]

Init ==
  /\ switch_npus = FirstNpus
  /\ stored = NONE /\ work = NONE
  /\ hw = [n \in Npus |-> ABSENT]
  /\ txn = Idle
  /\ gone = FALSE /\ bad = {}

-----------------------------------------------------------------------------
(* What a request does to its object before the commit *)

CanEdit == txn.op = "none" /\ work # NONE

\* a create request starts from a new object, a modify request from a copy
StartRequest ==
  /\ txn.op = "none" /\ work = NONE /\ ~gone
  /\ work' = IF stored = NONE THEN NewObject ELSE stored
  /\ UNCHANGED <<switch_npus, stored, hw, txn, gone, bad>>

\* a setter of the derived class: the new value and mark_attr_dirty
SetAttr(a, v) ==
  /\ CanEdit
  /\ work' = [work EXCEPT !.vals[a] = v, !.dirty = @ \cup {a}]
  /\ UNCHANGED <<switch_npus, stored, hw, txn, gone, bad>>

\* an NPU outside the logical switch is refused with an exception
AddNpu(n, reset) ==
  /\ CanEdit /\ n \in switch_npus
  /\ work' = [work EXCEPT
                !.npus = (IF ~work.npu_list_dirty /\ reset THEN {} ELSE @) \cup {n},
                !.npu_list_dirty = TRUE,
                !.following = FALSE]
  /\ UNCHANGED <<switch_npus, stored, hw, txn, gone, bad>>

ResetNpus ==
  /\ CanEdit
  /\ work' = [work EXCEPT !.npus = {}]
  /\ UNCHANGED <<switch_npus, stored, hw, txn, gone, bad>>

\* for derived classes: neither looks at the switch nor marks the list dirty
RemoveNpu(n) ==
  /\ CanEdit
  /\ work' = [work EXCEPT !.npus = @ \ {n}]
  /\ UNCHANGED <<switch_npus, stored, hw, txn, gone, bad>>

SetNpuList(npus) ==
  /\ CanEdit
  /\ work' = [work EXCEPT !.npus = npus]
  /\ UNCHANGED <<switch_npus, stored, hw, txn, gone, bad>>

DropRequest ==
  /\ CanEdit
  /\ work' = NONE
  /\ UNCHANGED <<switch_npus, stored, hw, txn, gone, bad>>

\* base_switch_t::add_npu
SwitchAddNpu(n) ==
  /\ txn.op = "none" /\ n \notin switch_npus
  /\ switch_npus' = switch_npus \cup {n}
  /\ UNCHANGED <<stored, work, hw, txn, gone, bad>>

-----------------------------------------------------------------------------
(* commit_create, commit_modify, commit_delete up to the first push *)

\* an empty list means all NPUs of the switch
Defaulted(o) == IF o.npus # {} THEN o
                ELSE [o EXCEPT !.npus = switch_npus, !.following = TRUE]

CommitCreate(rolling_back) ==
  /\ CanEdit /\ ~work.created
  /\ work' = Defaulted([work EXCEPT !.set = work.dirty])
  /\ txn' = [Idle EXCEPT !.op = "create", !.rolling_back = rolling_back,
                         !.add = work'.npus]
  /\ UNCHANGED <<switch_npus, stored, hw, gone, bad>>

\* npu_set_t::compare splits the lists; dirty attributes go to the NPUs in both
CommitModify(rolling_back) ==
  /\ CanEdit /\ work.created
  /\ work' = Defaulted([work EXCEPT !.set = @ \cup work.dirty])
  /\ txn' = [Idle EXCEPT !.op = "modify", !.rolling_back = rolling_back,
                         !.add = work'.npus \ stored.npus,
                         !.del = stored.npus \ work'.npus,
                         !.mod = work.dirty \X (work'.npus \cap stored.npus)]
  /\ UNCHANGED <<switch_npus, stored, hw, gone, bad>>

CommitDelete(rolling_back) ==
  /\ txn.op = "none" /\ work = NONE
  /\ stored # NONE /\ stored.created
  /\ txn' = [Idle EXCEPT !.op = "delete", !.rolling_back = rolling_back,
                         !.del = stored.npus]
  /\ UNCHANGED <<switch_npus, stored, work, hw, gone, bad>>

-----------------------------------------------------------------------------
(* The pushes.  Each removes its item from what is left to do. *)

Running == txn.op # "none" /\ ~txn.undo

\* mutant: the tracker keeps the NPU but not what was done there
PushedNpuOnly(rest, elem) ==
  IF elem.npu \in SkipNpus \/ txn.rolling_back THEN rest
  ELSE [rest EXCEPT !.trakr = Append(@, elem.npu)]

\* push returned: tracked unless it was skipped or the commit is a rollback
Pushed(rest, elem) ==
  IF elem.npu \in SkipNpus \/ txn.rolling_back THEN rest
  ELSE [rest EXCEPT !.trakr = Append(@, elem)]

\* mutant: an ordinary commit too logs a push that threw and passes over it
ThrewLogged(rest, n) ==
  /\ n \notin SkipNpus
  /\ txn' = rest
  /\ bad' = bad \cup {n}
  /\ UNCHANGED <<switch_npus, stored, work, hw, gone>>

\* push threw: logged and passed over when rolling back, else undo begins
Threw(rest, n) ==
  /\ n \notin SkipNpus
  /\ txn' = IF txn.rolling_back THEN rest ELSE [txn EXCEPT !.undo = TRUE]
  /\ bad' = IF txn.rolling_back THEN bad \cup {n} ELSE bad
  /\ UNCHANGED <<switch_npus, stored, work, hw, gone>>

Apply(n, v) == IF n \in SkipNpus THEN hw ELSE [hw EXCEPT ![n] = v]

\* an NDI call can only succeed on an NPU in the state it expects
CanCreate(n) == hw[n] = ABSENT \/ n \in bad \/ n \in SkipNpus
CanChange(n) == hw[n] # ABSENT \/ n \in SkipNpus

\* _create_obj_npulist_ndi
PushCreate(n) ==
  LET rest == [txn EXCEPT !.add = @ \ {n}] IN
  /\ Running /\ n \in txn.add
  /\ \/ /\ CanCreate(n)
        /\ hw' = Apply(n, work.vals)
        /\ txn' = Pushed(rest, [type |-> "CREATE_OBJ", npu |-> n])
        /\ UNCHANGED <<switch_npus, stored, work, gone, bad>>
     \/ Threw(rest, n)

\* mutant: a delete is pushed but not tracked
PushDeleteUntracked(n) ==
  LET rest == [txn EXCEPT !.del = @ \ {n}] IN
  /\ Running /\ txn.add = {} /\ n \in txn.del
  /\ \/ /\ CanChange(n)
        /\ hw' = Apply(n, ABSENT)
        /\ txn' = rest
        /\ UNCHANGED <<switch_npus, stored, work, gone, bad>>
     \/ Threw(rest, n)

\* _delete_obj_npulist_ndi
PushDelete(n) ==
  LET rest == [txn EXCEPT !.del = @ \ {n}] IN
  /\ Running /\ txn.add = {} /\ n \in txn.del
  /\ \/ /\ CanChange(n)
        /\ hw' = Apply(n, ABSENT)
        /\ txn' = Pushed(rest, [type |-> "DELETE_OBJ", npu |-> n])
        /\ UNCHANGED <<switch_npus, stored, work, gone, bad>>
     \/ Threw(rest, n)

\* _modify_obj_npulist_ndi, leaf attributes
PushLeafAttr(a, n) ==
  LET rest == [txn EXCEPT !.mod = @ \ {<<a, n>>}] IN
  /\ Running /\ txn.add = {} /\ txn.del = {} /\ <<a, n>> \in txn.mod
  /\ \/ /\ CanChange(n)
        /\ hw' = IF n \in SkipNpus THEN hw ELSE [hw EXCEPT ![n][a] = work.vals[a]]
        /\ txn' = Pushed(rest, [type |-> "MODIFY_ATTR", npu |-> n, attr |-> a])
        /\ UNCHANGED <<switch_npus, stored, work, gone, bad>>
     \/ Threw(rest, n)

-----------------------------------------------------------------------------
(* Undoing *)

\* the value an undoing push leaves on the NPU of the element
Undone(e) ==
  CASE e.type = "CREATE_OBJ"  -> ABSENT
    [] e.type = "DELETE_OBJ"  -> stored.vals
    [] e.type = "MODIFY_ATTR" -> [hw[e.npu] EXCEPT ![e.attr] = stored.vals[e.attr]]

\* mutant: the first undoing push that fails ends the rollback
RollbackStopsAtFailure ==
  LET e == txn.trakr[Len(txn.trakr)] IN
  /\ txn.undo /\ txn.trakr # <<>>
  /\ \/ /\ hw' = [hw EXCEPT ![e.npu] = Undone(e)]
        /\ txn' = [txn EXCEPT !.trakr = SubSeq(@, 1, Len(@) - 1)]
        /\ UNCHANGED bad
     \/ /\ bad' = bad \cup {e.npu}
        /\ txn' = [txn EXCEPT !.trakr = <<>>]
        /\ UNCHANGED hw
  /\ UNCHANGED <<switch_npus, stored, work, gone>>

\* mutant: the element is not popped
RollbackNeverPops ==
  LET e == txn.trakr[Len(txn.trakr)] IN
  /\ txn.undo /\ txn.trakr # <<>>
  /\ hw' = [hw EXCEPT ![e.npu] = Undone(e)]
  /\ UNCHANGED <<switch_npus, stored, work, txn, gone, bad>>

\* one round of the _rollback_*_obj_ndi loops: the last element is undone and
\* popped; an exception is logged and dropped
RollbackLast ==
  LET e == txn.trakr[Len(txn.trakr)] IN
  /\ txn.undo /\ txn.trakr # <<>>
  /\ \/ /\ hw' = [hw EXCEPT ![e.npu] = Undone(e)]
        /\ UNCHANGED bad
     \/ /\ bad' = bad \cup {e.npu}
        /\ UNCHANGED hw
  /\ txn' = [txn EXCEPT !.trakr = SubSeq(@, 1, Len(@) - 1)]
  /\ UNCHANGED <<switch_npus, stored, work, gone>>

\* the exception reaches the caller; work keeps its dirty flags
CommitFails ==
  /\ txn.undo /\ txn.trakr = <<>>
  /\ txn' = Idle
  /\ UNCHANGED <<switch_npus, stored, work, hw, gone, bad>>

-----------------------------------------------------------------------------
(* The end of a commit, and what the caller does with the object *)

Cleared(o) == [o EXCEPT !.dirty = {}, !.npu_list_dirty = FALSE]

AllPushed(op) ==
  Running /\ txn.op = op /\ txn.add = {} /\ txn.del = {} /\ txn.mod = {}

CreateDone ==
  /\ AllPushed("create")
  /\ stored' = [Cleared(work) EXCEPT !.created = TRUE]
  /\ work' = NONE /\ txn' = Idle
  /\ UNCHANGED <<switch_npus, hw, gone, bad>>

ModifyDone ==
  /\ AllPushed("modify")
  /\ stored' = Cleared(work)
  /\ work' = NONE /\ txn' = Idle
  /\ UNCHANGED <<switch_npus, hw, gone, bad>>

\* commit_delete clears the dirty flags and leaves _ndi_created as it is
DeleteDone ==
  /\ AllPushed("delete")
  /\ stored' = Cleared(stored)
  /\ txn' = Idle /\ gone' = TRUE
  /\ UNCHANGED <<switch_npus, work, hw, bad>>

EraseObject ==
  /\ txn.op = "none" /\ gone
  /\ stored' = NONE /\ gone' = FALSE
  /\ UNCHANGED <<switch_npus, work, hw, txn, bad>>

-----------------------------------------------------------------------------

CommitStep ==
  \/ \E n \in Npus : PushCreate(n) \/ PushDelete(n)
  \/ \E a \in Attrs, n \in Npus : PushLeafAttr(a, n)
  \/ RollbackLast \/ CommitFails
  \/ CreateDone \/ ModifyDone \/ DeleteDone

Request ==
  \/ StartRequest \/ ResetNpus \/ DropRequest \/ EraseObject
  \/ \E a \in Attrs, v \in Vals : SetAttr(a, v)
  \/ \E n \in Npus, reset \in BOOLEAN : AddNpu(n, reset)
  \/ \E n \in Npus : SwitchAddNpu(n) \/ RemoveNpu(n)
  \/ \E npus \in NpuLists : SetNpuList(npus)
  \/ \E rb \in BOOLEAN : CommitCreate(rb) \/ CommitModify(rb) \/ CommitDelete(rb)

Next == CommitStep \/ Request

\* a commit is one function call: once begun, its thread goes on
Spec == Init /\ [][Next]_vars /\ WF_vars(CommitStep)

-----------------------------------------------------------------------------
(* Properties *)

\* Every variable has its type.
TypeOK ==
  /\ switch_npus \subseteq Npus
  /\ stored \in Objects \cup {NONE} /\ work \in Objects \cup {NONE}
  /\ hw \in [Npus -> [Attrs -> Vals] \cup {ABSENT}]
  /\ txn \in Txns
  /\ gone \in BOOLEAN /\ bad \subseteq Npus

\* what an NPU should hold for the object in the table
Expected(n) == IF stored # NONE /\ ~gone /\ n \in stored.npus \ SkipNpus
               THEN stored.vals ELSE ABSENT

\* Between commits every NPU holds exactly the object in the table: a commit
\* took effect on all of its NPUs or, when a push threw, on none; only NPUs
\* where the undoing push itself failed may differ.
CommitAtomic ==
  txn.op = "none" => \A n \in Npus \ bad : hw[n] = Expected(n)

\* While a commit runs, an NPU that differs from the object in the table is
\* one whose change is on the rollback tracker.
ChangesTracked ==
  txn.op # "none" /\ ~txn.rolling_back =>
    \A n \in Npus \ bad : hw[n] # Expected(n) =>
      \E i \in 1..Len(txn.trakr) : txn.trakr[i].npu = n

\* the part of an object that NPUs hold
Pushable(o) == [vals |-> o.vals, npus |-> o.npus]

object == IF stored = NONE \/ gone THEN NONE ELSE Pushable(stored)

holds == [n \in Npus \ bad |-> IF txn.op = "none" THEN hw[n] ELSE Expected(n)]

commit == [op           |-> txn.op,
           target       |-> IF txn.op \in {"create", "modify"} THEN Pushable(work) ELSE NONE,
           rolling_back |-> txn.rolling_back,
           failed       |-> txn.undo]

Atomic == INSTANCE AtomicObj WITH object <- object, holds <- holds, commit <- commit

\* The engine implements atomic commits: its pushes, retries and rollbacks,
\* one NPU at a time, show between commits as one step on all NPUs or none.
\* A commit that returns has lost no NPU unless it was itself a rollback,
\* and one that throws changed nothing but the NPUs lost while undoing.
ImplementsAtomic ==
  Atomic!AtomicInit /\ [][Atomic!AtomicNext]_(Atomic!atomicVars)

\* Every commit returns to its caller.
CommitTerminates == txn.op # "none" ~> txn.op = "none"

=============================================================================
