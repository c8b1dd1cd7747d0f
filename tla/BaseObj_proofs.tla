--------------------------- MODULE BaseObj_proofs ---------------------------
(***************************************************************************)
(* Proofs about BaseObj, for any set of NPUs, attributes and values.       *)
(***************************************************************************)
EXTENDS BaseObj, SequenceTheorems, TLAPS

-----------------------------------------------------------------------------
(* The rollback tracker as a set *)

On(s) == {s[i] : i \in 1..Len(s)}

\* push_back adds one element to the tracker.
LEMMA OnAppend ==
  ASSUME NEW S, NEW s \in Seq(S), NEW e \in S
  PROVE  Append(s, e) \in Seq(S) /\ On(Append(s, e)) = On(s) \cup {e}
<1> DEFINE t == Append(s, e)
<1>1. t \in Seq(S) /\ Len(t) = Len(s) + 1 /\ Len(s) \in Nat
  OBVIOUS
<1>2. t[Len(s) + 1] = e /\ \A i \in 1..Len(s) : t[i] = s[i]
  OBVIOUS
<1>3. 1..Len(t) = (1..Len(s)) \cup {Len(s) + 1}
  BY <1>1
<1> HIDE DEF t
<1> QED BY <1>1, <1>2, <1>3 DEF On, t

\* pop_back takes the last element off it; an equal one may remain.
LEMMA OnFront ==
  ASSUME NEW S, NEW s \in Seq(S), s # <<>>
  PROVE  LET last == s[Len(s)]
             rest == SubSeq(s, 1, Len(s) - 1)
         IN /\ last \in S /\ last \in On(s)
            /\ rest \in Seq(S)
            /\ On(rest) \subseteq On(s)
            /\ On(s) \subseteq On(rest) \cup {last}
<1> DEFINE rest == SubSeq(s, 1, Len(s) - 1)
<1>1. Len(s) \in Nat /\ Len(s) > 0 /\ \A i \in 1..Len(s) : s[i] \in S
  OBVIOUS
<1>2. /\ rest \in Seq(S) /\ Len(rest) = Len(s) - 1
      /\ \A i \in 1..(Len(s) - 1) : rest[i] = s[i]
  <2>1. /\ rest \in Seq(S)
        /\ Len(rest) = IF 1 <= Len(s) - 1 THEN (Len(s) - 1) - 1 + 1 ELSE 0
        /\ \A i \in 1..((Len(s) - 1) - 1 + 1) : rest[i] = s[1 + i - 1]
    <3>1. \A i \in 1..(Len(s) - 1) : s[i] \in S
      BY <1>1
    <3>2. 1 \in Int /\ Len(s) - 1 \in Int
      BY <1>1
    <3> HIDE DEF rest
    <3> QED BY <3>1, <3>2, SubSeqProperties DEF rest
  <2> HIDE DEF rest
  <2>2. Len(rest) = Len(s) - 1
    <3> DEFINE m == Len(s)
    <3>1. m \in Nat /\ m > 0
      BY <1>1
    <3>2. Len(rest) = IF 1 <= m - 1 THEN (m - 1) - 1 + 1 ELSE 0
      BY <2>1
    <3> HIDE DEF m
    <3>3. Len(rest) = m - 1
      BY <3>1, <3>2
    <3> QED BY <3>3 DEF m
  <2>3. ASSUME NEW i \in 1..(Len(s) - 1) PROVE rest[i] = s[i]
    <3>1. 1 + i - 1 = i /\ i \in 1..((Len(s) - 1) - 1 + 1)
      BY <1>1
    <3> QED BY <2>1, <3>1
  <2> QED BY <2>1, <2>2, <2>3
<1>3. 1..Len(s) = (1..Len(rest)) \cup {Len(s)}
  BY <1>1, <1>2
<1> HIDE DEF rest
<1> QED BY <1>1, <1>2, <1>3 DEF On, rest

-----------------------------------------------------------------------------
(* The inductive invariant *)

Old == IF stored = NONE THEN {} ELSE stored.npus
New == IF work = NONE THEN {} ELSE work.npus

\* Which objects there are in each phase, what the commit has left to do, and
\* that a copy differs from the object in the table at dirty attributes only.
Phases ==
  /\ stored # NONE => stored.created
  /\ work # NONE => /\ ~gone
                    /\ work.created <=> stored # NONE
                    /\ stored # NONE =>
                         \A a \in Attrs \ work.dirty : work.vals[a] = stored.vals[a]
  /\ txn.op = "create" => work # NONE /\ stored = NONE
  /\ txn.op = "modify" => work # NONE /\ stored # NONE
  /\ txn.op = "delete" => work = NONE /\ stored # NONE
  /\ txn.op # "none" => /\ txn.add \subseteq New \ Old
                        /\ txn.del \subseteq Old \ New
                        /\ txn.mod \subseteq Attrs \X (Old \cap New)
  /\ txn.undo => txn.op # "none" /\ ~txn.rolling_back

\* NPUs the object does not apply to are never touched.
Skipped == \A n \in SkipNpus : hw[n] = ABSENT

\* A commit on its way: NPUs still to do hold the old object, the others the
\* new one.
Forward ==
  txn.op # "none" /\ ~txn.undo =>
    \A n \in Npus \ (bad \cup SkipNpus) :
      /\ n \notin Old \cup New => hw[n] = ABSENT
      /\ n \in New \ Old => hw[n] = IF n \in txn.add THEN ABSENT ELSE work.vals
      /\ n \in Old \ New =>
           hw[n] = IF n \in txn.del /\ ~gone THEN stored.vals ELSE ABSENT
      /\ n \in Old \cap New =>
           /\ hw[n] \in [Attrs -> Vals]
           /\ \A a \in Attrs : hw[n][a] = IF <<a, n>> \in txn.mod
                                          THEN stored.vals[a] ELSE work.vals[a]

\* The tracker: each element fits its NPU ...
ElemFits(e) ==
  /\ e.npu \notin SkipNpus
  /\ e.type = "CREATE_OBJ" => e.npu \in New \ Old
  /\ e.type = "DELETE_OBJ" => e.npu \in Old \ New /\ (gone => e.npu \in bad)
  /\ e.type = "MODIFY_ATTR" => e.npu \in Old \cap New /\ hw[e.npu] # ABSENT

Fits == txn.op # "none" => \A e \in On(txn.trakr) : ElemFits(e)

\* ... and what differs from the old object has an element that undoes it.
Undoable ==
  txn.op # "none" /\ ~txn.rolling_back =>
    \A n \in Npus \ (bad \cup SkipNpus) :
      /\ n \notin Old \/ gone =>
           hw[n] = ABSENT \/ [type |-> "CREATE_OBJ", npu |-> n] \in On(txn.trakr)
      /\ n \in Old \ New /\ ~gone =>
           hw[n] = stored.vals \/ [type |-> "DELETE_OBJ", npu |-> n] \in On(txn.trakr)
      /\ n \in Old \cap New =>
           /\ hw[n] \in [Attrs -> Vals]
           /\ \A a \in Attrs :
                \/ hw[n][a] = stored.vals[a]
                \/ [type |-> "MODIFY_ATTR", npu |-> n, attr |-> a] \in On(txn.trakr)

IInv == TypeOK /\ Phases /\ Skipped /\ CommitAtomic /\ Forward /\ Fits /\ Undoable

\* Nothing is stored and every NPU is empty at start.
LEMMA InitIInv == Init => IInv
<1> SUFFICES ASSUME Init PROVE IInv
  OBVIOUS
<1>1. TypeOK
  <2>1. Idle \in Txns
    <3>1. <<>> \in Seq(Elems)
      OBVIOUS
    <3> QED BY <3>1 DEF Idle, Txns
  <2>2. hw \in [Npus -> [Attrs -> Vals] \cup {ABSENT}]
    BY DEF Init
  <2> QED BY NpuAssumption, <2>1, <2>2 DEF Init, TypeOK
<1>2. Phases /\ Forward /\ Fits /\ Undoable
  BY DEF Init, Phases, Forward, Fits, Undoable, Idle
<1>3. Skipped /\ CommitAtomic
  BY NpuAssumption DEF Init, Skipped, CommitAtomic, Expected
<1> QED BY <1>1, <1>2, <1>3 DEF IInv

-----------------------------------------------------------------------------
(* Outside of a commit *)

\* What a request does to its copy leaves the object in the table and the
\* NPUs alone.
LEMMA EditStep ==
  ASSUME IInv, txn.op = "none",
         UNCHANGED <<stored, hw, txn, gone, bad>>,
         switch_npus' \subseteq Npus,
         \/ work' = NONE
         \/ /\ work' \in Objects
            /\ ~gone
            /\ work'.created <=> stored # NONE
            /\ stored # NONE =>
                 \A a \in Attrs \ work'.dirty : work'.vals[a] = stored.vals[a]
  PROVE  IInv'
<1>1. TypeOK'
  BY DEF IInv, TypeOK
<1>2. Phases'
  BY DEF IInv, Phases
<1>3. Skipped' /\ CommitAtomic'
  BY DEF IInv, Skipped, CommitAtomic, Expected
<1>4. Forward' /\ Fits' /\ Undoable'
  BY DEF Forward, Fits, Undoable
<1> QED BY <1>1, <1>2, <1>3, <1>4 DEF IInv

\* The setters of base_obj_t and of base_switch_t, and the end of a request.
LEMMA EditsInv ==
  ASSUME IInv,
         \/ StartRequest \/ ResetNpus \/ DropRequest
         \/ \E a \in Attrs, v \in Vals : SetAttr(a, v)
         \/ \E n \in Npus, reset \in BOOLEAN : AddNpu(n, reset)
         \/ \E n \in Npus : SwitchAddNpu(n) \/ RemoveNpu(n)
         \/ \E npus \in NpuLists : SetNpuList(npus)
  PROVE  IInv'
<1>0. /\ switch_npus \subseteq Npus
      /\ stored = NONE \/ stored \in Objects
      /\ work = NONE \/ work \in Objects
  BY DEF IInv, TypeOK
<1>1. CASE StartRequest
  <2>1. NewObject \in Objects /\ ~NewObject.created
    BY ValAssumption DEF NewObject, Objects
  <2> QED BY <1>0, <1>1, <2>1, EditStep DEF StartRequest, IInv, Phases
<1>2. CASE ResetNpus
  <2>1. work' \in Objects /\ work'.created = work.created
        /\ work'.dirty = work.dirty /\ work'.vals = work.vals
    BY <1>0, <1>2 DEF ResetNpus, CanEdit, Objects
  <2> QED BY <1>0, <1>2, <2>1, EditStep DEF ResetNpus, CanEdit, IInv, Phases
<1>3. CASE DropRequest
  BY <1>0, <1>3, EditStep DEF DropRequest, CanEdit
<1>4. ASSUME NEW a \in Attrs, NEW v \in Vals, SetAttr(a, v)
      PROVE  IInv'
  <2>1. work' \in Objects /\ work'.created = work.created
        /\ work'.dirty = work.dirty \cup {a}
        /\ work'.vals = [work.vals EXCEPT ![a] = v]
    BY <1>0, <1>4 DEF SetAttr, CanEdit, Objects
  <2>2. \A b \in Attrs \ work'.dirty : work'.vals[b] = work.vals[b]
    BY <1>0, <1>4, <2>1 DEF SetAttr, CanEdit, Objects
  <2> QED BY <1>0, <1>4, <2>1, <2>2, EditStep DEF SetAttr, CanEdit, IInv, Phases
<1>5. ASSUME NEW n \in Npus, NEW reset \in BOOLEAN, AddNpu(n, reset)
      PROVE  IInv'
  <2>1. work' \in Objects /\ work'.created = work.created
        /\ work'.dirty = work.dirty /\ work'.vals = work.vals
    BY <1>0, <1>5 DEF AddNpu, CanEdit, Objects
  <2> QED BY <1>0, <1>5, <2>1, EditStep DEF AddNpu, CanEdit, IInv, Phases
<1>6. ASSUME NEW n \in Npus, SwitchAddNpu(n)
      PROVE  IInv'
  BY <1>0, <1>6, EditStep DEF SwitchAddNpu, IInv, Phases
<1>7. ASSUME NEW n \in Npus, RemoveNpu(n)
      PROVE  IInv'
  <2>1. work' \in Objects /\ work'.created = work.created
        /\ work'.dirty = work.dirty /\ work'.vals = work.vals
    BY <1>0, <1>7 DEF RemoveNpu, CanEdit, Objects
  <2> QED BY <1>0, <1>7, <2>1, EditStep DEF RemoveNpu, CanEdit, IInv, Phases
<1>8. ASSUME NEW npus \in NpuLists, SetNpuList(npus)
      PROVE  IInv'
  <2>1. work' \in Objects /\ work'.created = work.created
        /\ work'.dirty = work.dirty /\ work'.vals = work.vals
    BY <1>0, <1>8, NpuAssumption DEF SetNpuList, CanEdit, Objects
  <2> QED BY <1>0, <1>8, <2>1, EditStep DEF SetNpuList, CanEdit, IInv, Phases
<1> QED BY <1>1, <1>2, <1>3, <1>4, <1>5, <1>6, <1>7, <1>8

-----------------------------------------------------------------------------
(* The beginning and the end of a commit *)

\* The fields of a transaction and of an object have their types.
LEMMA Fields ==
  ASSUME TypeOK
  PROVE  /\ txn.op \in {"none", "create", "modify", "delete"}
         /\ txn.rolling_back \in BOOLEAN /\ txn.undo \in BOOLEAN
         /\ txn.add \subseteq Npus /\ txn.del \subseteq Npus
         /\ txn.mod \subseteq Attrs \X Npus /\ txn.trakr \in Seq(Elems)
         /\ stored # NONE => stored \in Objects /\ stored.vals \in [Attrs -> Vals]
         /\ work # NONE => work \in Objects /\ work.vals \in [Attrs -> Vals]
         /\ Old \subseteq Npus /\ New \subseteq Npus
<1>1. txn \in Txns /\ stored \in Objects \cup {NONE} /\ work \in Objects \cup {NONE}
  BY DEF TypeOK
<1>2. \A o \in Objects : o.vals \in [Attrs -> Vals] /\ o.npus \subseteq Npus
  BY DEF Objects
<1> QED BY <1>1, <1>2 DEF Txns, Old, New

\* Everything is left to do and nothing is tracked.
LEMMA CommitStart ==
  ASSUME IInv, txn.op = "none",
         UNCHANGED <<switch_npus, stored, hw, gone, bad>>,
         txn' \in Txns, ~txn'.undo, txn'.trakr = <<>>,
         txn'.add = New' \ Old, txn'.del = Old \ New',
         \/ /\ work' = NONE /\ stored # NONE /\ txn'.op = "delete" /\ txn'.mod = {}
         \/ /\ work' \in Objects /\ ~gone
            /\ work'.created <=> stored # NONE
            /\ stored # NONE =>
                 \A a \in Attrs \ work'.dirty : work'.vals[a] = stored.vals[a]
            /\ \/ stored = NONE /\ txn'.op = "create" /\ txn'.mod = {}
               \/ /\ stored # NONE /\ txn'.op = "modify"
                  /\ txn'.mod = work'.dirty \X (New' \cap Old)
  PROVE  IInv'
<1>0. Old' = Old /\ TypeOK /\ Phases
  BY DEF Old, IInv
<1>1. TypeOK'
  BY DEF IInv, TypeOK
<1>2. Phases'
  <2>1. work' \in Objects => work'.dirty \subseteq Attrs
    BY DEF Objects
  <2>2. txn'.mod \subseteq Attrs \X (Old' \cap New')
    BY <1>0, <2>1
  <2> QED BY <1>0, <2>2, NoneAssumption DEF Phases
<1>3. Skipped' /\ CommitAtomic'
  BY DEF IInv, Skipped, CommitAtomic
<1>4. \A n \in Npus \ (bad \cup SkipNpus) :
        hw[n] = IF n \in Old /\ ~gone THEN stored.vals ELSE ABSENT
  BY DEF IInv, CommitAtomic, Expected, Old
<1>5. stored # NONE => stored.vals \in [Attrs -> Vals]
  BY <1>0, Fields
<1>6. work' = NONE => New' = {}
  BY DEF New
<1>7. stored = NONE => Old = {}
  BY DEF Old
<1>8. Forward'
  <2> SUFFICES ASSUME NEW n \in Npus \ (bad \cup SkipNpus)
               PROVE  (/\ n \notin Old \cup New => hw[n] = ABSENT
                       /\ n \in New \ Old => hw[n] = IF n \in txn.add THEN ABSENT ELSE work.vals
                       /\ n \in Old \ New =>
                            hw[n] = IF n \in txn.del /\ ~gone THEN stored.vals ELSE ABSENT
                       /\ n \in Old \cap New =>
                            /\ hw[n] \in [Attrs -> Vals]
                            /\ \A a \in Attrs : hw[n][a] = IF <<a, n>> \in txn.mod
                                                           THEN stored.vals[a] ELSE work.vals[a])'
    BY DEF Forward
  <2>1. n \in Old \cap New' => hw[n] = stored.vals /\ stored # NONE /\ work' # NONE
    BY <1>4, <1>6, <1>7
  <2> QED BY <1>0, <1>4, <1>5, <2>1
<1>9. On(txn'.trakr) = {}
  BY DEF On
<1>10. Fits'
  BY <1>9 DEF Fits
<1>11. Undoable'
  <2>1. \A n \in Old \cap New' : stored # NONE /\ work' # NONE /\ ~gone
    BY <1>6, <1>7
  <2> QED BY <1>0, <1>4, <1>5, <2>1 DEF Undoable
<1> QED BY <1>1, <1>2, <1>3, <1>8, <1>10, <1>11 DEF IInv

\* commit_create, commit_modify and commit_delete up to the first push.
LEMMA CommitsInv ==
  ASSUME IInv, NEW rb \in BOOLEAN,
         CommitCreate(rb) \/ CommitModify(rb) \/ CommitDelete(rb)
  PROVE  IInv'
<1>0. /\ TypeOK /\ Phases /\ switch_npus \subseteq Npus
      /\ stored = NONE \/ stored \in Objects
      /\ work = NONE \/ work \in Objects
      /\ Old \subseteq Npus /\ <<>> \in Seq(Elems)
  BY Fields DEF IInv, TypeOK
<1>1. ASSUME NEW o \in Objects
      PROVE  /\ Defaulted(o) \in Objects
             /\ Defaulted(o).created = o.created
             /\ Defaulted(o).dirty = o.dirty /\ Defaulted(o).vals = o.vals
             /\ Defaulted(o).npus \subseteq Npus
  BY <1>0 DEF Defaulted, Objects
<1>2. CASE CommitCreate(rb)
  <2>1. work \in Objects /\ ~work.created /\ txn.op = "none"
    BY <1>0, <1>2 DEF CommitCreate, CanEdit
  <2>2. stored = NONE /\ ~gone /\ Old = {}
    BY <1>0, <2>1, NoneAssumption DEF Phases, Old
  <2> DEFINE o == [work EXCEPT !.set = work.dirty]
  <2>3. o \in Objects /\ o.created = work.created
    BY <2>1 DEF Objects
  <2>4. work' = Defaulted(o)
    BY <1>2 DEF CommitCreate
  <2> HIDE DEF o
  <2>5. /\ work' \in Objects /\ ~work'.created
        /\ New' = work'.npus /\ work'.npus \subseteq Npus
    BY <1>1, <2>1, <2>3, <2>4, NoneAssumption DEF New
  <2>6. /\ txn' \in Txns /\ ~txn'.undo /\ txn'.trakr = <<>> /\ txn'.op = "create"
        /\ txn'.add = work'.npus /\ txn'.del = {} /\ txn'.mod = {}
    BY <1>0, <1>2, <2>5 DEF CommitCreate, Idle, Txns
  <2> QED BY <1>2, <2>1, <2>2, <2>5, <2>6, CommitStart DEF CommitCreate
<1>3. CASE CommitModify(rb)
  <2>1. work \in Objects /\ work.created /\ txn.op = "none"
    BY <1>0, <1>3 DEF CommitModify, CanEdit
  <2>2. /\ stored \in Objects /\ stored # NONE /\ ~gone /\ Old = stored.npus
        /\ \A a \in Attrs \ work.dirty : work.vals[a] = stored.vals[a]
    BY <1>0, <2>1, NoneAssumption DEF Phases, Old
  <2> DEFINE o == [work EXCEPT !.set = @ \cup work.dirty]
  <2>3. /\ o \in Objects /\ o.created = work.created
        /\ o.dirty = work.dirty /\ o.vals = work.vals
    BY <2>1 DEF Objects
  <2>4. work' = Defaulted(o)
    BY <1>3 DEF CommitModify
  <2> HIDE DEF o
  <2>5. /\ work' \in Objects /\ work'.created
        /\ work'.dirty = work.dirty /\ work'.vals = work.vals
        /\ New' = work'.npus /\ work'.npus \subseteq Npus
    BY <1>1, <2>1, <2>3, <2>4, NoneAssumption DEF New
  <2>6. /\ txn' \in Txns /\ ~txn'.undo /\ txn'.trakr = <<>> /\ txn'.op = "modify"
        /\ txn'.add = work'.npus \ stored.npus /\ txn'.del = stored.npus \ work'.npus
        /\ txn'.mod = work.dirty \X (work'.npus \cap stored.npus)
    <3>1. work.dirty \subseteq Attrs
      BY <2>1 DEF Objects
    <3>2. work.dirty \X (work'.npus \cap stored.npus) \subseteq Attrs \X Npus
      BY <2>5, <3>1
    <3> DEFINE m == work.dirty \X (work'.npus \cap stored.npus)
    <3>3. txn' = [Idle EXCEPT !.op = "modify", !.rolling_back = rb,
                         !.add = work'.npus \ stored.npus,
                         !.del = stored.npus \ work'.npus, !.mod = m]
      BY <1>3 DEF CommitModify
    <3>4. m \in SUBSET (Attrs \X Npus)
      BY <3>2
    <3> HIDE DEF m
    <3>5. /\ txn' \in Txns /\ ~txn'.undo /\ txn'.trakr = <<>> /\ txn'.op = "modify"
          /\ txn'.add = work'.npus \ stored.npus /\ txn'.del = stored.npus \ work'.npus
          /\ txn'.mod = m
      BY <1>0, <2>2, <2>5, <3>3, <3>4 DEF Idle, Txns
    <3> QED BY <3>5 DEF m
  <2>7. UNCHANGED <<switch_npus, stored, hw, gone, bad>>
    BY <1>3 DEF CommitModify
  <2>8. /\ txn'.add = New' \ Old /\ txn'.del = Old \ New'
        /\ txn'.mod = work'.dirty \X (New' \cap Old)
    BY <2>2, <2>5, <2>6
  <2>9. \A a \in Attrs \ work'.dirty : work'.vals[a] = stored.vals[a]
    BY <2>2, <2>5
  <2>10. txn' \in Txns /\ ~txn'.undo /\ txn'.trakr = <<>> /\ txn'.op = "modify"
    BY <2>6
  <2>11. work' \in Objects /\ work'.created /\ ~gone /\ stored # NONE
    BY <2>2, <2>5
  <2> QED BY <2>1, <2>7, <2>8, <2>9, <2>10, <2>11, CommitStart
<1>4. CASE CommitDelete(rb)
  <2>1. /\ txn.op = "none" /\ work' = NONE /\ stored # NONE /\ New' = {}
        /\ Old = stored.npus
    BY <1>4 DEF CommitDelete, New, Old
  <2>2. /\ txn' \in Txns /\ ~txn'.undo /\ txn'.trakr = <<>> /\ txn'.op = "delete"
        /\ txn'.add = {} /\ txn'.del = stored.npus /\ txn'.mod = {}
    BY <1>0, <1>4, <2>1 DEF CommitDelete, Idle, Txns
  <2> QED BY <1>4, <2>1, <2>2, CommitStart DEF CommitDelete
<1> QED BY <1>2, <1>3, <1>4

\* With no commit running only the object in the table, the request's copy
\* and the NPUs matter.
LEMMA CommitEnd ==
  ASSUME IInv, TypeOK', txn' = Idle, Skipped', CommitAtomic',
         stored' # NONE => stored'.created,
         \/ work' = NONE
         \/ work' = work /\ stored' = stored /\ gone' = gone
  PROVE  IInv'
<1>1. txn'.op = "none" /\ ~txn'.undo
  BY DEF Idle
<1>2. Phases'
  BY <1>1 DEF IInv, Phases
<1>3. Forward' /\ Fits' /\ Undoable'
  BY <1>1 DEF Forward, Fits, Undoable
<1> QED BY <1>2, <1>3 DEF IInv

\* Two value maps that agree on every attribute are the same.
LEMMA SameVals ==
  ASSUME NEW f \in [Attrs -> Vals], NEW g \in [Attrs -> Vals],
         \A a \in Attrs : f[a] = g[a]
  PROVE  f = g
OBVIOUS

\* The transaction outside of a commit, and an object with its flags cleared.
LEMMA IdleCleared ==
  /\ Idle \in Txns
  /\ \A o \in Objects : /\ Cleared(o) \in Objects
                        /\ Cleared(o).vals = o.vals /\ Cleared(o).npus = o.npus
                        /\ Cleared(o).created = o.created
<1>1. <<>> \in Seq(Elems)
  OBVIOUS
<1> QED BY <1>1 DEF Idle, Txns, Cleared, Objects

\* When the tracker is empty everything has been undone.
LEMMA CommitFailsInv ==
  ASSUME IInv, CommitFails
  PROVE  IInv'
<1>0. TypeOK /\ Phases /\ Skipped /\ Undoable
  BY DEF IInv
<1>1. TypeOK' /\ txn' = Idle /\ Skipped'
  BY <1>0, IdleCleared DEF CommitFails, TypeOK, Skipped
<1>2. txn.op # "none" /\ ~txn.rolling_back
  BY <1>0 DEF CommitFails, Phases
<1>3. On(txn.trakr) = {}
  BY DEF On, CommitFails
<1>4. ASSUME NEW n \in Npus \ bad PROVE hw[n] = Expected(n)
  <2>1. CASE n \in SkipNpus
    BY <1>0, <2>1 DEF Skipped, Expected
  <2>2. CASE n \notin SkipNpus /\ (n \notin Old \/ gone)
    BY <1>0, <1>2, <1>3, <2>2 DEF Undoable, Expected, Old
  <2>3. CASE n \notin SkipNpus /\ n \in Old \ New /\ ~gone
    BY <1>0, <1>2, <1>3, <2>3 DEF Undoable, Expected, Old
  <2>4. CASE n \notin SkipNpus /\ n \in Old \cap New /\ ~gone
    <3>1. stored # NONE /\ stored.vals \in [Attrs -> Vals]
      BY <1>0, <2>4, Fields DEF Old
    <3>2. hw[n] \in [Attrs -> Vals] /\ \A a \in Attrs : hw[n][a] = stored.vals[a]
      BY <1>0, <1>2, <1>3, <2>4 DEF Undoable
    <3>3. hw[n] = stored.vals
      BY <3>1, <3>2, SameVals
    <3> QED BY <2>4, <3>1, <3>3 DEF Expected, Old
  <2> QED BY <2>1, <2>2, <2>3, <2>4
<1>5. CommitAtomic'
  BY <1>4 DEF CommitAtomic, CommitFails, Expected
<1> QED BY <1>0, <1>1, <1>5, CommitEnd DEF CommitFails, Phases

\* When nothing is left to push every NPU holds the new object.
LEMMA CommitDoneInv ==
  ASSUME IInv, CreateDone \/ ModifyDone \/ DeleteDone
  PROVE  IInv'
<1>0. /\ TypeOK /\ Phases /\ Skipped /\ Forward
      /\ stored = NONE \/ stored \in Objects
      /\ work = NONE \/ work \in Objects
  BY DEF IInv, TypeOK
<1>1. /\ txn.op # "none" /\ ~txn.undo
      /\ txn.add = {} /\ txn.del = {} /\ txn.mod = {}
  BY DEF CreateDone, ModifyDone, DeleteDone, AllPushed, Running
<1>2. Skipped'
  BY <1>0 DEF Skipped, CreateDone, ModifyDone, DeleteDone
<1>3. ASSUME NEW n \in Npus \ (bad \cup SkipNpus)
      PROVE  hw[n] = IF n \in New THEN work.vals ELSE ABSENT
  <2>1. CASE n \notin Old \cap New
    BY <1>0, <1>1, <2>1 DEF Forward
  <2>2. CASE n \in Old \cap New
    <3>1. work # NONE /\ work.vals \in [Attrs -> Vals]
      BY <1>0, <2>2, Fields DEF New
    <3>2. hw[n] \in [Attrs -> Vals] /\ \A a \in Attrs : hw[n][a] = work.vals[a]
      BY <1>0, <1>1, <2>2 DEF Forward
    <3> QED BY <2>2, <3>1, <3>2, SameVals
  <2> QED BY <2>1, <2>2
<1>4. CASE CreateDone \/ ModifyDone
  <2>1. /\ work \in Objects /\ ~gone /\ New = work.npus
        /\ work' = NONE /\ txn' = Idle
        /\ UNCHANGED <<switch_npus, hw, gone, bad>>
    BY <1>0, <1>4 DEF CreateDone, ModifyDone, AllPushed, Phases, New
  <2>2. /\ stored' \in Objects /\ stored'.vals = work.vals
        /\ stored'.npus = work.npus /\ stored'.created
    <3> DEFINE o == Cleared(work)
    <3>1. /\ o \in Objects /\ o.vals = work.vals /\ o.npus = work.npus
          /\ o.created = work.created
      BY <2>1, IdleCleared
    <3>2. CASE CreateDone
      <4>1. stored' = [o EXCEPT !.created = TRUE]
        BY <3>2 DEF CreateDone
      <4> HIDE DEF o
      <4> QED BY <3>1, <4>1 DEF Objects
    <3>3. CASE ModifyDone
      <4>1. stored' = o /\ work.created
        BY <1>0, <2>1, <3>3 DEF ModifyDone, AllPushed, Phases
      <4> HIDE DEF o
      <4> QED BY <3>1, <4>1
    <3> QED BY <1>4, <3>2, <3>3
  <2>3. TypeOK'
    BY <1>0, <2>1, <2>2, IdleCleared DEF TypeOK
  <2>4. CommitAtomic'
    <3>1. ASSUME NEW n \in Npus \ bad PROVE hw[n] = Expected(n)'
      <4>1. Expected(n)' = IF n \in work.npus \ SkipNpus THEN work.vals ELSE ABSENT
        BY <2>1, <2>2, NoneAssumption DEF Expected
      <4> QED BY <1>0, <1>3, <2>1, <4>1 DEF Skipped
    <3> QED BY <2>1, <3>1 DEF CommitAtomic
  <2> QED BY <1>2, <2>1, <2>2, <2>3, <2>4, CommitEnd
<1>5. CASE DeleteDone
  <2>1. /\ stored \in Objects /\ work = NONE /\ New = {} /\ stored.created
        /\ work' = NONE /\ txn' = Idle /\ gone' = TRUE
        /\ stored' = Cleared(stored)
        /\ UNCHANGED <<switch_npus, hw, bad>>
    BY <1>0, <1>5 DEF DeleteDone, AllPushed, Phases, New
  <2>2. stored' \in Objects /\ stored'.created
    BY <2>1, IdleCleared
  <2>3. TypeOK'
    BY <1>0, <2>1, <2>2, IdleCleared DEF TypeOK
  <2>4. CommitAtomic'
    <3>1. ASSUME NEW n \in Npus \ bad PROVE hw[n] = Expected(n)'
      BY <1>0, <1>3, <2>1 DEF Skipped, Expected
    <3> QED BY <2>1, <3>1 DEF CommitAtomic
  <2> QED BY <1>2, <2>1, <2>2, <2>3, <2>4, CommitEnd
<1> QED BY <1>4, <1>5

\* The deleted object leaves the table.
LEMMA EraseInv ==
  ASSUME IInv, EraseObject
  PROVE  IInv'
<1>0. TypeOK /\ Phases /\ Skipped /\ CommitAtomic
  BY DEF IInv
<1>1. work = NONE /\ txn.op = "none"
  BY <1>0 DEF EraseObject, Phases
<1>2. TypeOK'
  BY <1>0 DEF EraseObject, TypeOK
<1>3. Skipped' /\ CommitAtomic'
  BY <1>0 DEF EraseObject, Skipped, CommitAtomic, Expected
<1>4. Phases'
  BY <1>0, <1>1 DEF EraseObject, Phases
<1>5. Forward' /\ Fits' /\ Undoable'
  BY <1>1 DEF EraseObject, Forward, Fits, Undoable
<1> QED BY <1>2, <1>3, <1>4, <1>5 DEF IInv

-----------------------------------------------------------------------------
(* The pushes *)

\* A push that throws leaves the NPU behind (in bad) when the commit is a
\* rollback itself, else the commit turns to undoing what is tracked.
LEMMA ThrewInv ==
  ASSUME IInv, Running, NEW n \in Npus, NEW rest \in Txns, Threw(rest, n),
         rest.op = txn.op, rest.undo = txn.undo,
         rest.rolling_back = txn.rolling_back, rest.trakr = txn.trakr,
         rest.add \subseteq txn.add, rest.del \subseteq txn.del,
         rest.mod \subseteq txn.mod,
         \A m \in Npus \ {n} : /\ m \in txn.add => m \in rest.add
                               /\ m \in txn.del => m \in rest.del
                               /\ \A a \in Attrs :
                                    <<a, m>> \in txn.mod => <<a, m>> \in rest.mod
  PROVE  IInv'
<1>0. /\ TypeOK /\ Phases /\ Skipped /\ Forward /\ Fits /\ Undoable
      /\ txn \in Txns /\ txn.op # "none" /\ ~txn.undo
  BY DEF IInv, TypeOK, Running
<1>1. /\ UNCHANGED <<switch_npus, stored, work, hw, gone>>
      /\ Old' = Old /\ New' = New
  BY DEF Threw, Old, New
<1>2. CASE txn.rolling_back
  <2>1. txn' = rest /\ bad' = bad \cup {n}
    BY <1>2 DEF Threw
  <2>2. TypeOK'
    BY <1>0, <1>1, <2>1 DEF TypeOK
  <2>3. Phases'
    BY <1>0, <1>1, <2>1 DEF Phases
  <2>4. Skipped' /\ CommitAtomic'
    BY <1>0, <1>1, <2>1 DEF Skipped, CommitAtomic
  <2>5. Forward'
    BY <1>0, <1>1, <2>1 DEF Forward
  <2>6. Fits'
    BY <1>0, <1>1, <2>1 DEF Fits, ElemFits
  <2>7. Undoable'
    BY <1>2, <2>1 DEF Undoable
  <2> QED BY <2>2, <2>3, <2>4, <2>5, <2>6, <2>7 DEF IInv
<1>3. CASE ~txn.rolling_back
  <2>1. txn' = [txn EXCEPT !.undo = TRUE] /\ bad' = bad
    BY <1>3 DEF Threw
  <2>2. /\ txn' \in Txns /\ txn'.op = txn.op /\ txn'.undo
        /\ txn'.rolling_back = txn.rolling_back /\ txn'.trakr = txn.trakr
        /\ txn'.add = txn.add /\ txn'.del = txn.del /\ txn'.mod = txn.mod
    BY <1>0, <2>1 DEF Txns
  <2>3. TypeOK'
    BY <1>0, <1>1, <2>1, <2>2 DEF TypeOK
  <2>4. Phases'
    BY <1>0, <1>1, <1>3, <2>2 DEF Phases
  <2>5. Skipped' /\ CommitAtomic'
    BY <1>0, <1>1, <2>2 DEF Skipped, CommitAtomic
  <2>6. Forward'
    BY <2>2 DEF Forward
  <2>7. Fits'
    BY <1>0, <1>1, <2>1, <2>2 DEF Fits, ElemFits
  <2>8. Undoable'
    BY <1>0, <1>1, <2>1, <2>2 DEF Undoable
  <2> QED BY <2>3, <2>4, <2>5, <2>6, <2>7, <2>8 DEF IInv
<1> QED BY <1>2, <1>3

\* A push that returns puts its element on the tracker, unless it did nothing
\* or the commit is a rollback.
LEMMA PushedFields ==
  ASSUME TypeOK, NEW rest \in Txns, rest.trakr = txn.trakr, NEW e \in Elems
  PROVE  LET p == Pushed(rest, e) IN
         /\ p \in Txns /\ p.op = rest.op /\ p.undo = rest.undo
         /\ p.rolling_back = rest.rolling_back
         /\ p.add = rest.add /\ p.del = rest.del /\ p.mod = rest.mod
         /\ e.npu \in SkipNpus \/ txn.rolling_back => On(p.trakr) = On(txn.trakr)
         /\ e.npu \notin SkipNpus /\ ~txn.rolling_back =>
              On(p.trakr) = On(txn.trakr) \cup {e}
<1>1. /\ Append(rest.trakr, e) \in Seq(Elems)
      /\ On(Append(rest.trakr, e)) = On(rest.trakr) \cup {e}
  BY OnAppend DEF Txns
<1> DEFINE t == Append(rest.trakr, e)
<1>2. [rest EXCEPT !.trakr = Append(@, e)] = [rest EXCEPT !.trakr = t]
  OBVIOUS
<1>3. t \in Seq(Elems) /\ On(t) = On(txn.trakr) \cup {e}
  BY <1>1
<1> HIDE DEF t
<1>4. LET p == [rest EXCEPT !.trakr = t] IN
      /\ p \in Txns /\ p.op = rest.op /\ p.undo = rest.undo
      /\ p.rolling_back = rest.rolling_back
      /\ p.add = rest.add /\ p.del = rest.del /\ p.mod = rest.mod
      /\ p.trakr = t
  BY <1>3 DEF Txns
<1> QED BY <1>2, <1>3, <1>4 DEF Pushed

\* push_create_obj_to_npu: the NPU is one of the new list only.
LEMMA PushCreateInv ==
  ASSUME IInv, NEW n \in Npus, PushCreate(n)
  PROVE  IInv'
<1> DEFINE rest == [txn EXCEPT !.add = @ \ {n}]
           e == [type |-> "CREATE_OBJ", npu |-> n]
<1>0. /\ TypeOK /\ Phases /\ Skipped /\ Forward /\ Fits /\ Undoable
      /\ txn \in Txns /\ txn.op # "none" /\ ~txn.undo /\ n \in txn.add /\ Running
  BY DEF IInv, TypeOK, PushCreate, Running
<1>1. /\ rest \in Txns /\ rest.op = txn.op /\ rest.undo = txn.undo
      /\ rest.rolling_back = txn.rolling_back /\ rest.trakr = txn.trakr
      /\ rest.add = txn.add \ {n} /\ rest.del = txn.del /\ rest.mod = txn.mod
  BY <1>0 DEF Txns
<1>2. CASE Threw(rest, n)
  <2> HIDE DEF rest
  <2> QED BY <1>0, <1>1, <1>2, ThrewInv
<1>3. CASE /\ CanCreate(n) /\ hw' = Apply(n, work.vals) /\ txn' = Pushed(rest, e)
           /\ UNCHANGED <<switch_npus, stored, work, gone, bad>>
  <2>1. e \in Elems /\ e.npu = n /\ e.type = "CREATE_OBJ"
    BY DEF Elems
  <2> HIDE DEF rest, e
  <2>2. /\ txn' \in Txns /\ txn'.op = txn.op /\ ~txn'.undo
        /\ txn'.rolling_back = txn.rolling_back
        /\ txn'.add = txn.add \ {n} /\ txn'.del = txn.del /\ txn'.mod = txn.mod
        /\ n \in SkipNpus \/ txn.rolling_back => On(txn'.trakr) = On(txn.trakr)
        /\ n \notin SkipNpus /\ ~txn.rolling_back =>
             On(txn'.trakr) = On(txn.trakr) \cup {e}
    BY <1>0, <1>1, <1>3, <2>1, PushedFields
  <2>3. n \in New \ Old /\ work # NONE /\ work.vals \in [Attrs -> Vals] /\ ~gone
    BY <1>0, Fields DEF Phases, New
  <2>4. /\ UNCHANGED <<switch_npus, stored, work, gone, bad>>
        /\ Old' = Old /\ New' = New
    BY <1>3 DEF Old, New
  <2>5. /\ hw' \in [Npus -> [Attrs -> Vals] \cup {ABSENT}]
        /\ \A m \in Npus \ {n} : hw'[m] = hw[m]
        /\ n \in SkipNpus => hw' = hw
        /\ n \notin SkipNpus => hw'[n] = work.vals
    BY <1>0, <1>3, <2>3 DEF Apply, TypeOK
  <2>6. TypeOK'
    BY <1>0, <2>2, <2>4, <2>5 DEF TypeOK
  <2>7. Phases'
    BY <1>0, <2>2, <2>4 DEF Phases
  <2>8. Skipped' /\ CommitAtomic'
    BY <1>0, <2>2, <2>5, NpuAssumption DEF Skipped, CommitAtomic
  <2>9. Forward'
    BY <1>0, <2>2, <2>3, <2>4, <2>5 DEF Forward
  <2>10. Fits'
    <3>1. ASSUME NEW f \in On(txn.trakr) PROVE ElemFits(f)'
      <4>1. ElemFits(f)
        BY <1>0 DEF Fits
      <4>2. f.type = "MODIFY_ATTR" => f.npu \in Npus \ {n}
        BY <2>3, <4>1, Fields, <1>0 DEF ElemFits
      <4> QED BY <2>4, <2>5, <4>1, <4>2 DEF ElemFits
    <3>2. n \notin SkipNpus => ElemFits(e)'
      BY <2>1, <2>3, <2>4 DEF ElemFits
    <3> QED BY <2>2, <3>1, <3>2 DEF Fits
  <2>11. Undoable'
    <3>1. On(txn.trakr) \subseteq On(txn'.trakr)
      BY <2>2
    <3>2. n \notin SkipNpus /\ ~txn.rolling_back =>
            [type |-> "CREATE_OBJ", npu |-> n] \in On(txn'.trakr)
      BY <2>2 DEF e
    <3> QED BY <1>0, <2>2, <2>3, <2>4, <2>5, <3>1, <3>2 DEF Undoable
  <2> QED BY <2>6, <2>7, <2>8, <2>9, <2>10, <2>11 DEF IInv
<1> QED BY <1>2, <1>3 DEF PushCreate

\* push_delete_obj_to_npu: the NPU is one of the old list only; an object
\* that is deleted a second time is on no NPU but the bad ones.
LEMMA PushDeleteInv ==
  ASSUME IInv, NEW n \in Npus, PushDelete(n)
  PROVE  IInv'
<1> DEFINE rest == [txn EXCEPT !.del = @ \ {n}]
           e == [type |-> "DELETE_OBJ", npu |-> n]
<1>0. /\ TypeOK /\ Phases /\ Skipped /\ Forward /\ Fits /\ Undoable
      /\ txn \in Txns /\ txn.op # "none" /\ ~txn.undo /\ n \in txn.del /\ Running
  BY DEF IInv, TypeOK, PushDelete, Running
<1>1. /\ rest \in Txns /\ rest.op = txn.op /\ rest.undo = txn.undo
      /\ rest.rolling_back = txn.rolling_back /\ rest.trakr = txn.trakr
      /\ rest.add = txn.add /\ rest.del = txn.del \ {n} /\ rest.mod = txn.mod
  BY <1>0 DEF Txns
<1>2. CASE Threw(rest, n)
  <2> HIDE DEF rest
  <2> QED BY <1>0, <1>1, <1>2, ThrewInv
<1>3. CASE /\ CanChange(n) /\ hw' = Apply(n, ABSENT) /\ txn' = Pushed(rest, e)
           /\ UNCHANGED <<switch_npus, stored, work, gone, bad>>
  <2>1. e \in Elems /\ e.npu = n /\ e.type = "DELETE_OBJ"
    BY DEF Elems
  <2> HIDE DEF rest, e
  <2>2. /\ txn' \in Txns /\ txn'.op = txn.op /\ ~txn'.undo
        /\ txn'.rolling_back = txn.rolling_back
        /\ txn'.add = txn.add /\ txn'.del = txn.del \ {n} /\ txn'.mod = txn.mod
        /\ n \in SkipNpus \/ txn.rolling_back => On(txn'.trakr) = On(txn.trakr)
        /\ n \notin SkipNpus /\ ~txn.rolling_back =>
             On(txn'.trakr) = On(txn.trakr) \cup {e}
    BY <1>0, <1>1, <1>3, <2>1, PushedFields
  <2>3. n \in Old \ New
    BY <1>0 DEF Phases
  <2>4. /\ UNCHANGED <<switch_npus, stored, work, gone, bad>>
        /\ Old' = Old /\ New' = New
    BY <1>3 DEF Old, New
  <2>5. /\ hw' \in [Npus -> [Attrs -> Vals] \cup {ABSENT}]
        /\ \A m \in Npus \ {n} : hw'[m] = hw[m]
        /\ n \in SkipNpus => hw' = hw
        /\ n \notin SkipNpus => hw'[n] = ABSENT
    BY <1>0, <1>3 DEF Apply, TypeOK
  <2>6. n \notin SkipNpus /\ gone => n \in bad
    BY <1>0, <1>3, <2>3 DEF Forward, CanChange
  <2>7. TypeOK'
    BY <1>0, <2>2, <2>4, <2>5 DEF TypeOK
  <2>8. Phases'
    BY <1>0, <2>2, <2>4 DEF Phases
  <2>9. Skipped' /\ CommitAtomic'
    BY <1>0, <2>2, <2>5, NpuAssumption DEF Skipped, CommitAtomic
  <2>10. Forward'
    BY <1>0, <2>2, <2>3, <2>4, <2>5 DEF Forward
  <2>11. Fits'
    <3>1. ASSUME NEW f \in On(txn.trakr) PROVE ElemFits(f)'
      <4>1. ElemFits(f)
        BY <1>0 DEF Fits
      <4>2. f.type = "MODIFY_ATTR" => f.npu \in Npus \ {n}
        BY <2>3, <4>1, Fields, <1>0 DEF ElemFits
      <4> QED BY <2>4, <2>5, <4>1, <4>2 DEF ElemFits
    <3>2. n \notin SkipNpus => ElemFits(e)'
      BY <2>1, <2>3, <2>4, <2>6 DEF ElemFits
    <3> QED BY <2>2, <3>1, <3>2 DEF Fits
  <2>12. Undoable'
    <3>1. On(txn.trakr) \subseteq On(txn'.trakr)
      BY <2>2
    <3>2. n \notin SkipNpus /\ ~txn.rolling_back =>
            [type |-> "DELETE_OBJ", npu |-> n] \in On(txn'.trakr)
      BY <2>2 DEF e
    <3> QED BY <1>0, <2>2, <2>3, <2>4, <2>5, <3>1, <3>2 DEF Undoable
  <2> QED BY <2>7, <2>8, <2>9, <2>10, <2>11, <2>12 DEF IInv
<1> QED BY <1>2, <1>3 DEF PushDelete

\* push_leaf_attr_to_npu: the NPU is in both lists and keeps the object.
LEMMA PushLeafAttrInv ==
  ASSUME IInv, NEW a \in Attrs, NEW n \in Npus, PushLeafAttr(a, n)
  PROVE  IInv'
<1> DEFINE rest == [txn EXCEPT !.mod = @ \ {<<a, n>>}]
           e == [type |-> "MODIFY_ATTR", npu |-> n, attr |-> a]
<1>0. /\ TypeOK /\ Phases /\ Skipped /\ Forward /\ Fits /\ Undoable
      /\ txn \in Txns /\ txn.op # "none" /\ ~txn.undo /\ <<a, n>> \in txn.mod /\ Running
  BY DEF IInv, TypeOK, PushLeafAttr, Running
<1>1. /\ rest \in Txns /\ rest.op = txn.op /\ rest.undo = txn.undo
      /\ rest.rolling_back = txn.rolling_back /\ rest.trakr = txn.trakr
      /\ rest.add = txn.add /\ rest.del = txn.del /\ rest.mod = txn.mod \ {<<a, n>>}
  BY <1>0 DEF Txns
<1>2. CASE Threw(rest, n)
  <2>1. \A m \in Npus \ {n} : \A b \in Attrs :
          <<b, m>> \in txn.mod => <<b, m>> \in rest.mod
    BY <1>1
  <2>2. /\ rest.mod \subseteq txn.mod
    BY <1>1
  <2> HIDE DEF rest
  <2> QED BY <1>0, <1>1, <1>2, <2>1, <2>2, ThrewInv
<1>3. CASE /\ CanChange(n)
           /\ hw' = IF n \in SkipNpus THEN hw ELSE [hw EXCEPT ![n][a] = work.vals[a]]
           /\ txn' = Pushed(rest, e)
           /\ UNCHANGED <<switch_npus, stored, work, gone, bad>>
  <2>1. e \in Elems /\ e.npu = n /\ e.type = "MODIFY_ATTR"
    BY DEF Elems
  <2> HIDE DEF rest, e
  <2>2. /\ txn' \in Txns /\ txn'.op = txn.op /\ ~txn'.undo
        /\ txn'.rolling_back = txn.rolling_back
        /\ txn'.add = txn.add /\ txn'.del = txn.del
        /\ txn'.mod = txn.mod \ {<<a, n>>}
        /\ n \in SkipNpus \/ txn.rolling_back => On(txn'.trakr) = On(txn.trakr)
        /\ n \notin SkipNpus /\ ~txn.rolling_back =>
             On(txn'.trakr) = On(txn.trakr) \cup {e}
    BY <1>0, <1>1, <1>3, <2>1, PushedFields
  <2>3. n \in Old \cap New /\ work # NONE /\ work.vals \in [Attrs -> Vals] /\ ~gone
    BY <1>0, Fields DEF Phases, New
  <2>4. /\ UNCHANGED <<switch_npus, stored, work, gone, bad>>
        /\ Old' = Old /\ New' = New
    BY <1>3 DEF Old, New
  <2>5. n \notin SkipNpus => hw[n] \in [Attrs -> Vals]
    BY <1>0, <1>3 DEF CanChange, TypeOK
  <2>6. /\ hw' \in [Npus -> [Attrs -> Vals] \cup {ABSENT}]
        /\ \A m \in Npus \ {n} : hw'[m] = hw[m]
        /\ n \in SkipNpus => hw' = hw
        /\ n \notin SkipNpus => /\ hw'[n] \in [Attrs -> Vals]
                                /\ hw'[n][a] = work.vals[a]
                                /\ \A b \in Attrs \ {a} : hw'[n][b] = hw[n][b]
    <3>1. CASE n \in SkipNpus
      BY <1>0, <1>3, <3>1 DEF TypeOK
    <3>2. CASE n \notin SkipNpus
      <4> DEFINE v == [hw[n] EXCEPT ![a] = work.vals[a]]
      <4>1. /\ v \in [Attrs -> Vals] /\ v[a] = work.vals[a]
            /\ \A b \in Attrs \ {a} : v[b] = hw[n][b]
        BY <2>3, <2>5, <3>2
      <4>2. hw' = [hw EXCEPT ![n] = v]
        BY <1>3, <3>2
      <4> HIDE DEF v
      <4> QED BY <1>0, <3>2, <4>1, <4>2 DEF TypeOK
    <3> QED BY <3>1, <3>2
  <2>7. TypeOK'
    BY <1>0, <2>2, <2>4, <2>6 DEF TypeOK
  <2>8. Phases'
    BY <1>0, <2>2, <2>4 DEF Phases
  <2>9. Skipped' /\ CommitAtomic'
    BY <1>0, <2>2, <2>6, NpuAssumption DEF Skipped, CommitAtomic
  <2>10. Forward'
    <3>1. \A m \in Npus, b \in Attrs : <<b, m>> \in txn'.mod <=>
            <<b, m>> \in txn.mod /\ (m # n \/ b # a)
      BY <2>2
    <3> QED BY <1>0, <2>2, <2>3, <2>4, <2>6, <3>1 DEF Forward
  <2>11. Fits'
    <3>1. ASSUME NEW f \in On(txn.trakr) PROVE ElemFits(f)'
      <4>1. ElemFits(f)
        BY <1>0 DEF Fits
      <4>2. f.type = "MODIFY_ATTR" => f.npu \in Npus
        BY <4>1, Fields, <1>0 DEF ElemFits
      <4> QED BY <2>4, <2>6, <4>1, <4>2, ValAssumption DEF ElemFits
    <3>2. n \notin SkipNpus => ElemFits(e)'
      BY <2>1, <2>3, <2>4, <2>6, ValAssumption DEF ElemFits
    <3> QED BY <2>2, <3>1, <3>2 DEF Fits
  <2>12. Undoable'
    <3>1. On(txn.trakr) \subseteq On(txn'.trakr)
      BY <2>2
    <3>2. n \notin SkipNpus /\ ~txn.rolling_back =>
            [type |-> "MODIFY_ATTR", npu |-> n, attr |-> a] \in On(txn'.trakr)
      BY <2>2 DEF e
    <3> SUFFICES ASSUME ~txn.rolling_back, NEW m \in Npus \ (bad \cup SkipNpus)
                 PROVE  /\ m \notin Old \/ gone =>
                             \/ hw'[m] = ABSENT
                             \/ [type |-> "CREATE_OBJ", npu |-> m] \in On(txn'.trakr)
                        /\ m \in Old \ New /\ ~gone =>
                             \/ hw'[m] = stored.vals
                             \/ [type |-> "DELETE_OBJ", npu |-> m] \in On(txn'.trakr)
                        /\ m \in Old \cap New =>
                             /\ hw'[m] \in [Attrs -> Vals]
                             /\ \A b \in Attrs :
                                  \/ hw'[m][b] = stored.vals[b]
                                  \/ [type |-> "MODIFY_ATTR", npu |-> m, attr |-> b]
                                       \in On(txn'.trakr)
      BY <2>2, <2>4 DEF Undoable
    <3>3. CASE m # n
      <4>1. hw'[m] = hw[m]
        BY <2>6, <3>3
      <4> QED BY <1>0, <3>1, <4>1 DEF Undoable
    <3>4. CASE m = n
      <4>1. /\ hw'[n] \in [Attrs -> Vals]
            /\ \A b \in Attrs \ {a} : hw'[n][b] = hw[n][b]
        BY <2>6, <3>4
      <4>2. \A b \in Attrs : \/ hw[n][b] = stored.vals[b]
                             \/ [type |-> "MODIFY_ATTR", npu |-> n, attr |-> b]
                                  \in On(txn.trakr)
        BY <1>0, <2>3, <3>4 DEF Undoable
      <4>3. [type |-> "MODIFY_ATTR", npu |-> n, attr |-> a] \in On(txn'.trakr)
        BY <3>2, <3>4
      <4>4. \A b \in Attrs : \/ hw'[n][b] = stored.vals[b]
                             \/ [type |-> "MODIFY_ATTR", npu |-> n, attr |-> b]
                                  \in On(txn'.trakr)
        BY <3>1, <4>1, <4>2, <4>3
      <4> QED BY <2>3, <3>4, <4>1, <4>4
    <3> QED BY <3>3, <3>4
  <2> QED BY <2>7, <2>8, <2>9, <2>10, <2>11, <2>12 DEF IInv
<1> QED BY <1>2, <1>3 DEF PushLeafAttr

\* One round of a rollback loop puts back what the element's push changed; when
\* the undoing push throws, its NPU joins the bad ones.
LEMMA RollbackInv ==
  ASSUME IInv, RollbackLast
  PROVE  IInv'
<1> DEFINE e == txn.trakr[Len(txn.trakr)]
           rest == SubSeq(txn.trakr, 1, Len(txn.trakr) - 1)
<1>0. /\ TypeOK /\ Phases /\ Skipped /\ Forward /\ Fits /\ Undoable
      /\ txn \in Txns /\ txn.undo /\ txn.op # "none" /\ ~txn.rolling_back
      /\ txn.trakr # <<>> /\ txn.trakr \in Seq(Elems)
  BY Fields DEF IInv, TypeOK, RollbackLast, Phases
<1>1. /\ e \in Elems /\ e \in On(txn.trakr) /\ rest \in Seq(Elems)
      /\ On(rest) \subseteq On(txn.trakr)
      /\ On(txn.trakr) \subseteq On(rest) \cup {e}
  BY <1>0, OnFront
<1>2. /\ txn' = [txn EXCEPT !.trakr = rest]
      /\ \/ hw' = [hw EXCEPT ![e.npu] = Undone(e)] /\ bad' = bad
         \/ hw' = hw /\ bad' = bad \cup {e.npu}
      /\ UNCHANGED <<switch_npus, stored, work, gone>>
  BY DEF RollbackLast
<1> HIDE DEF e, rest
<1>3. /\ txn' \in Txns /\ txn'.op = txn.op /\ txn'.undo
      /\ txn'.rolling_back = txn.rolling_back /\ txn'.trakr = rest
      /\ txn'.add = txn.add /\ txn'.del = txn.del /\ txn'.mod = txn.mod
  BY <1>0, <1>1, <1>2 DEF Txns
<1>4. Old' = Old /\ New' = New
  BY <1>2 DEF Old, New
<1>5. ElemFits(e) /\ e.npu \in Npus
      /\ \/ e.type = "CREATE_OBJ"
         \/ e.type = "DELETE_OBJ"
         \/ e.type = "MODIFY_ATTR" /\ e.attr \in Attrs
  BY <1>0, <1>1 DEF Fits, Elems
<1>6. Phases'
  BY <1>0, <1>2, <1>3, <1>4 DEF Phases
<1>7. CommitAtomic' /\ Forward'
  BY <1>0, <1>3 DEF CommitAtomic, Forward
<1>8. CASE hw' = hw /\ bad' = bad \cup {e.npu}
  <2>1. TypeOK' /\ Skipped'
    BY <1>0, <1>2, <1>3, <1>5, <1>8 DEF TypeOK, Skipped
  <2>2. Fits'
    BY <1>0, <1>1, <1>2, <1>3, <1>4, <1>8 DEF Fits, ElemFits
  <2>3. \A m \in Npus \ bad' : m # e.npu /\ m \notin bad
    BY <1>8
  <2>4. ASSUME NEW f \in On(txn.trakr), f.npu # e.npu PROVE f \in On(txn'.trakr)
    BY <1>1, <1>3, <2>4
  <2>5. Undoable'
    <3>1. \A m \in Npus \ bad' :
            /\ [type |-> "CREATE_OBJ", npu |-> m] \in On(txn.trakr) =>
                 [type |-> "CREATE_OBJ", npu |-> m] \in On(txn'.trakr)
            /\ [type |-> "DELETE_OBJ", npu |-> m] \in On(txn.trakr) =>
                 [type |-> "DELETE_OBJ", npu |-> m] \in On(txn'.trakr)
            /\ \A a \in Attrs :
                 [type |-> "MODIFY_ATTR", npu |-> m, attr |-> a] \in On(txn.trakr) =>
                 [type |-> "MODIFY_ATTR", npu |-> m, attr |-> a] \in On(txn'.trakr)
      BY <2>3, <2>4
    <3> QED BY <1>0, <1>2, <1>3, <1>4, <1>8, <3>1 DEF Undoable
  <2> QED BY <1>6, <1>7, <2>1, <2>2, <2>5 DEF IInv
<1>9. CASE hw' = [hw EXCEPT ![e.npu] = Undone(e)] /\ bad' = bad
  <2>1. /\ e.type = "CREATE_OBJ" => Undone(e) = ABSENT
        /\ e.type = "DELETE_OBJ" => Undone(e) = stored.vals
        /\ e.type = "MODIFY_ATTR" =>
             Undone(e) = [hw[e.npu] EXCEPT ![e.attr] = stored.vals[e.attr]]
    BY DEF Undone
  <2>2. e.type # "CREATE_OBJ" => stored # NONE /\ stored.vals \in [Attrs -> Vals]
    BY <1>0, <1>5, Fields DEF ElemFits, Old
  <2>3. e.type = "MODIFY_ATTR" =>
          /\ e.npu \in Old \cap New /\ ~gone
          /\ Undone(e) \in [Attrs -> Vals] /\ hw[e.npu] \in [Attrs -> Vals]
          /\ Undone(e)[e.attr] = stored.vals[e.attr]
          /\ \A b \in Attrs \ {e.attr} : Undone(e)[b] = hw[e.npu][b]
    <3> SUFFICES ASSUME e.type = "MODIFY_ATTR"
                 PROVE  /\ e.npu \in Old \cap New /\ ~gone
                        /\ Undone(e) \in [Attrs -> Vals] /\ hw[e.npu] \in [Attrs -> Vals]
                        /\ Undone(e)[e.attr] = stored.vals[e.attr]
                        /\ \A b \in Attrs \ {e.attr} : Undone(e)[b] = hw[e.npu][b]
      OBVIOUS
    <3>1. e.npu \in Old \cap New /\ ~gone /\ hw[e.npu] \in [Attrs -> Vals]
      BY <1>0, <1>5 DEF ElemFits, TypeOK, Phases, New
    <3>2. e.attr \in Attrs
      BY <1>5
    <3> QED BY <2>1, <2>2, <3>1, <3>2
  <2>4. /\ Undone(e) \in [Attrs -> Vals] \cup {ABSENT}
        /\ hw' \in [Npus -> [Attrs -> Vals] \cup {ABSENT}]
        /\ hw'[e.npu] = Undone(e)
        /\ \A m \in Npus \ {e.npu} : hw'[m] = hw[m]
    BY <1>0, <1>5, <1>9, <2>1, <2>2, <2>3 DEF TypeOK
  <2>5. TypeOK'
    BY <1>0, <1>2, <1>3, <1>9, <2>4 DEF TypeOK
  <2>6. Skipped'
    BY <1>0, <1>5, <2>4, NpuAssumption DEF Skipped, ElemFits
  <2>7. Fits'
    <3>1. ASSUME NEW f \in On(txn.trakr) PROVE ElemFits(f)'
      <4>1. ElemFits(f)
        BY <1>0 DEF Fits
      <4>2. f.type = "MODIFY_ATTR" => f.npu \in Npus
        BY <4>1, Fields, <1>0 DEF ElemFits
      <4>3. f.type = "MODIFY_ATTR" => hw'[f.npu] # ABSENT
        BY <1>5, <2>3, <2>4, <4>1, <4>2, ValAssumption DEF ElemFits
      <4> QED BY <1>2, <1>4, <1>9, <4>1, <4>3 DEF ElemFits
    <3> QED BY <1>1, <1>3, <3>1 DEF Fits
  <2>8. Undoable'
    <3>1. ASSUME NEW f \in On(txn.trakr), f # e PROVE f \in On(txn'.trakr)
      BY <1>1, <1>3, <3>1
    <3> SUFFICES ASSUME NEW n \in Npus \ (bad \cup SkipNpus)
                 PROVE
          (/\ n \notin Old \/ gone =>
                hw[n] = ABSENT \/ [type |-> "CREATE_OBJ", npu |-> n] \in On(txn.trakr)
           /\ n \in Old \ New /\ ~gone =>
                hw[n] = stored.vals \/ [type |-> "DELETE_OBJ", npu |-> n] \in On(txn.trakr)
           /\ n \in Old \cap New =>
                /\ hw[n] \in [Attrs -> Vals]
                /\ \A a \in Attrs :
                     \/ hw[n][a] = stored.vals[a]
                     \/ [type |-> "MODIFY_ATTR", npu |-> n, attr |-> a] \in On(txn.trakr))'
      BY <1>9 DEF Undoable
    <3>2. CASE n # e.npu
      <4>1. hw'[n] = hw[n]
        BY <2>4, <3>2
      <4>2. /\ [type |-> "CREATE_OBJ", npu |-> n] # e
            /\ [type |-> "DELETE_OBJ", npu |-> n] # e
            /\ \A a \in Attrs : [type |-> "MODIFY_ATTR", npu |-> n, attr |-> a] # e
        BY <3>2
      <4> QED BY <1>0, <1>2, <1>4, <3>1, <4>1, <4>2 DEF Undoable
    <3>3. CASE n = e.npu /\ e.type = "CREATE_OBJ"
      BY <1>2, <1>4, <1>5, <2>1, <2>4, <3>3 DEF ElemFits
    <3>4. CASE n = e.npu /\ e.type = "DELETE_OBJ"
      BY <1>2, <1>4, <1>5, <2>1, <2>4, <3>4 DEF ElemFits
    <3>5. CASE n = e.npu /\ e.type = "MODIFY_ATTR"
      <4>1. \A a \in Attrs \ {e.attr} :
              [type |-> "MODIFY_ATTR", npu |-> n, attr |-> a] # e
        OBVIOUS
      <4> QED BY <1>0, <1>2, <1>4, <1>5, <2>3, <2>4, <3>1, <3>5, <4>1 DEF Undoable
    <3> QED BY <1>5, <3>2, <3>3, <3>4, <3>5
  <2> QED BY <1>6, <1>7, <2>5, <2>6, <2>7, <2>8 DEF IInv
<1> QED BY <1>2, <1>8, <1>9

-----------------------------------------------------------------------------
(* The theorems *)

\* Every step of a request or of the commit engine keeps the invariant.
LEMMA NextIInv == IInv /\ [Next]_vars => IInv'
<1> SUFFICES ASSUME IInv, [Next]_vars PROVE IInv'
  OBVIOUS
<1>1. CASE CommitStep
  BY <1>1, PushCreateInv, PushDeleteInv, PushLeafAttrInv, RollbackInv,
     CommitFailsInv, CommitDoneInv DEF CommitStep
<1>2. CASE Request
  BY <1>2, EditsInv, CommitsInv, EraseInv DEF Request
<1>3. CASE UNCHANGED vars
  BY <1>3 DEF vars, IInv, TypeOK, Phases, Skipped, CommitAtomic, Expected, Forward,
             Fits, ElemFits, Undoable, Old, New
<1> QED BY <1>1, <1>2, <1>3 DEF Next

\* The invariant holds in every reachable state.
LEMMA Invariance == Spec => []IInv
<1> QED BY InitIInv, NextIInv, PTL DEF Spec

\* Every variable of the commit engine keeps its type.
THEOREM TypeCorrect == Spec => []TypeOK
<1>1. IInv => TypeOK
  BY DEF IInv
<1> QED BY <1>1, Invariance, PTL

\* Between commits every NPU where no undoing push failed holds exactly the
\* object in the table: a commit takes effect on all of its NPUs or on none.
THEOREM CommitIsAtomic == Spec => []CommitAtomic
<1>1. IInv => CommitAtomic
  BY DEF IInv
<1> QED BY <1>1, Invariance, PTL

\* What a running commit changed is on its rollback tracker.
THEOREM AllChangesTracked == Spec => []ChangesTracked
<1>1. IInv => ChangesTracked
  <2> SUFFICES ASSUME IInv, txn.op # "none", ~txn.rolling_back,
                      NEW n \in Npus \ bad, hw[n] # Expected(n)
               PROVE  \E i \in 1..Len(txn.trakr) : txn.trakr[i].npu = n
    BY DEF ChangesTracked
  <2>0. TypeOK /\ Phases /\ Skipped /\ Undoable
    BY DEF IInv
  <2>1. n \notin SkipNpus
    BY <2>0 DEF Skipped, Expected
  <2>2. \E e \in On(txn.trakr) : e.npu = n
    <3>1. CASE n \notin Old \/ gone
      <4>1. [type |-> "CREATE_OBJ", npu |-> n] \in On(txn.trakr)
        BY <2>0, <2>1, <3>1 DEF Undoable, Expected, Old
      <4> QED BY <4>1
    <3>2. CASE n \in Old \ New /\ ~gone
      <4>1. [type |-> "DELETE_OBJ", npu |-> n] \in On(txn.trakr)
        BY <2>0, <2>1, <3>2 DEF Undoable, Expected, Old
      <4> QED BY <4>1
    <3>3. CASE n \in Old \cap New /\ ~gone
      <4>1. stored # NONE /\ stored.vals \in [Attrs -> Vals]
        BY <2>0, <3>3, Fields DEF Old
      <4>2. hw[n] \in [Attrs -> Vals] /\ hw[n] # stored.vals
        BY <2>0, <2>1, <3>3, <4>1 DEF Undoable, Expected, Old
      <4>3. PICK a \in Attrs : hw[n][a] # stored.vals[a]
        BY <4>1, <4>2, SameVals
      <4>4. [type |-> "MODIFY_ATTR", npu |-> n, attr |-> a] \in On(txn.trakr)
        BY <2>0, <2>1, <3>3, <4>3 DEF Undoable
      <4> QED BY <4>4
    <3> QED BY <3>1, <3>2, <3>3
  <2> QED BY <2>2 DEF On
<1> QED BY <1>1, Invariance, PTL

-----------------------------------------------------------------------------
(* Atomic commits *)

\* With no commit running nothing is left of the last one.
Quiet == txn.op = "none" => txn = Idle

\* Each commit starts from a fresh tracker and leaves nothing behind.
LEMMA QuietInv == Spec => []Quiet
<1>1. Init => Quiet
  BY DEF Init, Quiet
<1>2. IInv /\ Quiet /\ [Next]_vars => Quiet'
  <2> SUFFICES ASSUME IInv, Quiet, [Next]_vars PROVE Quiet'
    OBVIOUS
  <2>0. txn \in Txns
    BY DEF IInv, TypeOK
  <2>1. CASE \E n \in Npus : PushCreate(n) \/ PushDelete(n)
    BY <2>0, <2>1 DEF PushCreate, PushDelete, Pushed, Threw, Running, Txns, Quiet
  <2>2. CASE \E a \in Attrs, n \in Npus : PushLeafAttr(a, n)
    BY <2>0, <2>2 DEF PushLeafAttr, Pushed, Threw, Running, Txns, Quiet
  <2>3. CASE RollbackLast
    BY <2>0, <2>3 DEF RollbackLast, Txns, Quiet, IInv, Phases
  <2>4. CASE CommitFails \/ CreateDone \/ ModifyDone \/ DeleteDone
    BY <2>4 DEF CommitFails, CreateDone, ModifyDone, DeleteDone, Quiet
  <2>5. CASE UNCHANGED txn
    BY <2>5 DEF Quiet
  <2>6. ASSUME NEW rb \in BOOLEAN, CommitCreate(rb) \/ CommitModify(rb) \/ CommitDelete(rb)
        PROVE  Quiet'
    BY <2>6 DEF CommitCreate, CommitModify, CommitDelete, Idle, Quiet
  <2> QED BY <2>1, <2>2, <2>3, <2>4, <2>5, <2>6
          DEF Next, CommitStep, Request, StartRequest, ResetNpus, DropRequest, EraseObject,
              SetAttr, AddNpu, SwitchAddNpu, RemoveNpu, SetNpuList, vars
<1> QED BY <1>1, <1>2, Invariance, PTL DEF Spec

\* What the application module sees of the NPUs follows from the object.
Held == holds = [n \in Npus \ bad |-> Expected(n)]

\* Between commits because they are atomic, during one because it shows as
\* nothing until it ends.
LEMMA HeldNow == IInv => Held
<1> SUFFICES ASSUME IInv PROVE Held
  OBVIOUS
<1>1. \A n \in Npus \ bad : (IF txn.op = "none" THEN hw[n] ELSE Expected(n)) = Expected(n)
  BY DEF IInv, CommitAtomic
<1> QED BY <1>1 DEF holds, Held

\* The same after a step.
LEMMA HeldNext == IInv' => Held'
<1> QED BY HeldNow, PTL

\* What each NPU holds of the object in NDI.
HoldsAll == \A n \in Npus : Atomic!Holds(object, n) = Expected(n)

\* It is what the object in the table says.
LEMMA HoldsObject == IInv => HoldsAll
<1> SUFFICES ASSUME IInv PROVE HoldsAll
  OBVIOUS
<1>1. stored = NONE \/ stored \in Objects
  BY DEF IInv, TypeOK
<1>2. stored # NONE => Pushable(stored) # NONE
  BY <1>1, NoneAssumption DEF Pushable, Objects
<1> QED BY <1>2 DEF HoldsAll, Atomic!Holds, object, Expected, Pushable

\* The same after a step.
LEMMA HoldsObjectNext == IInv' => HoldsAll'
<1> QED BY HoldsObject, PTL

\* A step that changes neither the object nor the lost NPUs changes nothing
\* that the application module sees of them.
LEMMA SameHeld ==
  ASSUME IInv, IInv', UNCHANGED <<stored, gone, bad>>
  PROVE  object' = object /\ holds' = holds
<1>1. \A n \in Npus : Expected(n)' = Expected(n)
  BY DEF Expected
<1>2. [n \in Npus \ bad' |-> Expected(n)'] = [n \in Npus \ bad |-> Expected(n)]
  BY <1>1
<1>3. holds' = holds
  BY <1>2, HeldNow, HeldNext DEF Held
<1> QED BY <1>3 DEF object

\* An NPU where an undoing push failed is lost.
LEMMA LosesOne ==
  ASSUME IInv, IInv', UNCHANGED <<stored, gone>>, NEW n \in Npus, bad' = bad \cup {n},
         commit' = commit, txn.op # "none", txn.rolling_back \/ txn.undo
  PROVE  Atomic!Lose(n)
<1>1. \A m \in Npus : Expected(m)' = Expected(m)
  BY DEF Expected
<1>2. holds = [m \in Npus \ bad |-> Expected(m)]
  BY HeldNow DEF Held
<1>3. holds' = [m \in Npus \ bad' |-> Expected(m)']
  BY HeldNext DEF Held
<1>4. holds' = [m \in DOMAIN holds \ {n} |-> holds[m]]
  <2>1. DOMAIN holds \ {n} = Npus \ bad'
    BY <1>2
  <2>2. \A m \in Npus \ bad' : holds[m] = Expected(m)'
    BY <1>1, <1>2
  <2> QED BY <1>3, <2>1, <2>2
<1>5. object' = object
  BY DEF object
<1>6. commit.op # "none" /\ (commit.rolling_back \/ commit.failed)
  BY DEF commit
<1> QED BY <1>4, <1>5, <1>6 DEF Atomic!Lose

\* What a commit is to the application module depends on these fields only.
LEMMA SameCommit ==
  ASSUME txn'.op = txn.op, txn'.rolling_back = txn.rolling_back,
         txn'.undo = txn.undo, work' = work \/ txn.op = "none"
  PROVE  commit' = commit
BY DEF commit

\* A push that throws loses its NPU in a rolling-back commit, and is the
\* fault that an ordinary commit fails with.
LEMMA ThrewIsAtomic ==
  ASSUME IInv, IInv', Running, NEW n \in Npus, NEW rest, Threw(rest, n),
         rest.op = txn.op, rest.undo = txn.undo, rest.rolling_back = txn.rolling_back
  PROVE  Atomic!AtomicNext
<1>0. txn \in Txns
  BY DEF IInv, TypeOK
<1>1. CASE txn.rolling_back
  <2>1. commit' = commit
    BY <1>1, SameCommit DEF Threw
  <2>2. Atomic!Lose(n)
    BY <1>1, <2>1, LosesOne DEF Threw, Running
  <2> QED BY <2>2 DEF Atomic!AtomicNext
<1>2. CASE ~txn.rolling_back
  <2>1. txn' = [txn EXCEPT !.undo = TRUE] /\ UNCHANGED <<stored, work, gone, bad>>
    BY <1>2 DEF Threw
  <2>2. /\ txn'.op = txn.op /\ txn'.rolling_back = txn.rolling_back
        /\ txn'.undo = TRUE /\ txn.undo = FALSE /\ txn.op # "none"
    BY <1>0, <2>1 DEF Txns, Running
  <2>3. commit' = Atomic!Commit(commit.op, commit.target, FALSE, TRUE)
    BY <1>0, <1>2, <2>1, <2>2 DEF commit, Atomic!Commit, Txns
  <2>4. commit.op # "none" /\ ~commit.rolling_back /\ ~commit.failed
    BY <1>2, <2>2 DEF commit
  <2>5. Atomic!Fault
    BY <2>1, <2>3, <2>4, SameHeld DEF Atomic!Fault
  <2> QED BY <2>5 DEF Atomic!AtomicNext
<1> QED BY <1>1, <1>2

\* A push that returns is not seen before the commit ends.
LEMMA PushIsAtomic ==
  ASSUME IInv, IInv', NEW n \in Npus,
         PushCreate(n) \/ PushDelete(n) \/ \E a \in Attrs : PushLeafAttr(a, n)
  PROVE  Atomic!AtomicNext \/ UNCHANGED Atomic!atomicVars
<1>0. txn \in Txns
  BY DEF IInv, TypeOK
<1>1. ASSUME NEW rest \in Txns, NEW elem,
             rest.op = txn.op, rest.undo = txn.undo, rest.rolling_back = txn.rolling_back,
             txn' = Pushed(rest, elem), UNCHANGED <<stored, work, gone, bad>>
      PROVE  UNCHANGED Atomic!atomicVars
  <2>1. /\ txn'.op = txn.op /\ txn'.undo = txn.undo
        /\ txn'.rolling_back = txn.rolling_back
    BY <1>1 DEF Pushed, Txns
  <2>2. commit' = commit
    BY <1>1, <2>1, SameCommit
  <2> QED BY <1>1, <2>2, SameHeld DEF Atomic!atomicVars
<1>2. CASE PushCreate(n)
  <2> DEFINE rest == [txn EXCEPT !.add = @ \ {n}]
  <2>1. /\ rest \in Txns
        /\ rest.op = txn.op /\ rest.undo = txn.undo /\ rest.rolling_back = txn.rolling_back
    BY <1>0 DEF Txns
  <2>2. /\ Running
        /\ \/ /\ txn' = Pushed(rest, [type |-> "CREATE_OBJ", npu |-> n])
              /\ UNCHANGED <<stored, work, gone, bad>>
           \/ Threw(rest, n)
    BY <1>2 DEF PushCreate
  <2> HIDE DEF rest
  <2> QED BY <1>1, <2>1, <2>2, ThrewIsAtomic
<1>3. CASE PushDelete(n)
  <2> DEFINE rest == [txn EXCEPT !.del = @ \ {n}]
  <2>1. /\ rest \in Txns
        /\ rest.op = txn.op /\ rest.undo = txn.undo /\ rest.rolling_back = txn.rolling_back
    BY <1>0 DEF Txns
  <2>2. /\ Running
        /\ \/ /\ txn' = Pushed(rest, [type |-> "DELETE_OBJ", npu |-> n])
              /\ UNCHANGED <<stored, work, gone, bad>>
           \/ Threw(rest, n)
    BY <1>3 DEF PushDelete
  <2> HIDE DEF rest
  <2> QED BY <1>1, <2>1, <2>2, ThrewIsAtomic
<1>4. ASSUME NEW a \in Attrs, PushLeafAttr(a, n)
      PROVE  Atomic!AtomicNext \/ UNCHANGED Atomic!atomicVars
  <2> DEFINE rest == [txn EXCEPT !.mod = @ \ {<<a, n>>}]
  <2>1. /\ rest \in Txns
        /\ rest.op = txn.op /\ rest.undo = txn.undo /\ rest.rolling_back = txn.rolling_back
    BY <1>0 DEF Txns
  <2>2. /\ Running
        /\ \/ /\ txn' = Pushed(rest, [type |-> "MODIFY_ATTR", npu |-> n, attr |-> a])
              /\ UNCHANGED <<stored, work, gone, bad>>
           \/ Threw(rest, n)
    BY <1>4 DEF PushLeafAttr
  <2> HIDE DEF rest
  <2> QED BY <1>1, <2>1, <2>2, ThrewIsAtomic
<1> QED BY <1>2, <1>3, <1>4

\* An undoing push is not seen, except that the NPU is lost when it fails.
LEMMA RollbackIsAtomic ==
  ASSUME IInv, IInv', RollbackLast
  PROVE  Atomic!AtomicNext \/ UNCHANGED Atomic!atomicVars
<1> DEFINE e == txn.trakr[Len(txn.trakr)]
<1>0. txn \in Txns /\ txn.undo /\ txn.trakr # <<>> /\ txn.trakr \in Seq(Elems)
  BY DEF IInv, TypeOK, RollbackLast, Txns
<1>1. /\ txn'.op = txn.op /\ txn'.undo = txn.undo
      /\ txn'.rolling_back = txn.rolling_back /\ UNCHANGED <<stored, work, gone>>
  BY <1>0 DEF RollbackLast, Txns
<1>2. txn.op # "none"
  BY <1>0 DEF IInv, Phases
<1>3. e \in Elems
  BY <1>0, OnFront
<1>4. e.npu \in Npus
  BY <1>3 DEF Elems
<1>5. bad' = bad \/ bad' = bad \cup {e.npu}
  BY DEF RollbackLast
<1>6. commit' = commit
  BY <1>1, SameCommit
<1>7. CASE bad' = bad
  BY <1>1, <1>6, <1>7, SameHeld DEF Atomic!atomicVars
<1>8. CASE bad' = bad \cup {e.npu}
  <2> HIDE DEF e
  <2>1. Atomic!Lose(e.npu)
    BY <1>0, <1>1, <1>2, <1>4, <1>6, <1>8, LosesOne
  <2> QED BY <1>4, <2>1 DEF Atomic!AtomicNext
<1> QED BY <1>5, <1>7, <1>8

\* A request's edits, and the erasing of a deleted object, are not seen.
LEMMA EditIsAtomic ==
  ASSUME IInv, IInv', txn.op = "none", UNCHANGED <<hw, txn, bad>>,
         \/ UNCHANGED <<stored, gone>>
         \/ EraseObject
  PROVE  UNCHANGED Atomic!atomicVars
<1>1. commit' = commit
  BY SameCommit
<1>2. holds' = holds
  BY DEF holds
<1>3. object' = object
  BY DEF object, EraseObject
<1> QED BY <1>1, <1>2, <1>3 DEF Atomic!atomicVars

\* The three commits up to the first push begin an atomic commit.
LEMMA BeginIsAtomic ==
  ASSUME IInv, IInv', Quiet, NEW rb \in BOOLEAN,
         CommitCreate(rb) \/ CommitModify(rb) \/ CommitDelete(rb)
  PROVE  Atomic!Begin
<1>0. Idle.op = "none" /\ Idle.undo = FALSE /\ Idle.rolling_back = FALSE
  BY DEF Idle
<1>1. /\ txn.op = "none" /\ UNCHANGED <<stored, gone, bad>>
      /\ stored = NONE \/ stored \in Objects
  BY DEF CommitCreate, CommitModify, CommitDelete, CanEdit, IInv, TypeOK
<1>2. commit = Atomic!NoCommit
  <2>1. txn = Idle
    BY <1>1 DEF Quiet
  <2> QED BY <1>0, <2>1 DEF commit, Atomic!NoCommit, Atomic!Commit
<1>3. UNCHANGED <<object, holds>>
  BY <1>1, SameHeld
<1>4. /\ txn' \in Txns /\ txn'.undo = FALSE /\ txn'.rolling_back = rb
      /\ CommitCreate(rb) => txn'.op = "create"
      /\ CommitModify(rb) => txn'.op = "modify"
      /\ CommitDelete(rb) => txn'.op = "delete"
  BY DEF CommitCreate, CommitModify, CommitDelete, Idle, IInv, TypeOK
<1>5. /\ commit'.op = txn'.op /\ commit'.rolling_back = rb
      /\ commit' = Atomic!Commit(commit'.op, commit'.target, commit'.rolling_back, FALSE)
  BY <1>4 DEF commit, Atomic!Commit
<1>6. CASE CommitCreate(rb) \/ CommitModify(rb)
  <2>1. work' \in Objects /\ commit'.target = [vals |-> work'.vals, npus |-> work'.npus]
    BY <1>4, <1>6 DEF commit, Pushable, IInv, TypeOK, Phases
  <2>2. commit'.target \in Atomic!Targets
    BY <2>1 DEF Objects, Atomic!Targets
  <2>3. CommitCreate(rb) => object = NONE
    BY <1>4, <1>1 DEF IInv, Phases, object
  <2>4. CommitModify(rb) => object # NONE
    <3>1. CommitModify(rb) => stored' # NONE /\ ~gone'
      BY <1>4 DEF IInv, Phases
    <3>2. stored \in Objects => Pushable(stored) # NONE
      BY NoneAssumption DEF Pushable, Objects
    <3> QED BY <1>1, <3>1, <3>2 DEF object
  <2> QED BY <1>2, <1>3, <1>4, <1>5, <1>6, <2>2, <2>3, <2>4 DEF Atomic!Begin
<1>7. CASE CommitDelete(rb)
  <2>1. commit'.target = NONE
    BY <1>4, <1>7 DEF commit
  <2> QED BY <1>2, <1>3, <1>4, <1>5, <1>7, <2>1 DEF Atomic!Begin
<1> QED BY <1>6, <1>7

\* A commit that throws changes nothing more.
LEMMA FailIsAtomic ==
  ASSUME IInv, IInv', CommitFails
  PROVE  Atomic!Fail
<1>1. UNCHANGED <<object, holds>>
  BY SameHeld DEF CommitFails
<1>2. commit.failed
  BY DEF commit, CommitFails
<1>3. commit' = Atomic!NoCommit
  BY DEF commit, CommitFails, Idle, Atomic!NoCommit, Atomic!Commit
<1> QED BY <1>1, <1>2, <1>3 DEF Atomic!Fail

\* A commit that returns takes effect on every NPU that is not lost.
LEMMA SucceedIsAtomic ==
  ASSUME IInv, IInv', CreateDone \/ ModifyDone \/ DeleteDone
  PROVE  Atomic!Succeed
<1>0. /\ txn.op # "none" /\ txn.undo = FALSE /\ txn' = Idle /\ bad' = bad
      /\ txn \in Txns /\ work \in Objects \cup {NONE}
  <2>1. txn \in Txns /\ work \in Objects \cup {NONE}
    BY DEF IInv, TypeOK
  <2>2. txn.undo \in BOOLEAN
    BY <2>1 DEF Txns
  <2> QED BY <2>1, <2>2 DEF CreateDone, ModifyDone, DeleteDone, AllPushed, Running
<1>1. commit.op # "none" /\ ~commit.failed
  BY <1>0 DEF commit
<1>2. commit' = Atomic!NoCommit
  BY <1>0 DEF commit, Idle, Atomic!NoCommit, Atomic!Commit
<1>3. object' = commit.target
  <2>1. CASE CreateDone \/ ModifyDone
    <3>1. /\ txn.op \in {"create", "modify"} /\ work \in Objects /\ ~gone'
      BY <1>0, <2>1 DEF CreateDone, ModifyDone, AllPushed, IInv, Phases
    <3> DEFINE o == Cleared(work)
    <3>2. o \in Objects /\ o.vals = work.vals /\ o.npus = work.npus
      BY <3>1, IdleCleared
    <3>3. stored' = o \/ stored' = [o EXCEPT !.created = TRUE]
      BY <2>1 DEF CreateDone, ModifyDone
    <3> HIDE DEF o
    <3>4. stored' \in Objects /\ stored'.vals = work.vals /\ stored'.npus = work.npus
      BY <3>2, <3>3 DEF Objects
    <3>5. stored' # NONE
      BY <3>4, NoneAssumption
    <3> QED BY <3>1, <3>4, <3>5 DEF object, commit, Pushable
  <2>2. CASE DeleteDone
    <3>1. gone' /\ txn.op = "delete"
      BY <2>2 DEF DeleteDone, AllPushed
    <3> QED BY <3>1 DEF object, commit
  <2> QED BY <2>1, <2>2
<1>4. holds' = [n \in DOMAIN holds |-> Atomic!Holds(commit.target, n)]
  <2>1. holds' = [n \in Npus \ bad' |-> Expected(n)']
    BY HeldNext DEF Held
  <2>2. DOMAIN holds = Npus \ bad'
    BY <1>0 DEF holds
  <2>3. \A n \in Npus : Atomic!Holds(commit.target, n) = Expected(n)'
    BY <1>3, HoldsObjectNext DEF HoldsAll, Atomic!Holds
  <2> QED BY <2>1, <2>2, <2>3
<1> QED BY <1>1, <1>2, <1>3, <1>4 DEF Atomic!Succeed

\* Every step of the engine and of a request is a step of the atomic commit,
\* or none.
LEMMA NextIsAtomic ==
  ASSUME IInv, IInv', Quiet, [Next]_vars
  PROVE  [Atomic!AtomicNext]_(Atomic!atomicVars)
<1>1. CASE \E n \in Npus : PushCreate(n) \/ PushDelete(n)
  BY <1>1, PushIsAtomic
<1>2. CASE \E a \in Attrs, n \in Npus : PushLeafAttr(a, n)
  BY <1>2, PushIsAtomic
<1>3. CASE RollbackLast
  BY <1>3, RollbackIsAtomic
<1>4. CASE CommitFails
  BY <1>4, FailIsAtomic DEF Atomic!AtomicNext
<1>5. CASE CreateDone \/ ModifyDone \/ DeleteDone
  BY <1>5, SucceedIsAtomic DEF Atomic!AtomicNext
<1>6. ASSUME NEW rb \in BOOLEAN, CommitCreate(rb) \/ CommitModify(rb) \/ CommitDelete(rb)
      PROVE  Atomic!AtomicNext
  BY <1>6, BeginIsAtomic DEF Atomic!AtomicNext
<1>7. CASE EraseObject
  BY <1>7, EditIsAtomic DEF EraseObject
<1>8. CASE \/ StartRequest \/ ResetNpus \/ DropRequest
           \/ \E a \in Attrs, v \in Vals : SetAttr(a, v)
           \/ \E n \in Npus, reset \in BOOLEAN : AddNpu(n, reset)
           \/ \E n \in Npus : SwitchAddNpu(n) \/ RemoveNpu(n)
           \/ \E npus \in NpuLists : SetNpuList(npus)
  <2>1. txn.op = "none" /\ UNCHANGED <<stored, gone, hw, txn, bad>>
    BY <1>8 DEF StartRequest, ResetNpus, DropRequest, SetAttr, AddNpu, SwitchAddNpu,
                RemoveNpu, SetNpuList, CanEdit
  <2> QED BY <2>1, EditIsAtomic
<1>9. CASE UNCHANGED vars
  <2>1. commit' = commit
    BY <1>9, SameCommit DEF vars
  <2> QED BY <1>9, <2>1, SameHeld DEF vars, Atomic!atomicVars
<1> QED BY <1>1, <1>2, <1>3, <1>4, <1>5, <1>6, <1>7, <1>8, <1>9
        DEF Next, CommitStep, Request

\* The commit engine implements atomic commits, for any NPUs, attributes and
\* values: whatever pushes fail, in whatever order, and however often a failed
\* request is edited and retried.
THEOREM RefinesAtomic == Spec => ImplementsAtomic
<1>1. Init => Atomic!AtomicInit
  BY DEF Init, Idle, Atomic!AtomicInit, Atomic!NoCommit, Atomic!Commit,
         object, holds, commit
<1>2. IInv /\ IInv' /\ Quiet /\ [Next]_vars => [Atomic!AtomicNext]_(Atomic!atomicVars)
  BY NextIsAtomic
<1> QED BY <1>1, <1>2, Invariance, QuietInv, PTL DEF Spec, ImplementsAtomic

====
