----------------------------- MODULE ProfileWalk -----------------------------
(***************************************************************************)
(* Two tables that are filled from switch.xml and enumerated by nas-ndi    *)
(* with get-next functions (nas_switch_profile.cpp): the key-value pairs   *)
(* of the NPU profile, in a std::map, and the ACL application groups, in   *)
(* an array with one element per pool.  A caller passes the key it was     *)
(* given last; an empty key or a null pointer asks for the first entry.    *)
(*                                                                         *)
(* Abstractions: an NPU key is its place in the order of the map.  An      *)
(* attribute that is missing or too long is SKIP.  Pool counts are those   *)
(* of switch.xml; how a boot changes them is in SwitchProfile.  A file has *)
(* no more groups than pools and does not use the empty key, and groups    *)
(* have different names.                                                   *)
(***************************************************************************)
EXTENDS Naturals, SequencesExt

CONSTANTS NpuFiles,       \* sequences of nodes [id, value]
          AclFiles,       \* sequences of groups [name, pools, apps]
          AclPools,       \* sums of max_pool_avail: lengths of the array
          SKIP, EMPTY     \* EMPTY is "", the name of a calloc'ed element

ASSUME ProfileAssumption ==
  /\ EMPTY \notin Nat /\ AclPools \subseteq Nat
  /\ \A f \in NpuFiles :
       /\ f \in Seq({f[i] : i \in 1..Len(f)})
       /\ \A i \in 1..Len(f) : f[i].id \in Nat \cup {SKIP}
  /\ \A f \in AclFiles :
       /\ f \in Seq({f[i] : i \in 1..Len(f)})
       /\ \A i, j \in 1..Len(f) : f[i].name # EMPTY /\ (f[i].name = f[j].name => i = j)

VARIABLES nodes,          \* children of switch_npu_profile not visited yet
          npu_profile_kvpair,
          npuFile,        \* history: all children
          groups,         \* children of switch_acl_profile
          app_group_info, \* the array
          acl_profile_valid,
          npuWalk, aclWalk  \* [at, seen, on]: the last key, the answers

walkTables == <<nodes, npu_profile_kvpair, npuFile, groups, app_group_info,
                acl_profile_valid>>
profileVars == <<walkTables, npuWalk, aclWalk>>

NewWalk == [at |-> EMPTY, seen |-> <<>>, on |-> TRUE]

Calloced == [name |-> EMPTY, pools |-> 0]

ProfileInit ==
  /\ nodes \in NpuFiles /\ npuFile = nodes
  /\ npu_profile_kvpair = <<>>
  /\ groups \in AclFiles
  /\ \E n \in AclPools : /\ Len(groups) <= n /\ (groups = <<>> => n = 0)
                         /\ app_group_info = [i \in 1..n |-> Calloced]
  /\ acl_profile_valid = FALSE
  /\ npuWalk = NewWalk /\ aclWalk = NewWalk

-----------------------------------------------------------------------------
(* Loading *)

\* mutant: a key that is given again keeps its first value
StorePairOnce(key, value) ==
  [k \in DOMAIN npu_profile_kvpair \cup {key} |->
     IF k \in DOMAIN npu_profile_kvpair THEN npu_profile_kvpair[k] ELSE value]

StorePair(key, value) ==
  [k \in DOMAIN npu_profile_kvpair \cup {key} |->
     IF k = key THEN value ELSE npu_profile_kvpair[k]]

\* a node without both attributes, or with a long one, is skipped
UpdateNpuProfileInfo ==
  LET node == Head(nodes) IN
  /\ nodes # <<>>
  /\ nodes' = Tail(nodes)
  /\ npu_profile_kvpair' = IF node.id = SKIP \/ node.value = SKIP
                           THEN npu_profile_kvpair
                           ELSE StorePair(node.id, node.value)
  /\ UNCHANGED <<npuFile, groups, app_group_info, acl_profile_valid, npuWalk, aclWalk>>

\* a group without applications ends the loading, when it is in the array
FirstBad(gs) ==
  IF \E i \in 1..Len(gs) : gs[i].apps = 0
  THEN Min({i \in 1..Len(gs) : gs[i].apps = 0}) ELSE Len(gs)

UpdateAclProfileInfo ==
  /\ groups # <<>>
  /\ app_group_info' = [i \in 1..Len(app_group_info) |->
                          IF i <= FirstBad(groups)
                          THEN [name |-> groups[i].name, pools |-> groups[i].pools]
                          ELSE app_group_info[i]]
  /\ acl_profile_valid' = \A i \in 1..Len(groups) : groups[i].apps # 0
  /\ groups' = <<>>
  /\ UNCHANGED <<nodes, npu_profile_kvpair, npuFile, npuWalk, aclWalk>>

Loaded == nodes = <<>> /\ groups = <<>>

-----------------------------------------------------------------------------
(* Enumerating *)

Answered(walk, key, answer) ==
  [at |-> key, seen |-> Append(walk.seen, answer), on |-> TRUE]

\* begin() for the empty key, find(key) and ++ otherwise
KeysAfter(key) ==
  {k \in DOMAIN npu_profile_kvpair :
     key = EMPTY \/ (key \in DOMAIN npu_profile_kvpair /\ k > key)}

NpuProfileGetNextValue ==
  LET keys == KeysAfter(npuWalk.at) IN
  /\ Loaded /\ npuWalk.on
  /\ npuWalk' = IF keys = {} THEN [npuWalk EXCEPT !.on = FALSE]
                ELSE Answered(npuWalk, Min(keys),
                              <<Min(keys), npu_profile_kvpair[Min(keys)]>>)
  /\ UNCHANGED <<walkTables, aclWalk>>

\* mutant: the index of the element found is not advanced
NextIndexSame ==
  IF aclWalk.seen = <<>> THEN 1
  ELSE Min({i \in 1..Len(app_group_info) : app_group_info[i].name = aclWalk.at})

\* the element after the FIRST one with the name; a null pointer stands at
\* the beginning of a walk
NextIndex ==
  IF aclWalk.seen = <<>> THEN 1
  ELSE 1 + Min({i \in 1..Len(app_group_info) : app_group_info[i].name = aclWalk.at})

AclProfileDbGetNext ==
  /\ Loaded /\ aclWalk.on
  /\ Len(aclWalk.seen) <= Len(app_group_info)     \* bounds a walk without an end
  /\ aclWalk' = IF NextIndex > Len(app_group_info) THEN [aclWalk EXCEPT !.on = FALSE]
                ELSE Answered(aclWalk, app_group_info[NextIndex].name,
                              app_group_info[NextIndex])
  /\ UNCHANGED <<walkTables, npuWalk>>

AclProfileNumDbGet == IF acl_profile_valid THEN Len(app_group_info) ELSE 0

GetNext == NpuProfileGetNextValue \/ AclProfileDbGetNext

ProfileNext == UpdateNpuProfileInfo \/ UpdateAclProfileInfo \/ GetNext

ProfileSpec == ProfileInit /\ [][ProfileNext]_profileVars

-----------------------------------------------------------------------------
(* Properties *)

Complete(node) == node.id # SKIP /\ node.value # SKIP

\* positions of the last complete node of each key
LastNodes ==
  {i \in 1..Len(npuFile) :
     /\ Complete(npuFile[i])
     /\ \A j \in (i + 1)..Len(npuFile) : Complete(npuFile[j]) => npuFile[j].id # npuFile[i].id}

\* An enumeration of the NPU profile that has ended gave each key of
\* switch.xml once, with the last of its values, whichever nodes were
\* skipped.
NpuWalkIsFile ==
  ~npuWalk.on =>
    /\ Range(npuWalk.seen) = {<<npuFile[i].id, npuFile[i].value>> : i \in LastNodes}
    /\ Len(npuWalk.seen) = Cardinality(LastNodes)

\* A caller that counts to nas_sw_acl_profile_num_db_get sees every ACL group
\* with its own pool count: so many answers are the array in order, and no
\* enumeration ends before.
AclWalkIsArray ==
  /\ \A i \in 1..Len(aclWalk.seen) :
       i <= AclProfileNumDbGet => aclWalk.seen[i] = app_group_info[i]
  /\ ~aclWalk.on => Len(aclWalk.seen) >= AclProfileNumDbGet

TwoUnused == Cardinality({i \in 1..Len(app_group_info) : app_group_info[i].name = EMPTY}) > 1

\* An enumeration that was begun ends, after which nas-ndi has its
\* configuration; only with two or more pools that no group uses, whose
\* elements have the same empty name, the one of the ACL groups repeats its
\* last answer for ever.
WalksEnd ==
  /\ npuWalk.seen # <<>> ~> ~npuWalk.on
  /\ aclWalk.seen # <<>> ~> ~aclWalk.on \/ TwoUnused

=============================================================================
