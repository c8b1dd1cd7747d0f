---------------------------- MODULE SwitchProfile ----------------------------
(***************************************************************************)
(* The boot-time switch options of nas_switch_profile.cpp: switch.xml      *)
(* gives defaults and limits, the startup DB the values an earlier boot    *)
(* saved.  nas_switch_init loads both and rewrites the running DB; while   *)
(* the switch is up, the set functions only change what the next boot      *)
(* should use.  The process may die at any step of this.                   *)
(*                                                                         *)
(* External: nas-l2, which calls a set function and, when it is accepted,  *)
(* puts the value into the running DB (or takes the attribute out of it on *)
(* DELETE); the save of the running DB as startup DB; the CPS DB, where    *)
(* SET changes the attributes given and leaves the others.                 *)
(*                                                                         *)
(* Abstractions: a profile name is a sequence of letters, every other      *)
(* value the number it holds; an object of the DB is the function from     *)
(* options to stored values.  Calls come from one CPS thread and do not    *)
(* overlap.                                                                *)
(***************************************************************************)
EXTENDS Naturals, Sequences

CONSTANTS Images,    \* contents of switch.xml the switch may be upgraded to
          UftRange,  \* BASE_SWITCH_UFT_MODE_MIN..BASE_SWITCH_UFT_MODE_MAX
          GroupSeq,  \* ACL application groups, in the order of switch.xml
          Choices,   \* option -> the values that users ask for
          Removable, \* options whose configuration users delete
          DbMayFail, \* may a read or a commit of the CPS DB fail?
          ABSENT     \* not stored

Scalars == {"profile", "uft", "ecmp", "ipv6", "riot", "rifs", "nhs", "dbm"}
Groups  == {GroupSeq[i] : i \in 1..Len(GroupSeq)}
Opts    == Scalars \cup Groups

ASSUME GroupSeqAssumption == GroupSeq \in Seq(STRING)

ASSUME OptAssumption ==
  /\ Groups \cap Scalars = {}
  /\ DOMAIN Choices \subseteq Opts /\ Removable \subseteq Opts \ {"dbm"}
  /\ \A o \in DOMAIN Choices \ {"profile"} : Choices[o] \subseteq Nat
  /\ DbMayFail \in BOOLEAN

ASSUME ImageAssumption ==
  \A i \in Images :
    /\ i.broken \in BOOLEAN /\ i.ipv6Req \in BOOLEAN /\ i.dbmReq \in BOOLEAN
    /\ i.aclValid \in BOOLEAN
    /\ i.rifBlk \in Nat /\ i.nhBlk \in Nat
    /\ DOMAIN i.def = Opts
    /\ \A o \in Opts \ {"profile"} : i.def[o] \in Nat

ASSUME AbsentAssumption ==
  ABSENT \notin Nat /\ \A i \in Images : ABSENT \notin i.profiles

VARIABLES image,           \* the switch.xml installed
          pc,              \* how far nas_switch_init has come
          failed,          \* set by _fn_switch_parser
          def, cur, next,  \* default, current_ and next_boot_ values
          todo,            \* ACL groups still to be put into the running DB
          running, startup,\* the two CPS databases
          unput            \* history: groups that this boot failed to put
                           \* and that nobody has set since

vars == <<image, pc, failed, def, cur, next, todo, running, startup, unput>>
info == <<def, cur, next>>

Zero == [o \in Opts |-> IF o = "profile" THEN <<>> ELSE 0]
NoDb == [o \in Opts |-> ABSENT]

\* what a struct field keeps of a value: bool and uint8_t members
AsHeld(o, v) ==
  CASE o \in {"riot", "dbm"} -> IF v = 0 THEN 0 ELSE 1
    [] o \in Groups          -> v % 256
    [] OTHER                 -> v

Init ==
  /\ image \in Images
  /\ pc = "off" /\ failed = FALSE /\ todo = <<>>
  /\ def = Zero /\ cur = Zero /\ next = Zero
  /\ running = NoDb /\ startup = NoDb
  /\ unput = {}

-----------------------------------------------------------------------------
(* switch.xml *)

\* modes out of range are stored as 0
UftModes(i) == i.ufts \cap UftRange

Ipv6Default(i) == IF i.ipv6Req THEN i.def["ipv6"] ELSE 0

VxlanDefault(i, o) == IF i.def["riot"] = 0 THEN 0 ELSE AsHeld(o, i.def[o])

DbmDefault(i) == IF i.dbmReq THEN AsHeld("dbm", i.def["dbm"]) ELSE 0

\* a group without applications ends the parsing before the table is marked
\* valid; the counts left then are read by nobody and are 0 here
AclDefault(i, g) == IF i.aclValid THEN AsHeld(g, i.def[g]) ELSE 0

XmlDefault(i, o) ==
  CASE o \in {"profile", "uft", "ecmp"} -> i.def[o]
    [] o = "ipv6"                       -> Ipv6Default(i)
    [] o \in {"riot", "rifs", "nhs"}    -> VxlanDefault(i, o)
    [] o = "dbm"                        -> DbmDefault(i)
    [] OTHER                            -> AclDefault(i, o)

\* The process starts and reads switch.xml: current values begin as defaults;
\* a file without profiles or UFT modes leaves theirs unset.  A fault in the
\* topology is only remembered; the nodes after the faulty one are skipped, so
\* image.broken stands for a fault in the last node.
LoadXml ==
  /\ pc = "off"
  /\ pc' = "xml"
  /\ failed' = image.broken
  /\ def' = [o \in Opts |-> XmlDefault(image, o)]
  /\ cur' = [o \in Opts |->
               IF \/ o = "profile" /\ image.profiles = {}
                  \/ o = "uft" /\ image.ufts = {}
               THEN Zero[o] ELSE def'[o]]
  /\ next' = [o \in Opts |->
               IF o \in {"ipv6", "dbm"} \cup Groups THEN def'[o] ELSE Zero[o]]
  /\ UNCHANGED <<image, todo, running, startup, unput>>

-----------------------------------------------------------------------------
(* nas_sw_parse_db_and_update *)

\* a failing read looks like an empty DB
Reads == {startup} \cup (IF DbMayFail THEN {NoDb} ELSE {})

\* mutant: an option that is not stored is read all the same
BootedRaw(db, o) == db[o]

\* mutant: a default is left at zero when the option is not stored
BootedNoDefault(db, o) ==
  IF db[o] = ABSENT THEN Zero[o] ELSE AsHeld(o, db[o])

\* The value of a scalar option at the end of the parsing: one test of the
\* riot attribute decides for all three VXLAN options.
Booted(db, o) ==
  IF o \in {"rifs", "nhs"}
  THEN CASE db["riot"] = ABSENT -> def[o]
         [] db["riot"] # ABSENT /\ db[o] = ABSENT -> Zero[o]
         [] OTHER -> db[o]
  ELSE IF db[o] = ABSENT THEN def[o] ELSE AsHeld(o, db[o])

ProfileSupported(name) == name \in image.profiles

\* every current value is written, the profile only when it is supported
Written(values) ==
  [o \in Opts |->
     IF o \in Groups \/ (o = "profile" /\ ~ProfileSupported(values[o]))
     THEN running[o] ELSE values[o]]

ParseDb ==
  /\ pc = "xml"
  /\ \E db \in Reads :
       next' = [o \in Opts |-> IF o \in Scalars THEN Booted(db, o) ELSE next[o]]
  /\ cur' = [o \in Opts |-> IF o \in Scalars THEN next'[o] ELSE cur[o]]
  /\ \/ /\ running' = Written(next')
        /\ pc' = "acl"
     \/ /\ DbMayFail
        /\ pc' = "down"          \* nas_switch_init fails
        /\ UNCHANGED running
  /\ UNCHANGED <<image, failed, def, todo, startup, unput>>

\* the count of an ACL group after nas_sw_acl_profile_parse_db_and_update
AclBooted(db, g) == IF db[g] = ABSENT THEN def[g] ELSE AsHeld(g, db[g])

ParseAclDb ==
  /\ pc = "acl"
  /\ \/ /\ image.aclValid
        /\ \E db \in Reads :
             next' = [o \in Opts |-> IF o \in Groups THEN AclBooted(db, o) ELSE next[o]]
        /\ cur' = [o \in Opts |-> IF o \in Groups THEN next'[o] ELSE cur[o]]
        /\ todo' = GroupSeq
     \/ /\ ~image.aclValid
        /\ UNCHANGED <<cur, next, todo>>
  /\ pc' = "put"
  /\ UNCHANGED <<image, failed, def, running, startup, unput>>

\* mutant: the loop ends before the last group
PutAclGroupMissesLast ==
  /\ pc = "put" /\ todo # <<>>
  /\ running' = IF Len(todo) = 1 THEN running
                ELSE [running EXCEPT ![Head(todo)] = next[Head(todo)]]
  /\ todo' = Tail(todo)
  /\ UNCHANGED <<image, pc, failed, def, cur, next, startup, unput>>

\* the next group goes into the running DB; a failure ends the loop
PutAclGroup ==
  /\ pc = "put" /\ todo # <<>>
  /\ \/ /\ running' = [running EXCEPT ![Head(todo)] = next[Head(todo)]]
        /\ todo' = Tail(todo)
        /\ UNCHANGED unput
     \/ /\ DbMayFail
        /\ todo' = <<>>
        /\ unput' = {todo[i] : i \in 1..Len(todo)}
        /\ UNCHANGED running
  /\ UNCHANGED <<image, pc, failed, def, cur, next, startup>>

\* the result of the loop is not looked at, nor is failed
InitDone ==
  /\ pc = "put" /\ todo = <<>>
  /\ pc' = "up"
  /\ UNCHANGED <<image, failed, def, cur, next, todo, running, startup, unput>>

-----------------------------------------------------------------------------
(* The set functions *)

EcmpSupported(v) == v >= 2 /\ v <= 1024

UftSupported(v) == v \in UftModes(image)

\* an ACL group of a stage with at most one pool is not configurable
AclConfigSupported(g) == image.aclValid /\ image.pools[g] > 1

InBlocks(v, block) == block # 0 /\ v % block = 0

\* a block size of 0 is divided by: the process dies, which Crash covers
Ipv6Valid(v) == v <= image.ipv6Max /\ InBlocks(v, image.ipv6Blk)

\* an accepted call: next boot value, and nas-l2's update of the running DB
Accept(o, held, stored) ==
  /\ next' = [next EXCEPT ![o] = held]
  /\ running' = [running EXCEPT ![o] = stored]
  /\ unput' = unput \ {o}
  /\ UNCHANGED <<image, pc, failed, def, cur, todo, startup>>

SetTo(o, v) == Accept(o, AsHeld(o, v), v)

\* mutant: a delete leaves the next boot value
BackToDefaultForgets(o) == Accept(o, next[o], ABSENT)

BackToDefault(o) == Accept(o, def[o], ABSENT)

\* op is SET with a value, or DELETE
Asks(o, op, v) ==
  /\ pc = "up"
  /\ \/ op = "SET" /\ o \in DOMAIN Choices /\ v \in Choices[o]
     \/ op = "DELETE" /\ o \in Removable

\* mutant: the value is not validated
ChangeUnchecked(o, op, v, valid) ==
  \/ op = "DELETE" /\ BackToDefault(o)
  \/ op = "SET" /\ SetTo(o, v)

Change(o, op, v, valid) ==
  \/ op = "DELETE" /\ BackToDefault(o)
  \/ op = "SET" /\ valid /\ SetTo(o, v)

ConfProfileSet(op, v) ==
  Asks("profile", op, v) /\ Change("profile", op, v, ProfileSupported(v))

ConfUftSet(op, v) == Asks("uft", op, v) /\ Change("uft", op, v, UftSupported(v))

ConfMaxEcmpPerGrpSet(op, v) ==
  Asks("ecmp", op, v) /\ Change("ecmp", op, v, EcmpSupported(v))

ConfIpv6ExtPrefixRoutesSet(op, v) ==
  /\ Asks("ipv6", op, v) /\ image.ipv6Req
  /\ Change("ipv6", op, v, Ipv6Valid(v))

VxlanRiotStatusSet(op, v) ==
  Asks("riot", op, v) /\ def["riot"] # 0 /\ Change("riot", op, v, TRUE)

MaxVxlanOverlayRifsSet(op, v) ==
  /\ Asks("rifs", op, v) /\ def["riot"] # 0 /\ image.rifBlk # 0
  /\ Change("rifs", op, v, InBlocks(v, image.rifBlk))

MaxVxlanOverlayNhsSet(op, v) ==
  /\ Asks("nhs", op, v) /\ def["riot"] # 0 /\ image.nhBlk # 0
  /\ Change("nhs", op, v, InBlocks(v, image.nhBlk))

ConfDeepBufferModeSet(v) == Asks("dbm", "SET", v) /\ image.dbmReq /\ SetTo("dbm", v)

AclAppGroupInfoSet(g, op, v) ==
  Asks(g, op, v) /\ AclConfigSupported(g) /\ Change(g, op, v, TRUE)

-----------------------------------------------------------------------------
(* The world around *)

Save ==
  /\ pc = "up"
  /\ startup' = running
  /\ UNCHANGED <<image, pc, failed, info, todo, running, unput>>

\* startup.xml gets deleted
EraseStartup ==
  /\ pc \in {"off", "up"}
  /\ startup' = NoDb
  /\ UNCHANGED <<image, pc, failed, info, todo, running, unput>>

\* the process dies; the running DB outlives it unless the switch reboots
Crash ==
  /\ pc # "off"
  /\ pc' = "off" /\ failed' = FALSE /\ todo' = <<>>
  /\ def' = Zero /\ cur' = Zero /\ next' = Zero
  /\ running' \in {running, NoDb}
  /\ unput' = {}
  /\ UNCHANGED <<image, startup>>

Upgrade(i) ==
  /\ pc = "off" /\ i # image
  /\ image' = i
  /\ UNCHANGED <<pc, failed, info, todo, running, startup, unput>>

-----------------------------------------------------------------------------

BootStep == LoadXml \/ ParseDb \/ ParseAclDb \/ PutAclGroup \/ InitDone

AllChoices(o) == IF o \in DOMAIN Choices THEN Choices[o] ELSE {}

SetCall ==
  \E op \in {"SET", "DELETE"} :
    \/ \E v \in AllChoices("profile") : ConfProfileSet(op, v)
    \/ \E v \in AllChoices("uft") : ConfUftSet(op, v)
    \/ \E v \in AllChoices("ecmp") : ConfMaxEcmpPerGrpSet(op, v)
    \/ \E v \in AllChoices("ipv6") : ConfIpv6ExtPrefixRoutesSet(op, v)
    \/ \E v \in AllChoices("riot") : VxlanRiotStatusSet(op, v)
    \/ \E v \in AllChoices("rifs") : MaxVxlanOverlayRifsSet(op, v)
    \/ \E v \in AllChoices("nhs") : MaxVxlanOverlayNhsSet(op, v)
    \/ \E g \in Groups : \E v \in AllChoices(g) : AclAppGroupInfoSet(g, op, v)

Next ==
  \/ BootStep \/ SetCall
  \/ \E v \in AllChoices("dbm") : ConfDeepBufferModeSet(v)
  \/ Save \/ EraseStartup \/ Crash
  \/ \E i \in Images : Upgrade(i)

Spec == Init /\ [][Next]_vars

-----------------------------------------------------------------------------
(* What the get functions of the configured values answer *)

Stored(o) == IF startup[o] = ABSENT THEN def[o] ELSE AsHeld(o, startup[o])

\* the name from the DB is copied with the length of the default's buffer use
ConfProfileGet ==
  IF startup["profile"] = ABSENT THEN def["profile"]
  ELSE LET n == startup["profile"]
           l == Len(def["profile"])
       IN SubSeq(n, 1, IF Len(n) < l THEN Len(n) ELSE l)

ConfUftGet == Stored("uft")

ConfMaxEcmpPerGrpGet == Stored("ecmp")

ConfIpv6ExtPrefixRoutesGet == Stored("ipv6")

ConfDeepBufferModeGet == Stored("dbm")

-----------------------------------------------------------------------------
(* Properties *)

\* Every variable has its type.
TypeOK ==
  /\ image \in Images
  /\ pc \in {"off", "xml", "acl", "put", "up", "down"}
  /\ failed \in BOOLEAN
  /\ \A f \in {def, cur, next} :
       /\ DOMAIN f = Opts
       /\ \A o \in Opts \ {"profile"} : f[o] \in Nat
  /\ \A g \in Groups : cur[g] < 256 /\ next[g] < 256
  /\ DOMAIN running = Opts /\ DOMAIN startup = Opts

\* The values the next boot would find in db.
AtBoot(db, o) == IF o \in Groups THEN AclBooted(db, o) ELSE Booted(db, o)

\* The options of which the running DB can tell: a group only with an ACL
\* profile and when the boot managed to put it, the switch profile only when
\* the release has profiles, the VXLAN sizes only while neither they nor the
\* riot status were deleted.
Recorded(o) ==
  /\ o = "profile" => image.profiles # {}
  /\ o \in Groups => image.aclValid /\ o \notin unput
  /\ o \in {"rifs", "nhs"} => running["riot"] # ABSENT /\ running[o] # ABSENT

\* While the switch is up, the next_boot_ values in memory are those that a
\* boot would come up with if the running DB were saved now: whatever was
\* set, deleted, saved, lost in a crash or left stale in the DB, memory and
\* DB say the same.
NextBootTruth ==
  pc = "up" => \A o \in Opts : Recorded(o) => next[o] = AtBoot(running, o)

\* Each configured-value getter answers what the next boot will make current
\* ("effective on next boot").
ConfiguredIsNext ==
  pc = "up" =>
    /\ image.profiles # {} => ConfProfileGet = AtBoot(startup, "profile")
    /\ image.ufts # {} => ConfUftGet = AtBoot(startup, "uft")
    /\ ConfMaxEcmpPerGrpGet = AtBoot(startup, "ecmp")
    /\ image.ipv6Req => ConfIpv6ExtPrefixRoutesGet = AtBoot(startup, "ipv6")
    /\ image.dbmReq => ConfDeepBufferModeGet = AtBoot(startup, "dbm")

\* No sequence of sets, saves, crashes and boots makes a value current that
\* is neither the default nor one the set function accepts.
CurrentSupported ==
  pc = "up" =>
    /\ cur["profile"] = def["profile"] \/ ProfileSupported(cur["profile"])
    /\ cur["uft"] = def["uft"] \/ UftSupported(cur["uft"])
    /\ cur["ecmp"] = def["ecmp"] \/ EcmpSupported(cur["ecmp"])
    /\ cur["ipv6"] = def["ipv6"] \/ Ipv6Valid(cur["ipv6"])
    /\ cur["rifs"] = def["rifs"] \/ InBlocks(cur["rifs"], image.rifBlk)
    /\ cur["nhs"] = def["nhs"] \/ InBlocks(cur["nhs"], image.nhBlk)

\* "the switch init failure will cause the calling process to exit": the
\* switch does not come up with a topology that failed to parse.
InitFailureReported == pc = "up" => ~failed

=============================================================================
