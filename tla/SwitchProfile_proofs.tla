------------------------ MODULE SwitchProfile_proofs ------------------------
(***************************************************************************)
(* Proofs about the boot-time switch options, for any releases (Images),   *)
(* ACL groups and requested values.                                        *)
(***************************************************************************)
EXTENDS SwitchProfile, SequenceTheorems, TLAPS

-----------------------------------------------------------------------------
(* Values *)

\* Cutting a value to the width of its field a second time changes nothing.
LEMMA Held ==
  ASSUME NEW o \in Opts \ {"profile"}, NEW v \in Nat
  PROVE  /\ AsHeld(o, v) \in Nat
         /\ AsHeld(o, AsHeld(o, v)) = AsHeld(o, v)
         /\ o \in Groups => AsHeld(o, v) < 256 /\ (v < 256 => AsHeld(o, v) = v)
         /\ o \in {"uft", "ecmp", "ipv6", "rifs", "nhs"} => AsHeld(o, v) = v
<1>1. CASE o \in {"riot", "dbm"}
  <2>1. o \notin Groups
    BY <1>1, OptAssumption DEF Scalars
  <2>2. \A x : AsHeld(o, x) = IF x = 0 THEN 0 ELSE 1
    BY <1>1, <2>1 DEF AsHeld
  <2> QED BY <1>1, <2>1, <2>2
<1>2. CASE o \in Groups
  <2>1. o \notin Scalars
    BY <1>2, OptAssumption
  <2>2. \A x : AsHeld(o, x) = x % 256
    BY <1>2, <2>1 DEF AsHeld, Scalars
  <2>3. v % 256 \in 0..255 /\ (v % 256) % 256 = v % 256 /\ (v < 256 => v % 256 = v)
    OBVIOUS
  <2> QED BY <2>1, <2>2, <2>3 DEF Scalars
<1>3. CASE o \notin {"riot", "dbm"} /\ o \notin Groups
  BY <1>3 DEF AsHeld
<1> QED BY <1>1, <1>2, <1>3

\* A profile name is stored as it is.
LEMMA HeldName == \A v : AsHeld("profile", v) = v
BY OptAssumption DEF AsHeld, Scalars

\* An option is a scalar or an ACL group.
LEMMA OptKinds ==
  /\ Scalars \cap Groups = {} /\ Scalars \subseteq Opts /\ Groups \subseteq Opts
  /\ "profile" \in Scalars /\ "riot" \in Scalars
  /\ \A o \in Opts : o \in Scalars <=> o \notin Groups
BY OptAssumption DEF Opts, Scalars

\* The defaults of a release are values of the fields.
LEMMA Defaults ==
  ASSUME NEW i \in Images, NEW o \in Opts \ {"profile"}
  PROVE  /\ XmlDefault(i, o) \in Nat
         /\ o \in Groups => XmlDefault(i, o) < 256
         /\ o \in {"riot", "dbm"} => AsHeld(o, XmlDefault(i, o)) = XmlDefault(i, o)
<1>1. i.def[o] \in Nat
  BY ImageAssumption
<1>2. CASE o \in {"uft", "ecmp"}
  BY <1>1, <1>2, OptKinds DEF XmlDefault, Scalars
<1>3. CASE o = "ipv6"
  BY <1>1, <1>3, OptKinds DEF XmlDefault, Ipv6Default, Scalars
<1>4. CASE o \in {"riot", "rifs", "nhs"}
  <2>1. XmlDefault(i, o) \in {0, AsHeld(o, i.def[o])}
    BY <1>4 DEF XmlDefault, VxlanDefault
  <2>2. AsHeld(o, 0) = 0 /\ o \notin Groups
    BY <1>4, OptKinds DEF AsHeld, Scalars
  <2> QED BY <1>1, <2>1, <2>2, Held
<1>5. CASE o = "dbm"
  <2>1. XmlDefault(i, o) \in {0, AsHeld(o, i.def[o])}
    BY <1>5 DEF XmlDefault, DbmDefault
  <2>2. AsHeld(o, 0) = 0 /\ o \notin Groups
    BY <1>5, OptKinds DEF AsHeld, Scalars
  <2> QED BY <1>1, <2>1, <2>2, Held
<1>6. CASE o \in Groups
  <2>1. XmlDefault(i, o) = AclDefault(i, o) /\ o \notin {"riot", "dbm"}
    BY <1>6, OptKinds DEF XmlDefault, Scalars
  <2>2. XmlDefault(i, o) \in {0, AsHeld(o, i.def[o])}
    BY <2>1 DEF AclDefault
  <2> QED BY <1>1, <1>6, <2>1, <2>2, Held
<1> QED BY <1>2, <1>3, <1>4, <1>5, <1>6 DEF Opts, Scalars

-----------------------------------------------------------------------------
(* The types, and where the defaults come from *)

Db(db) ==
  /\ DOMAIN db = Opts
  /\ \A o \in Opts \ {"profile"} : db[o] \in Nat \cup {ABSENT}

Base ==
  /\ TypeOK /\ Db(running) /\ Db(startup)
  /\ todo \in Seq(Groups)
  /\ pc # "off" => \A o \in Opts : def[o] = XmlDefault(image, o)

\* The values kept in memory, one field at a time.
LEMMA Memory ==
  ASSUME Base, NEW o \in Opts \ {"profile"}
  PROVE  /\ def[o] \in Nat /\ cur[o] \in Nat /\ next[o] \in Nat
         /\ o \in Groups => cur[o] < 256 /\ next[o] < 256
BY DEF Base, TypeOK

\* What a boot reads of a database.
LEMMA BootedType ==
  ASSUME Base, NEW db, Db(db), NEW o \in Opts \ {"profile"}
  PROVE  /\ o \in Scalars => Booted(db, o) \in Nat
         /\ o \in Groups /\ pc # "off" => AclBooted(db, o) \in Nat /\ AclBooted(db, o) < 256
<1>1. def[o] \in Nat /\ Zero[o] \in Nat /\ db[o] \in Nat \cup {ABSENT}
  BY Memory DEF Db, Zero
<1>2. db[o] # ABSENT => AsHeld(o, db[o]) \in Nat /\ (o \in Groups => AsHeld(o, db[o]) < 256)
  BY <1>1, Held
<1>3. o \in Groups /\ pc # "off" => def[o] < 256
  BY Defaults DEF Base, TypeOK
<1>4. o \in Scalars => Booted(db, o) \in Nat
  <2>1. CASE o \in {"rifs", "nhs"}
    BY <1>1, <2>1 DEF Booted
  <2>2. CASE o \notin {"rifs", "nhs"}
    BY <1>1, <1>2, <2>2 DEF Booted
  <2> QED BY <2>1, <2>2
<1>5. o \in Groups /\ pc # "off" => AclBooted(db, o) \in Nat /\ AclBooted(db, o) < 256
  BY <1>1, <1>2, <1>3 DEF AclBooted
<1> QED BY <1>4, <1>5

\* A read of the startup DB gives its contents, or nothing.
LEMMA ReadTypes ==
  ASSUME Base, NEW db \in Reads
  PROVE  Db(db) /\ (db = startup \/ db = NoDb)
BY DEF Reads, Db, NoDb, Base

\* A call of one of the set functions that is accepted, whichever it is: the
\* default comes back, or a value of the right kind is set.
Changed(o) ==
  /\ pc = "up" /\ o \in Opts
  /\ o = "rifs" => image.rifBlk # 0
  /\ o = "nhs" => image.nhBlk # 0
  /\ \/ BackToDefault(o)
     \/ \E v : /\ SetTo(o, v) /\ v \in AllChoices(o)
               /\ o # "profile" => v \in Nat
               /\ o = "profile" => ProfileSupported(v)
               /\ o = "uft" => UftSupported(v)
               /\ o = "ecmp" => EcmpSupported(v)
               /\ o = "ipv6" => Ipv6Valid(v)
               /\ o = "rifs" => InBlocks(v, image.rifBlk)
               /\ o = "nhs" => InBlocks(v, image.nhBlk)

\* Every set function validates its own option.
LEMMA SetCalls ==
  ASSUME Base, SetCall \/ \E v \in AllChoices("dbm") : ConfDeepBufferModeSet(v)
  PROVE  \E o \in Opts : Changed(o)
<1>0. \A o \in DOMAIN Choices \ {"profile"} : Choices[o] \subseteq Nat
  BY OptAssumption
<1>1. ASSUME NEW op \in {"SET", "DELETE"}, NEW v, ConfProfileSet(op, v)
      PROVE  Changed("profile")
  BY <1>1, OptKinds DEF ConfProfileSet, Asks, Change, Changed, AllChoices
<1>2. ASSUME NEW op \in {"SET", "DELETE"}, NEW v, ConfUftSet(op, v)
      PROVE  Changed("uft")
  BY <1>0, <1>2 DEF ConfUftSet, Asks, Change, Changed, AllChoices, Opts, Scalars
<1>3. ASSUME NEW op \in {"SET", "DELETE"}, NEW v, ConfMaxEcmpPerGrpSet(op, v)
      PROVE  Changed("ecmp")
  BY <1>0, <1>3 DEF ConfMaxEcmpPerGrpSet, Asks, Change, Changed, AllChoices, Opts, Scalars
<1>4. ASSUME NEW op \in {"SET", "DELETE"}, NEW v, ConfIpv6ExtPrefixRoutesSet(op, v)
      PROVE  Changed("ipv6")
  BY <1>0, <1>4
     DEF ConfIpv6ExtPrefixRoutesSet, Asks, Change, Changed, AllChoices, Opts, Scalars
<1>5. ASSUME NEW op \in {"SET", "DELETE"}, NEW v, VxlanRiotStatusSet(op, v)
      PROVE  Changed("riot")
  BY <1>0, <1>5 DEF VxlanRiotStatusSet, Asks, Change, Changed, AllChoices, Opts, Scalars
<1>6. ASSUME NEW op \in {"SET", "DELETE"}, NEW v, MaxVxlanOverlayRifsSet(op, v)
      PROVE  Changed("rifs")
  BY <1>0, <1>6
     DEF MaxVxlanOverlayRifsSet, Asks, Change, Changed, AllChoices, Opts, Scalars
<1>7. ASSUME NEW op \in {"SET", "DELETE"}, NEW v, MaxVxlanOverlayNhsSet(op, v)
      PROVE  Changed("nhs")
  BY <1>0, <1>7
     DEF MaxVxlanOverlayNhsSet, Asks, Change, Changed, AllChoices, Opts, Scalars
<1>8. ASSUME NEW op \in {"SET", "DELETE"}, NEW g \in Groups, NEW v,
             AclAppGroupInfoSet(g, op, v)
      PROVE  Changed(g)
  <2>1. g \in Opts /\ g \notin Scalars
    BY OptKinds
  <2>2. g \notin {"profile", "uft", "ecmp", "ipv6", "rifs", "nhs"}
    BY <2>1 DEF Scalars
  <2> QED BY <1>0, <1>8, <2>1, <2>2
          DEF AclAppGroupInfoSet, Asks, Change, Changed, AllChoices
<1>9. ASSUME NEW v, ConfDeepBufferModeSet(v)
      PROVE  Changed("dbm")
  BY <1>0, <1>9 DEF ConfDeepBufferModeSet, Asks, Changed, AllChoices, Opts, Scalars
<1>10. \A o : Changed(o) => o \in Opts
  BY DEF Changed
<1> QED BY <1>1, <1>2, <1>3, <1>4, <1>5, <1>6, <1>7, <1>8, <1>9, <1>10 DEF SetCall

\* The values of memory and of the running DB after an accepted call.
LEMMA ChangedValues ==
  ASSUME Base, NEW o \in Opts, Changed(o)
  PROVE  /\ UNCHANGED <<image, pc, failed, def, cur, todo, startup>>
         /\ unput' = unput \ {o}
         /\ DOMAIN next' = Opts /\ DOMAIN running' = Opts
         /\ \A p \in Opts \ {o} : next'[p] = next[p] /\ running'[p] = running[p]
         /\ \/ next'[o] = def[o] /\ running'[o] = ABSENT
            \/ /\ running'[o] # ABSENT /\ next'[o] = AsHeld(o, running'[o])
               /\ running'[o] \in AllChoices(o)
               /\ o # "profile" => running'[o] \in Nat
               /\ o = "profile" => ProfileSupported(running'[o])
               /\ o = "uft" => UftSupported(running'[o])
               /\ o = "ecmp" => EcmpSupported(running'[o])
               /\ o = "ipv6" => Ipv6Valid(running'[o])
               /\ o = "rifs" => InBlocks(running'[o], image.rifBlk)
               /\ o = "nhs" => InBlocks(running'[o], image.nhBlk)
<1>1. DOMAIN next = Opts /\ DOMAIN running = Opts
  BY DEF Base, TypeOK
<1>2. CASE BackToDefault(o)
  BY <1>1, <1>2 DEF BackToDefault, Accept
<1>3. ASSUME NEW v \in AllChoices(o), SetTo(o, v),
             o # "profile" => v \in Nat,
             o = "profile" => ProfileSupported(v),
             o = "uft" => UftSupported(v), o = "ecmp" => EcmpSupported(v),
             o = "ipv6" => Ipv6Valid(v),
             o = "rifs" => InBlocks(v, image.rifBlk),
             o = "nhs" => InBlocks(v, image.nhBlk)
      PROVE  /\ UNCHANGED <<image, pc, failed, def, cur, todo, startup>>
             /\ unput' = unput \ {o}
             /\ DOMAIN next' = Opts /\ DOMAIN running' = Opts
             /\ \A p \in Opts \ {o} : next'[p] = next[p] /\ running'[p] = running[p]
             /\ running'[o] = v /\ v # ABSENT /\ next'[o] = AsHeld(o, v)
  <2>1. v # ABSENT
    BY <1>3, AbsentAssumption DEF ProfileSupported, Base, TypeOK
  <2> QED BY <1>1, <1>3, <2>1 DEF SetTo, Accept
<1> QED BY <1>2, <1>3 DEF Changed

\* A call of a set function keeps the types.
LEMMA ChangedBase ==
  ASSUME Base, NEW o \in Opts, Changed(o)
  PROVE  Base'
<1>1. /\ UNCHANGED <<image, pc, failed, def, cur, todo, startup>>
      /\ DOMAIN next' = Opts /\ DOMAIN running' = Opts
      /\ \A p \in Opts \ {o} : next'[p] = next[p] /\ running'[p] = running[p]
      /\ \/ next'[o] = def[o] /\ running'[o] = ABSENT
         \/ /\ next'[o] = AsHeld(o, running'[o])
            /\ o # "profile" => running'[o] \in Nat
  BY ChangedValues
<1>2. pc = "up"
  BY DEF Changed
<1>3. o # "profile" => next'[o] \in Nat /\ (o \in Groups => next'[o] < 256)
  BY <1>1, <1>2, Held, Defaults, Memory DEF Base, TypeOK
<1>4. \A p \in Opts \ {"profile"} : next'[p] \in Nat /\ (p \in Groups => next'[p] < 256)
  BY <1>1, <1>3, Memory
<1>5. Groups \subseteq Opts /\ "profile" \notin Groups
  BY OptKinds
<1>6. TypeOK'
  BY <1>1, <1>4, <1>5 DEF Base, TypeOK
<1>7. Db(running)' /\ Db(startup)'
  BY <1>1 DEF Base, Db
<1> QED BY <1>1, <1>6, <1>7 DEF Base

\* Reading switch.xml.
LEMMA LoadXmlBase ==
  ASSUME Base, LoadXml
  PROVE  Base'
<1>1. \A o \in Opts : def'[o] = XmlDefault(image, o)
  BY DEF LoadXml
<1>2. image \in Images /\ UNCHANGED <<image, todo, running, startup>>
      /\ DOMAIN def' = Opts /\ DOMAIN cur' = Opts /\ DOMAIN next' = Opts
      /\ pc' = "xml" /\ failed' = image.broken
  BY DEF LoadXml, Base, TypeOK
<1>3. ASSUME NEW o \in Opts \ {"profile"}
      PROVE  /\ def'[o] \in Nat /\ cur'[o] \in Nat /\ next'[o] \in Nat
             /\ o \in Groups => cur'[o] < 256 /\ next'[o] < 256
  <2>1. def'[o] \in Nat /\ (o \in Groups => def'[o] < 256) /\ Zero[o] = 0
    BY <1>1, <1>2, Defaults DEF Zero
  <2>2. cur'[o] \in {Zero[o], def'[o]} /\ next'[o] \in {Zero[o], def'[o]}
    BY DEF LoadXml
  <2> QED BY <2>1, <2>2
<1>4. TypeOK'
  <2>1. Groups \subseteq Opts \ {"profile"} /\ failed' \in BOOLEAN
    BY <1>2, OptKinds, ImageAssumption
  <2> QED BY <1>2, <1>3, <2>1 DEF TypeOK, Base
<1> QED BY <1>1, <1>2, <1>4 DEF Base, Db

\* The two steps that read the startup DB.
LEMMA ParseBase ==
  ASSUME Base, ParseDb \/ ParseAclDb
  PROVE  Base'
<1>0. image \in Images /\ Groups \subseteq Opts \ {"profile"}
  BY OptKinds DEF Base, TypeOK
<1>1. CASE ParseDb
  <2>1. PICK db \in Reads :
          next' = [o \in Opts |-> IF o \in Scalars THEN Booted(db, o) ELSE next[o]]
    BY <1>1 DEF ParseDb
  <2>2. Db(db)
    BY ReadTypes
  <2>3. /\ cur' = [o \in Opts |-> IF o \in Scalars THEN next'[o] ELSE cur[o]]
        /\ UNCHANGED <<image, failed, def, todo, startup>>
        /\ pc = "xml" /\ pc' \in {"acl", "down"}
        /\ running' = Written(next') \/ running' = running
    BY <1>1 DEF ParseDb
  <2>4. ASSUME NEW o \in Opts \ {"profile"}
        PROVE  /\ cur'[o] \in Nat /\ next'[o] \in Nat
               /\ o \in Groups => cur'[o] < 256 /\ next'[o] < 256
    BY <2>1, <2>2, <2>3, BootedType, Memory, OptKinds
  <2>5. TypeOK'
    <3>1. DOMAIN running' = Opts
      BY <2>3 DEF Written, Base, TypeOK
    <3> QED BY <1>0, <2>1, <2>3, <2>4, <3>1 DEF Base, TypeOK
  <2>6. Db(running)'
    BY <2>3, <2>4 DEF Written, Base, Db
  <2> QED BY <2>3, <2>5, <2>6 DEF Base
<1>2. CASE ParseAclDb
  <2>1. /\ UNCHANGED <<image, failed, def, running, startup>>
        /\ pc = "acl" /\ pc' = "put"
    BY <1>2 DEF ParseAclDb
  <2>2. CASE UNCHANGED <<cur, next, todo>>
    BY <2>1, <2>2 DEF Base, TypeOK, Db
  <2>3. ASSUME NEW db \in Reads,
               next' = [o \in Opts |-> IF o \in Groups THEN AclBooted(db, o) ELSE next[o]],
               cur' = [o \in Opts |-> IF o \in Groups THEN next'[o] ELSE cur[o]],
               todo' = GroupSeq
        PROVE  Base'
    <3>1. ASSUME NEW o \in Opts \ {"profile"}
          PROVE  /\ cur'[o] \in Nat /\ next'[o] \in Nat
                 /\ o \in Groups => cur'[o] < 256 /\ next'[o] < 256
      BY <2>1, <2>3, ReadTypes, BootedType, Memory, OptKinds
    <3>2. TypeOK'
      BY <1>0, <2>1, <2>3, <3>1 DEF Base, TypeOK
    <3>3. todo' \in Seq(Groups)
      BY <2>3, GroupSeqAssumption DEF Groups
    <3> QED BY <2>1, <3>2, <3>3 DEF Base, Db
  <2> QED BY <1>2, <2>2, <2>3 DEF ParseAclDb
<1> QED BY <1>1, <1>2

\* What is left of the groups after the first.
LEMMA TailGroups ==
  ASSUME NEW s \in Seq(Groups), s # <<>>
  PROVE  /\ Head(s) \in Groups /\ Tail(s) \in Seq(Groups)
         /\ \A i \in 1..Len(s) : s[i] = Head(s) \/ \E j \in 1..Len(Tail(s)) : s[i] = Tail(s)[j]
<1>1. /\ Len(s) \in Nat /\ Len(s) > 0 /\ Head(s) = s[1] /\ s[1] \in Groups
      /\ Tail(s) \in Seq(Groups) /\ Len(Tail(s)) = Len(s) - 1
  OBVIOUS
<1>2. \A j \in 1..(Len(s) - 1) : Tail(s)[j] = s[j + 1]
  OBVIOUS
<1>3. ASSUME NEW i \in 1..Len(s), i # 1
      PROVE  \E j \in 1..Len(Tail(s)) : s[i] = Tail(s)[j]
  <2>1. i - 1 \in 1..(Len(s) - 1) /\ (i - 1) + 1 = i
    BY <1>1, <1>3
  <2> QED BY <1>1, <1>2, <2>1
<1> QED BY <1>1, <1>3

\* Every step keeps the types and the origin of the defaults.
LEMMA BaseStep == Base /\ [Next]_vars => Base'
<1> SUFFICES ASSUME Base, [Next]_vars PROVE Base'
  OBVIOUS
<1>1. CASE PutAclGroup
  <2>1. /\ Head(todo) \in Groups /\ Tail(todo) \in Seq(Groups) /\ <<>> \in Seq(Groups)
        /\ Head(todo) \in Opts \ {"profile"}
    BY <1>1, TailGroups, OptKinds DEF PutAclGroup, Base
  <2>2. next[Head(todo)] \in Nat
    BY <2>1, Memory
  <2>3. /\ UNCHANGED <<image, pc, failed, def, cur, next, startup>>
        /\ todo' \in Seq(Groups)
        /\ \/ running' = [running EXCEPT ![Head(todo)] = next[Head(todo)]]
           \/ running' = running
    BY <1>1, <2>1 DEF PutAclGroup
  <2>4. Db(running)'
    BY <2>1, <2>2, <2>3 DEF Base, Db
  <2> QED BY <2>3, <2>4 DEF Base, TypeOK, Db
<1>2. CASE InitDone
  BY <1>2 DEF InitDone, Base, TypeOK, Db
<1>3. CASE SetCall \/ \E v \in AllChoices("dbm") : ConfDeepBufferModeSet(v)
  BY <1>3, SetCalls, ChangedBase
<1>4. CASE Save \/ EraseStartup
  BY <1>4 DEF Save, EraseStartup, info, NoDb, Base, TypeOK, Db
<1>5. CASE Crash
  <2>1. \A g \in Groups : Zero[g] = 0
    BY OptKinds DEF Zero
  <2>2. <<>> \in Seq(Groups) /\ DOMAIN NoDb = Opts /\ Db(NoDb)
    BY DEF NoDb, Db
  <2>3. DOMAIN Zero = Opts /\ \A o \in Opts \ {"profile"} : Zero[o] \in Nat
    BY DEF Zero
  <2>4. /\ image' = image /\ startup' = startup /\ pc' = "off" /\ failed' = FALSE
        /\ def' = Zero /\ cur' = Zero /\ next' = Zero /\ todo' = <<>>
        /\ running' = running \/ running' = NoDb
    BY <1>5 DEF Crash
  <2>5. Db(running)' /\ Db(startup)'
    BY <2>2, <2>4 DEF Base, Db
  <2>6. (\A g \in Groups : cur[g] < 256 /\ next[g] < 256)'
    BY <2>1, <2>4
  <2>7. TypeOK'
    BY <2>3, <2>4, <2>5, <2>6 DEF Base, TypeOK, Db
  <2> QED BY <2>2, <2>4, <2>5, <2>7 DEF Base
<1>6. CASE \E i \in Images : Upgrade(i)
  BY <1>6 DEF Upgrade, info, Base, TypeOK, Db
<1>7. CASE UNCHANGED vars
  BY <1>7 DEF vars, Base, TypeOK, Db
<1> QED BY <1>1, <1>2, <1>3, <1>4, <1>5, <1>6, <1>7, LoadXmlBase, ParseBase
        DEF Next, BootStep

\* Nothing is loaded at start.
LEMMA InitBase == Init => Base
<1> SUFFICES ASSUME Init PROVE Base
  OBVIOUS
<1>1. \A g \in Groups : Zero[g] = 0
  BY OptKinds DEF Zero
<1>2. <<>> \in Seq(Groups) /\ DOMAIN NoDb = Opts /\ Db(NoDb)
  BY DEF NoDb, Db
<1>3. DOMAIN Zero = Opts /\ \A o \in Opts \ {"profile"} : Zero[o] \in Nat
  BY DEF Zero
<1>4. \A g \in Groups : cur[g] < 256 /\ next[g] < 256
  BY <1>1 DEF Init
<1>5. TypeOK
  BY <1>2, <1>3, <1>4 DEF Init, TypeOK
<1> QED BY <1>2, <1>5 DEF Init, Base

\* Every variable keeps its type: whatever a database holds, pool counts stay
\* within a byte and the other options natural numbers.
THEOREM TypeCorrect == Spec => []TypeOK
<1>1. Base => TypeOK
  BY DEF Base
<1> QED BY <1>1, InitBase, BaseStep, PTL DEF Spec

-----------------------------------------------------------------------------
(* The next boot values and the running DB *)

\* a profile that a database holds is one that some release supports
KnownIn(db) ==
  db["profile"] = ABSENT \/ \E i \in Images : db["profile"] \in i.profiles

Names == Base /\ KnownIn(running) /\ KnownIn(startup)

\* Outside ParseDb and the set functions, a database is left alone, emptied
\* or copied, or one group of it is put.
LEMMA Copied ==
  ASSUME Base, [Next]_vars, ~ParseDb,
         ~(SetCall \/ \E v \in AllChoices("dbm") : ConfDeepBufferModeSet(v))
  PROVE  /\ \/ running' \in {running, NoDb}
            \/ PutAclGroup /\ \A o \in Scalars : running'[o] = running[o]
         /\ startup' \in {startup, running, NoDb}
         /\ \A o \in Scalars : running'[o] # running[o] => pc' = "off"
<1>1. CASE LoadXml \/ ParseAclDb \/ InitDone \/ Save \/ EraseStartup \/ UNCHANGED vars
           \/ \E i \in Images : Upgrade(i)
  BY <1>1 DEF LoadXml, ParseAclDb, InitDone, Save, EraseStartup, Upgrade, vars
<1>2. CASE PutAclGroup
  <2>1. Head(todo) \in Groups
    BY <1>2, TailGroups DEF PutAclGroup, Base
  <2>2. \/ running' = [running EXCEPT ![Head(todo)] = next[Head(todo)]]
        \/ running' = running
    BY <1>2 DEF PutAclGroup
  <2>3. DOMAIN running = Opts
    BY DEF Base, TypeOK
  <2>4. \A o \in Scalars : running'[o] = running[o]
    BY <2>1, <2>2, <2>3, OptKinds
  <2> QED BY <1>2, <2>4 DEF PutAclGroup
<1>3. CASE Crash
  BY <1>3 DEF Crash
<1> QED BY <1>1, <1>2, <1>3 DEF Next, BootStep

\* What ParseDb does: the values read become next and current, and the
\* running DB takes them over or is left as it was.
LEMMA Parsed ==
  ASSUME Base, ParseDb
  PROVE  \E db \in {startup, NoDb} :
           /\ Db(db)
           /\ \A o \in Scalars : next'[o] = Booted(db, o) /\ cur'[o] = Booted(db, o)
           /\ UNCHANGED <<image, def, todo, startup, unput>> /\ pc = "xml"
           /\ \/ pc' = "down" /\ running' = running
              \/ /\ pc' = "acl"
                 /\ \A o \in Scalars \ {"profile"} : running'[o] = next'[o]
                 /\ running'["profile"] =
                      IF next'["profile"] \in image.profiles
                      THEN next'["profile"] ELSE running["profile"]
<1>1. PICK db \in Reads :
        next' = [o \in Opts |-> IF o \in Scalars THEN Booted(db, o) ELSE next[o]]
  BY DEF ParseDb
<1>2. Db(db) /\ db \in {startup, NoDb}
  BY ReadTypes
<1>3. \A o \in Scalars : next'[o] = Booted(db, o) /\ cur'[o] = Booted(db, o)
  BY <1>1, OptKinds DEF ParseDb
<1>4. ASSUME running' = Written(next')
      PROVE  /\ \A o \in Scalars \ {"profile"} : running'[o] = next'[o]
             /\ running'["profile"] = IF next'["profile"] \in image.profiles
                                      THEN next'["profile"] ELSE running["profile"]
  BY <1>4, OptKinds DEF Written, ProfileSupported
<1> QED BY <1>2, <1>3, <1>4 DEF ParseDb

\* Only names of supported profiles get into a database.
LEMMA NamesStep == Names /\ [Next]_vars => Names'
<1> SUFFICES ASSUME Names, [Next]_vars PROVE Names'
  OBVIOUS
<1>0. Base /\ Base' /\ image \in Images /\ "profile" \in Scalars /\ "profile" \in Opts
      /\ KnownIn(NoDb)
  BY BaseStep, OptKinds DEF Names, Base, TypeOK, KnownIn, NoDb
<1>1. CASE ParseDb
  <2>1. startup' = startup /\ running'["profile"] \in image.profiles \cup {running["profile"]}
    BY <1>0, <1>1, Parsed
  <2> QED BY <1>0, <2>1 DEF Names, KnownIn
<1>2. ASSUME NEW o \in Opts, Changed(o)
      PROVE  Names'
  <2>1. startup' = startup
        /\ running'["profile"] \in image.profiles \cup {running["profile"], ABSENT}
    BY <1>0, <1>2, ChangedValues DEF ProfileSupported
  <2> QED BY <1>0, <2>1 DEF Names, KnownIn
<1>3. CASE ~ParseDb /\ ~(SetCall \/ \E v \in AllChoices("dbm") : ConfDeepBufferModeSet(v))
  <2>1. /\ running' = NoDb \/ running'["profile"] = running["profile"]
        /\ startup' \in {startup, running, NoDb}
    BY <1>0, <1>3, Copied
  <2> QED BY <1>0, <2>1 DEF Names, KnownIn
<1> QED BY <1>0, <1>1, <1>2, <1>3, SetCalls

\* Nothing is stored at first.
LEMMA InitNames == Init => Names
BY InitBase, OptKinds DEF Init, Names, KnownIn, NoDb

\* The buffer that ConfProfileGet copies into is as long as the name of the
\* default profile: no supported profile may have a longer name.
NamesFit ==
  \A i, j \in Images : \A n \in j.profiles :
    n \in Seq(STRING) /\ Len(n) <= Len(i.def["profile"])

\* Each configured-value getter answers what the next boot will make current,
\* for releases whose profile names fit the buffer (the run SwitchProfileName
\* shows what happens with one that does not).
THEOREM ConfiguredAnswers ==
  ASSUME NamesFit PROVE Spec => []ConfiguredIsNext
<1>1. ASSUME Names PROVE ConfiguredIsNext
  <2> SUFFICES ASSUME pc = "up" PROVE ConfiguredIsNext
    BY DEF ConfiguredIsNext
  <2>1. \A o \in {"profile", "uft", "ecmp", "ipv6", "dbm"} :
          /\ o \in Scalars /\ o \notin Groups /\ o \notin {"rifs", "nhs"}
          /\ AtBoot(startup, o) = Stored(o)
    BY OptAssumption DEF AtBoot, Booted, Stored, Scalars
  <2>2. ConfProfileGet = Stored("profile")
    <3>1. CASE startup["profile"] = ABSENT
      BY <3>1 DEF ConfProfileGet, Stored
    <3>2. CASE startup["profile"] # ABSENT
      <4>1. PICK j \in Images : startup["profile"] \in j.profiles
        BY <1>1, <3>2 DEF Names, KnownIn
      <4>2. image \in Images /\ def["profile"] = image.def["profile"]
        BY <1>1, OptKinds DEF Names, Base, TypeOK, XmlDefault
      <4>3. startup["profile"] \in Seq(STRING)
            /\ Len(startup["profile"]) <= Len(def["profile"])
        BY <4>1, <4>2 DEF NamesFit
      <4>4. \A n \in Seq(STRING) : SubSeq(n, 1, Len(n)) = n
        OBVIOUS
      <4>5. (IF Len(startup["profile"]) < Len(def["profile"])
             THEN Len(startup["profile"]) ELSE Len(def["profile"]))
            = Len(startup["profile"])
        BY <4>3
      <4>6. ConfProfileGet = startup["profile"]
        BY <3>2, <4>3, <4>4, <4>5 DEF ConfProfileGet
      <4> QED BY <3>2, <4>6, HeldName DEF Stored
    <3> QED BY <3>1, <3>2
  <2> QED BY <2>1, <2>2 DEF ConfiguredIsNext, ConfUftGet, ConfMaxEcmpPerGrpGet,
                           ConfIpv6ExtPrefixRoutesGet, ConfDeepBufferModeGet
<1> QED BY <1>1, InitNames, NamesStep, PTL DEF Spec

-----------------------------------------------------------------------------
(* Memory and the running DB say the same *)

\* A release that has profiles has the default among them, and knows those of
\* every other release: no upgrade or downgrade drops a profile.
ProfilesKnown ==
  \A i, j \in Images :
    i.profiles # {} => i.def["profile"] \in i.profiles /\ j.profiles \subseteq i.profiles

ToPut == {todo[i] : i \in 1..Len(todo)}

ScalarAgrees(o) ==
  /\ o \in {"rifs", "nhs"} => running[o] = ABSENT \/ next[o] = running[o]
  /\ o \notin {"profile", "rifs", "nhs"} => next[o] = Booted(running, o)
  /\ o = "profile" /\ image.profiles # {} => next[o] = Booted(running, o)

GroupAgrees(g) == g \in ToPut \/ g \in unput \/ next[g] = AclBooted(running, g)

Truth ==
  /\ Names
  /\ todo # <<>> => pc = "put" /\ unput = {}
  /\ unput # {} => pc \in {"put", "up"}
  /\ pc \in {"acl", "put", "up"} => \A o \in Scalars : ScalarAgrees(o)
  /\ pc \in {"put", "up"} /\ image.aclValid => \A g \in Groups : GroupAgrees(g)

\* A value that a boot read and wrote back is read again as the same value.
LEMMA ReadAgain ==
  ASSUME Base, pc # "off", NEW db, Db(db),
         NEW o \in Scalars \ {"profile", "rifs", "nhs"}
  PROVE  AsHeld(o, Booted(db, o)) = Booted(db, o) /\ Booted(db, o) # ABSENT
<1>1. o \in Opts \ {"profile"} /\ image \in Images /\ def[o] = XmlDefault(image, o)
  BY OptKinds DEF Base, TypeOK
<1>2. Booted(db, o) \in Nat /\ Booted(db, o) # ABSENT
  BY <1>1, BootedType, AbsentAssumption
<1>3. CASE o \in {"riot", "dbm"}
  <2>0. Booted(db, o) = IF db[o] = ABSENT THEN def[o] ELSE AsHeld(o, db[o])
    BY DEF Booted
  <2>1. AsHeld(o, def[o]) = def[o]
    BY <1>1, <1>3, Defaults
  <2>2. db[o] # ABSENT => AsHeld(o, AsHeld(o, db[o])) = AsHeld(o, db[o])
    BY <1>1, Held DEF Db
  <2> QED BY <1>2, <2>0, <2>1, <2>2
<1>4. CASE o \notin {"riot", "dbm"}
  BY <1>1, <1>2, <1>4, Held DEF Scalars
<1> QED BY <1>3, <1>4

\* After the first read of the startup DB, memory and running DB agree.
LEMMA ParseDbTruth ==
  ASSUME ProfilesKnown, Truth, Truth => Names', ParseDb
  PROVE  Truth'
<1>0. Base /\ image \in Images
  BY DEF Truth, Names, Base, TypeOK
<1>1. PICK db \in {startup, NoDb} :
        /\ Db(db)
        /\ \A o \in Scalars : next'[o] = Booted(db, o)
        /\ UNCHANGED <<image, def, todo, startup, unput>> /\ pc = "xml"
        /\ \/ pc' = "down" /\ running' = running
           \/ /\ pc' = "acl"
              /\ \A o \in Scalars \ {"profile"} : running'[o] = next'[o]
              /\ running'["profile"] =
                   IF next'["profile"] \in image.profiles
                   THEN next'["profile"] ELSE running["profile"]
  BY <1>0, Parsed
<1>2. ASSUME NEW o \in Scalars, pc' = "acl"
      PROVE  ScalarAgrees(o)'
  <2>1. CASE o \in {"rifs", "nhs"}
    BY <1>1, <1>2, <2>1 DEF ScalarAgrees
  <2>2. CASE o \notin {"profile", "rifs", "nhs"}
    <3>1. running'[o] = next'[o] /\ next'[o] # ABSENT /\ AsHeld(o, next'[o]) = next'[o]
      BY <1>0, <1>1, <1>2, <2>2, ReadAgain
    <3> QED BY <2>2, <3>1 DEF ScalarAgrees, Booted
  <2>3. CASE o = "profile" /\ image.profiles # {}
    <3>1. def["profile"] = image.def["profile"]
      BY <1>0, <1>1, OptKinds DEF Base, XmlDefault
    <3>2. KnownIn(db)
      BY OptKinds DEF Truth, Names, KnownIn, NoDb
    <3>3. next'["profile"] = IF db["profile"] = ABSENT THEN def["profile"] ELSE db["profile"]
      BY <1>1, <1>2, <2>3, HeldName DEF Booted
    <3>4. next'["profile"] \in image.profiles
      BY <1>0, <2>3, <3>1, <3>2, <3>3 DEF KnownIn, ProfilesKnown
    <3>5. running'["profile"] = next'["profile"] /\ next'["profile"] # ABSENT
      BY <1>0, <1>1, <1>2, <3>4, AbsentAssumption
    <3> QED BY <2>3, <3>5, HeldName DEF ScalarAgrees, Booted
  <2>4. CASE o = "profile" /\ image.profiles = {}
    BY <1>1, <2>4 DEF ScalarAgrees
  <2> QED BY <2>1, <2>2, <2>3, <2>4
<1>3. todo' = <<>> /\ unput' = {} /\ Names' /\ pc' \in {"acl", "down"}
  BY <1>1 DEF Truth
<1> QED BY <1>2, <1>3 DEF Truth

\* An accepted call changes memory and running DB alike.
LEMMA ChangedTruth ==
  ASSUME Truth, Truth => Names', NEW o \in Opts, Changed(o)
  PROVE  Truth'
<1>0. Base /\ pc = "up" /\ todo = <<>>
  BY DEF Truth, Names, Changed
<1>1. /\ UNCHANGED <<image, pc, def, todo>>
      /\ unput' = unput \ {o}
      /\ \A p \in Opts \ {o} : next'[p] = next[p] /\ running'[p] = running[p]
      /\ \/ next'[o] = def[o] /\ running'[o] = ABSENT
         \/ running'[o] # ABSENT /\ next'[o] = AsHeld(o, running'[o])
            /\ (o # "profile" => running'[o] \in Nat)
  BY <1>0, ChangedValues
<1>2. ASSUME NEW p \in Scalars PROVE ScalarAgrees(p)'
  <2>1. p \in Opts /\ ScalarAgrees(p)
    BY <1>0, OptKinds DEF Truth
  <2>2. CASE p # o
    BY <1>1, <2>1, <2>2 DEF ScalarAgrees, Booted
  <2>3. CASE p = o /\ p \in {"rifs", "nhs"}
    BY <1>1, <2>1, <2>3, Held DEF ScalarAgrees
  <2>4. CASE p = o /\ p \notin {"rifs", "nhs"}
    BY <1>1, <2>4 DEF ScalarAgrees, Booted
  <2> QED BY <2>2, <2>3, <2>4
<1>3. ASSUME NEW g \in Groups, image.aclValid PROVE GroupAgrees(g)'
  <2>1. g \in Opts /\ GroupAgrees(g) /\ g \notin ToPut
    BY <1>0, <1>3, OptKinds DEF Truth, ToPut
  <2>2. CASE g # o
    BY <1>1, <2>1, <2>2 DEF GroupAgrees, AclBooted
  <2>3. CASE g = o
    BY <1>1, <2>3 DEF GroupAgrees, AclBooted
  <2> QED BY <2>2, <2>3
<1> QED BY <1>0, <1>1, <1>2, <1>3 DEF Truth

\* The ACL groups: read all, then put one after the other.
LEMMA AclTruth ==
  ASSUME Truth, Truth => Names', ParseAclDb \/ PutAclGroup
  PROVE  Truth'
<1>0. Base /\ \A o \in Scalars : ScalarAgrees(o)
  BY DEF Truth, Names, ParseAclDb, PutAclGroup
<1>1. CASE ParseAclDb
  <2>1. pc' = "put" /\ UNCHANGED <<image, def, running>>
    BY <1>1 DEF ParseAclDb
  <2>2. \A o \in Scalars : next'[o] = next[o]
    BY <1>1, OptKinds DEF ParseAclDb
  <2>3. \A o \in Scalars : ScalarAgrees(o)'
    BY <1>0, <2>1, <2>2 DEF ScalarAgrees, Booted
  <2>4. image'.aclValid => \A g \in Groups : GroupAgrees(g)'
    BY <1>1, <2>1 DEF ParseAclDb, GroupAgrees, ToPut, Groups
  <2>5. unput' = {}
    BY <1>1 DEF ParseAclDb, Truth
  <2> QED BY <2>1, <2>3, <2>4, <2>5 DEF Truth
<1>2. CASE PutAclGroup
  <2>1. /\ Head(todo) \in Groups
        /\ \A i \in 1..Len(todo) :
             todo[i] = Head(todo) \/ \E j \in 1..Len(Tail(todo)) : todo[i] = Tail(todo)[j]
    BY <1>0, <1>2, TailGroups DEF Base, PutAclGroup
  <2>2. pc = "put" /\ UNCHANGED <<image, pc, def, next>> /\ DOMAIN running = Opts
    BY <1>0, <1>2 DEF PutAclGroup, Base, TypeOK
  <2>3. \A o \in Opts \ {Head(todo)} : running'[o] = running[o]
    BY <1>2, <2>2 DEF PutAclGroup
  <2>4. \A o \in Scalars : ScalarAgrees(o)'
    BY <1>0, <2>1, <2>2, <2>3, OptKinds DEF ScalarAgrees, Booted
  <2>5. ASSUME NEW g \in Groups, image.aclValid PROVE GroupAgrees(g)'
    <3>1. GroupAgrees(g) /\ g \in Opts \ {"profile"}
      BY <2>2, <2>5, OptKinds DEF Truth
    <3>2. CASE todo' = <<>> /\ unput' = ToPut /\ running' = running
      <4>1. g \notin unput
        BY <1>2 DEF Truth, PutAclGroup
      <4> QED BY <2>2, <3>1, <3>2, <4>1 DEF GroupAgrees, AclBooted
    <3>3. CASE /\ running' = [running EXCEPT ![Head(todo)] = next[Head(todo)]]
               /\ todo' = Tail(todo) /\ unput' = unput
      <4>1. CASE g = Head(todo)
        <5>1. running'[g] = next[g] /\ next[g] \in Nat /\ next[g] < 256
          BY <1>0, <2>2, <3>1, <3>3, <4>1, Memory
        <5>2. next[g] # ABSENT /\ AsHeld(g, next[g]) = next[g]
          BY <3>1, <5>1, Held, AbsentAssumption
        <5> QED BY <2>2, <5>1, <5>2 DEF GroupAgrees, AclBooted
      <4>2. CASE g # Head(todo)
        <5>1. running'[g] = running[g]
          BY <2>3, <3>1, <4>2
        <5>2. g \in ToPut => g \in ToPut'
          BY <2>1, <3>3, <4>2 DEF ToPut
        <5> QED BY <2>2, <3>1, <3>3, <5>1, <5>2 DEF GroupAgrees, AclBooted
      <4> QED BY <4>1, <4>2
    <3> QED BY <1>2, <3>2, <3>3 DEF PutAclGroup, ToPut
  <2>6. todo' # <<>> => unput' = {}
    BY <1>2 DEF PutAclGroup, Truth
  <2> QED BY <2>2, <2>4, <2>5, <2>6 DEF Truth
<1> QED BY <1>1, <1>2

\* Every step keeps memory and running DB in agreement.
LEMMA TruthStep ==
  ASSUME ProfilesKnown, Truth, [Next]_vars
  PROVE  Truth'
<1>0. Names' /\ Base
  BY NamesStep DEF Truth, Names
<1>1. CASE LoadXml
  <2>1. pc = "off" /\ pc' = "xml" /\ UNCHANGED <<todo, unput>>
    BY <1>1 DEF LoadXml
  <2> QED BY <1>0, <2>1 DEF Truth
<1>2. CASE InitDone
  <2>1. pc = "put" /\ todo = <<>> /\ pc' = "up"
        /\ UNCHANGED <<image, def, next, todo, running, unput>>
    BY <1>2 DEF InitDone
  <2> QED BY <1>0, <2>1 DEF Truth, ScalarAgrees, GroupAgrees, ToPut, Booted, AclBooted
<1>3. CASE Save \/ EraseStartup \/ UNCHANGED vars
  <2>1. UNCHANGED <<image, pc, def, next, todo, running, unput>>
    BY <1>3 DEF Save, EraseStartup, info, vars
  <2> QED BY <1>0, <2>1 DEF Truth, ScalarAgrees, GroupAgrees, ToPut, Booted, AclBooted
<1>4. CASE Crash
  <2>1. pc' = "off" /\ todo' = <<>> /\ unput' = {}
    BY <1>4 DEF Crash
  <2> QED BY <1>0, <2>1 DEF Truth
<1>5. CASE \E i \in Images : Upgrade(i)
  <2>1. pc = "off" /\ UNCHANGED <<pc, todo, unput>>
    BY <1>5 DEF Upgrade
  <2> QED BY <1>0, <2>1 DEF Truth
<1>6. CASE SetCall \/ \E v \in AllChoices("dbm") : ConfDeepBufferModeSet(v)
  BY <1>0, <1>6, SetCalls, ChangedTruth
<1> QED BY <1>0, <1>1, <1>2, <1>3, <1>4, <1>5, <1>6, ParseDbTruth, AclTruth
        DEF Next, BootStep

\* Whatever was set, deleted, saved, lost in a crash or left stale, the
\* next_boot_ values are those a boot from the running DB comes up with, when
\* no release drops a profile that another one had.
THEOREM NextBootTold ==
  ASSUME ProfilesKnown PROVE Spec => []NextBootTruth
<1>1. Init => Truth
  BY InitNames DEF Init, Truth
<1>2. Truth /\ [Next]_vars => Truth'
  BY TruthStep
<1>3. ASSUME Truth PROVE NextBootTruth
  <2> SUFFICES ASSUME pc = "up", NEW o \in Opts, Recorded(o)
               PROVE  next[o] = AtBoot(running, o)
    BY DEF NextBootTruth
  <2>1. CASE o \in Groups
    BY <1>3, <2>1 DEF Truth, GroupAgrees, ToPut, Recorded, AtBoot
  <2>2. CASE o \notin Groups
    <3>1. o \in Scalars /\ ScalarAgrees(o)
      BY <1>3, <2>2, OptKinds DEF Truth
    <3>2. o \in {"rifs", "nhs"} => next[o] = running[o] /\ Booted(running, o) = running[o]
      BY <3>1 DEF Recorded, ScalarAgrees, Booted
    <3> QED BY <2>2, <3>1, <3>2 DEF Recorded, ScalarAgrees, AtBoot
  <2> QED BY <2>1, <2>2
<1> QED BY <1>1, <1>2, <1>3, PTL DEF Spec

-----------------------------------------------------------------------------
(* Only supported values become current *)

\* the options whose set function validates the value
Limited == {"profile", "uft", "ecmp", "ipv6", "rifs", "nhs"}

Accepts(i, o, v) ==
  /\ o = "profile" => v \in i.profiles
  /\ o = "uft" => v \in UftModes(i)
  /\ o = "ecmp" => EcmpSupported(v)
  /\ o = "ipv6" => v <= i.ipv6Max /\ InBlocks(v, i.ipv6Blk)
  /\ o = "rifs" => InBlocks(v, i.rifBlk)
  /\ o = "nhs" => InBlocks(v, i.nhBlk)

Fine(i, o, v) == v = XmlDefault(i, o) \/ Accepts(i, o, v)

\* The values that a database may hold besides defaults: those that users ask
\* for, and 0 for a VXLAN size that is not stored.
Asked(o) == AllChoices(o) \cup (IF o \in {"rifs", "nhs"} THEN {0} ELSE {})

\* Each release can run with the defaults of the others and with the values
\* asked for that another one accepts.  They may differ in their features.
Compatible ==
  \A i, j \in Images, o \in Limited :
    /\ Fine(j, o, XmlDefault(i, o))
    /\ \A v \in Asked(o) : Accepts(i, o, v) => Fine(j, o, v)

\* Any release can run with the value.
FineAll(o, v) == \A i \in Images : Fine(i, o, v)

\* A database holds supported values only, whichever release boots from it.
\* Where a VXLAN size is missing but the riot status is not, a boot will take
\* 0, which has to be supported too.
FineDb(db) ==
  /\ \A o \in Limited : db[o] = ABSENT \/ FineAll(o, db[o])
  /\ \A o \in {"rifs", "nhs"} :
       db[o] = ABSENT /\ db["riot"] # ABSENT => FineAll(o, 0)

Support ==
  /\ Base /\ FineDb(running) /\ FineDb(startup)
  /\ pc \in {"acl", "put", "up", "down"} => \A o \in Limited : FineAll(o, cur[o])
  /\ pc \in {"acl", "put", "up"} =>
       \A o \in {"rifs", "nhs"} : running[o] = ABSENT => FineAll(o, 0)

\* What a boot makes of a database that holds supported values only.
LEMMA FineBoot ==
  ASSUME Compatible, Base, pc # "off", NEW db, Db(db), FineDb(db), NEW o \in Limited
  PROVE  FineAll(o, Booted(db, o))
<1>1. o \in Opts /\ def[o] = XmlDefault(image, o) /\ FineAll(o, def[o])
  <2>1. o \in Opts
    BY DEF Limited, Opts, Scalars
  <2>2. def[o] = XmlDefault(image, o) /\ image \in Images
    BY <2>1 DEF Base, TypeOK
  <2>3. FineAll(o, XmlDefault(image, o))
    BY <2>2 DEF Compatible, FineAll
  <2> QED BY <2>1, <2>2, <2>3
<1>2. CASE o = "profile"
  BY <1>1, <1>2, HeldName DEF Booted, FineDb
<1>3. CASE o \in {"rifs", "nhs"}
  <2>1. Zero[o] = 0
    BY <1>1, <1>3 DEF Zero
  <2>2. Booted(db, o) = IF db["riot"] = ABSENT THEN def[o]
                        ELSE IF db[o] = ABSENT THEN 0 ELSE db[o]
    BY <1>3, <2>1 DEF Booted
  <2> QED BY <1>1, <1>3, <2>2 DEF FineDb
<1>4. CASE o \in {"uft", "ecmp", "ipv6"}
  <2>1. Booted(db, o) = IF db[o] = ABSENT THEN def[o] ELSE AsHeld(o, db[o])
    BY <1>4 DEF Booted
  <2>2. db[o] # ABSENT => AsHeld(o, db[o]) = db[o]
    BY <1>1, <1>4, Held DEF Db
  <2> QED BY <1>1, <2>1, <2>2 DEF FineDb
<1> QED BY <1>2, <1>3, <1>4 DEF Limited

\* The boot takes supported values over.
LEMMA ParseDbSupport ==
  ASSUME Compatible, Support, Base', ParseDb
  PROVE  Support'
<1>0. Base /\ FineDb(startup) /\ FineDb(running) /\ FineDb(NoDb) /\ Limited \subseteq Scalars
      /\ {"rifs", "nhs"} \subseteq Limited
  BY OptKinds DEF Support, FineDb, NoDb, Limited, Scalars
<1>1. PICK db \in {startup, NoDb} :
        /\ Db(db)
        /\ \A o \in Scalars : next'[o] = Booted(db, o) /\ cur'[o] = Booted(db, o)
        /\ UNCHANGED <<image, def, startup>> /\ pc = "xml"
        /\ \/ pc' = "down" /\ running' = running
           \/ /\ pc' = "acl"
              /\ \A o \in Scalars \ {"profile"} : running'[o] = next'[o]
              /\ running'["profile"] =
                   IF next'["profile"] \in image.profiles
                   THEN next'["profile"] ELSE running["profile"]
  BY <1>0, Parsed
<1>2. \A o \in Limited : FineAll(o, cur'[o]) /\ cur'[o] = next'[o]
  BY <1>0, <1>1, FineBoot
<1>3. CASE pc' = "down" /\ running' = running
  BY <1>0, <1>1, <1>2, <1>3 DEF Support, FineDb
<1>4. CASE pc' = "acl"
  <2>1. \A o \in Limited \ {"profile"} : running'[o] = cur'[o]
    BY <1>0, <1>1, <1>2, <1>4
  <2>2. running'["profile"] \in {cur'["profile"], running["profile"]}
    BY <1>1, <1>2, <1>4 DEF Limited
  <2>3. \A o \in Limited : running'[o] = ABSENT \/ FineAll(o, running'[o])
    BY <1>0, <1>2, <2>1, <2>2 DEF FineDb
  <2>4. \A o \in {"rifs", "nhs"} : running'[o] # ABSENT
    <3>1. \A o \in {"rifs", "nhs"} : o \in Opts \ {"profile"} /\ o \in Scalars
      BY DEF Opts, Scalars
    <3>2. \A o \in {"rifs", "nhs"} : Booted(db, o) \in Nat
      BY <1>0, <1>1, <3>1, BootedType
    <3> QED BY <1>1, <1>4, <3>1, <3>2, AbsentAssumption
  <2>5. FineDb(running)'
    BY <1>1, <2>3, <2>4 DEF FineDb
  <2> QED BY <1>0, <1>1, <1>2, <1>4, <2>4, <2>5 DEF Support, FineDb
<1> QED BY <1>1, <1>3, <1>4

\* A set function lets supported values through only.
LEMMA ChangedSupport ==
  ASSUME Compatible, Support, Base', NEW o \in Opts, Changed(o)
  PROVE  Support'
<1>0. Base /\ image \in Images /\ Limited \subseteq Opts /\ "riot" \in Opts
      /\ {"rifs", "nhs"} \subseteq Limited
  BY DEF Support, Base, TypeOK, Limited, Opts, Scalars
<1>1. /\ UNCHANGED <<image, pc, def, cur, startup>> /\ pc = "up"
      /\ \A p \in Opts \ {o} : running'[p] = running[p]
  BY <1>0, ChangedValues DEF Changed
<1>2. \/ running'[o] = ABSENT
      \/ Accepts(image, o, running'[o]) /\ running'[o] \in Asked(o)
  BY <1>0, ChangedValues DEF Accepts, ProfileSupported, UftSupported, Ipv6Valid, Asked
<1>3. ASSUME NEW p \in {"rifs", "nhs"}, running'[p] = ABSENT
      PROVE  FineAll(p, 0)
  <2>1. CASE p # o
    BY <1>0, <1>1, <1>3, <2>1 DEF Support
  <2>2. CASE p = "rifs" /\ o = "rifs"
    <3>1. image.rifBlk \in Nat \ {0}
      BY <1>0, <2>2, ImageAssumption DEF Changed
    <3>2. 0 % image.rifBlk = 0
      BY <3>1
    <3>3. Accepts(image, "rifs", 0)
      BY <3>1, <3>2 DEF Accepts, InBlocks
    <3> QED BY <1>0, <2>2, <3>3 DEF Compatible, FineAll, Asked
  <2>3. CASE p = "nhs" /\ o = "nhs"
    <3>1. image.nhBlk \in Nat \ {0}
      BY <1>0, <2>3, ImageAssumption DEF Changed
    <3>2. 0 % image.nhBlk = 0
      BY <3>1
    <3>3. Accepts(image, "nhs", 0)
      BY <3>1, <3>2 DEF Accepts, InBlocks
    <3> QED BY <1>0, <2>3, <3>3 DEF Compatible, FineAll, Asked
  <2> QED BY <2>1, <2>2, <2>3
<1>4. ASSUME NEW p \in Limited
      PROVE  running'[p] = ABSENT \/ FineAll(p, running'[p])
  <2>1. CASE p = o
    BY <1>0, <1>2, <2>1 DEF Compatible, FineAll
  <2>2. CASE p # o
    BY <1>0, <1>1, <2>2 DEF Support, FineDb
  <2> QED BY <2>1, <2>2
<1>5. FineDb(running)'
  BY <1>1, <1>3, <1>4 DEF FineDb
<1> QED BY <1>1, <1>3, <1>5 DEF Support, FineDb

\* Every step keeps unsupported values out.
LEMMA SupportStep ==
  ASSUME Compatible, Support, [Next]_vars
  PROVE  Support'
<1>0. Base /\ Base' /\ image \in Images /\ FineDb(running) /\ FineDb(startup)
      /\ (Limited \cup {"rifs", "nhs", "riot"}) \subseteq Scalars
  BY BaseStep DEF Support, Base, TypeOK, Limited, Scalars
<1>1. CASE ParseDb
  BY <1>0, <1>1, ParseDbSupport
<1>2. CASE SetCall \/ \E v \in AllChoices("dbm") : ConfDeepBufferModeSet(v)
  BY <1>0, <1>2, SetCalls, ChangedSupport
<1>3. CASE \E i \in Images : Upgrade(i)
  <2>1. pc' = "off" /\ UNCHANGED <<running, startup>>
    BY <1>3 DEF Upgrade
  <2> QED BY <1>0, <2>1 DEF Support, FineDb
<1>4. CASE /\ ~ParseDb /\ ~(\E i \in Images : Upgrade(i))
           /\ ~(SetCall \/ \E v \in AllChoices("dbm") : ConfDeepBufferModeSet(v))
  <2>1. image' = image
    BY <1>4 DEF Next, BootStep, LoadXml, ParseAclDb, PutAclGroup, InitDone,
                Save, EraseStartup, Crash, vars
  <2>2. /\ running' = NoDb \/ \A o \in Scalars : running'[o] = running[o]
        /\ startup' \in {startup, running, NoDb}
        /\ \A o \in Scalars : running'[o] # running[o] => pc' = "off"
    BY <1>0, <1>4, Copied
  <2>3. FineDb(running)' /\ FineDb(startup)'
    BY <1>0, <2>1, <2>2, OptKinds DEF FineDb, NoDb
  <2>4. pc' \in {"acl", "put", "up", "down"} =>
          /\ \A o \in Scalars : cur'[o] = cur[o]
          /\ pc \in {"acl", "put", "up", "down"}
          /\ pc' \in {"acl", "put", "up"} => pc \in {"acl", "put", "up"}
    BY <1>4, OptKinds
       DEF Next, BootStep, LoadXml, ParseAclDb, PutAclGroup, InitDone,
           Save, EraseStartup, Crash, vars, info
  <2> QED BY <1>0, <2>1, <2>2, <2>3, <2>4 DEF Support
<1> QED BY <1>1, <1>2, <1>3, <1>4

\* No sequence of sets, saves, crashes, boots and upgrades between compatible
\* releases makes a value current that is neither the default nor one the set
\* function accepts.
THEOREM CurrentIsSupported ==
  ASSUME Compatible PROVE Spec => []CurrentSupported
<1>1. Init => Support
  BY InitBase, OptKinds DEF Init, Support, FineDb, NoDb, Limited, Scalars
<1>2. Support /\ [Next]_vars => Support'
  BY SupportStep
<1>3. ASSUME Support PROVE CurrentSupported
  <2> SUFFICES ASSUME pc = "up" PROVE CurrentSupported
    BY DEF CurrentSupported
  <2>1. \A o \in Limited : cur[o] = def[o] \/ Accepts(image, o, cur[o])
    BY <1>3 DEF Support, Base, TypeOK, FineAll, Fine, Limited, Opts, Scalars
  <2> QED BY <2>1 DEF CurrentSupported, Limited, Accepts, ProfileSupported,
                      UftSupported, Ipv6Valid
<1> QED BY <1>1, <1>2, <1>3, PTL DEF Spec

=============================================================================
