--------------------------- MODULE MCSwitchProfile ---------------------------
(* Small instances of SwitchProfile. *)
EXTENDS SwitchProfile

Defaults(profile, uft, ecmp, ipv6, riot, rifs, nhs, dbm, pools) ==
  [o \in Opts |-> CASE o = "profile" -> profile [] o = "uft" -> uft
                    [] o = "ecmp" -> ecmp [] o = "ipv6" -> ipv6
                    [] o = "riot" -> riot [] o = "rifs" -> rifs
                    [] o = "nhs" -> nhs [] o = "dbm" -> dbm
                    [] OTHER -> pools]

\* switch.xml of two releases that differ in their defaults only
Release(d) ==
  [broken |-> FALSE, def |-> d,
   profiles |-> {<<"a">>, <<"b">>}, ufts |-> {1, 2, 7},
   ipv6Req |-> TRUE, ipv6Max |-> 4, ipv6Blk |-> 2, dbmReq |-> TRUE,
   rifBlk |-> 2, nhBlk |-> 2, aclValid |-> TRUE, pools |-> [g \in Groups |-> 2]]

Old == Release(Defaults(<<"a">>, 1, 8, 0, 1, 2, 2, 0, 1))
New == Release(Defaults(<<"b">>, 2, 8, 2, 1, 4, 2, 1, 2))

\* a switch without the optional features
Plain == [Old EXCEPT !.profiles = {}, !.ufts = {}, !.ipv6Req = FALSE,
                     !.def = [Old.def EXCEPT !["riot"] = 0],
                     !.dbmReq = FALSE, !.aclValid = FALSE]

\* a release whose topology is faulty
Broken == [Old EXCEPT !.broken = TRUE]

\* a release with a second profile that has a longer name
Longer == [Old EXCEPT !.profiles = {<<"a">>, <<"b", "c">>}]

TwoImages  == {Old, New}
BothKinds  == {Old, Plain}
BrokenOnly == {Broken}
LongerOnly == {Longer}

NoGroups  == <<>>
TwoGroups == <<"acl1", "acl2">>

\* values to ask for: some the code refuses, some it cuts to the field's width
Asked(o) == CASE o = "profile" -> {<<"a">>, <<"b">>, <<"c">>}
              [] o = "uft"     -> {2, 3, 7}
              [] o = "ecmp"    -> {1, 2, 1025}
              [] o = "ipv6"    -> {1, 4, 6}
              [] o = "riot"    -> {1}
              [] o = "rifs"    -> {1, 4}
              [] o = "nhs"     -> {1, 4}
              [] o = "dbm"     -> {2}
              [] OTHER         -> {258}

Tables  == [o \in {"profile", "uft", "ecmp", "ipv6", "rifs"} |-> Asked(o)]
AclMix  == [o \in Groups \cup {"dbm", "riot", "nhs"} |-> Asked(o)]
Names   == [o \in {"profile"} |-> {<<"b">>, <<"b", "c">>}]

=============================================================================
