# A verification project for opx-nas-common

opx-nas-common is the library that the NAS daemons of OPX link: the database of
interfaces, the base class with which application modules push their objects
to the NPUs, an allocator of IDs, the options the switch boots with, and some
small tables. This directory holds TLA+ modules that model its core, the
TLC configurations that check them and TLAPS proofs about them.

## Inventory

| Component | State | Operations | Interacts with | What is hard |
|---|---|---|---|---|
| Interface database (`hal_if_mapping.cpp`) | heap records, a search map per query type, `if_name_map`, `if_indexes`, description strings | register, deregister, search, get-next, updates of MAC, description and router information | every NAS thread, under `db_lock` | keys that collide in one map only, copies used after the record has gone, ownership of the description, walks that race with removals |
| Object model and commit engine (`nas_base_obj.*`, `nas_base_ndi_utl.*`) | NPU list, dirty and set attributes, flags, rollback tracker | setters, `add_npu`, commits, pushes, rollback | virtual functions of the application modules, NDI | a push that throws half way, undoing pushes that throw, retries |
| ID generator (`nas_base_utils.*`) | bitmap, search position | allocate, reserve, release, move | application modules | wrap-around, bits past the last ID, moves |
| Switch profile (`nas_switch_profile.cpp`) | default, current and next-boot value of each option | load from switch.xml and DB, set, get | CPS DB (startup, running), nas-l2, nas_switch_init | crash between steps, DB failures, stale DB contents, upgrades |
| Switch initialisation and topology (`nas_switch.c`) | topology and feature tables, `failed` | `nas_switch_init`, the parser of switch.xml, queries | switch profile | faulty nodes, a parse that stops half way, failure that has to reach the caller |
| Base MAC (`nas_switch_utl.cpp`) | none | waits for the platform service and for the switching entity | PAS, CPS | services that die, come back, or are up without the address |
| Interface helpers (`nas_if_utils.cpp`) | none | lookups, judgement of port mapping events | interface database, events | events that are late against the database |
| VRF map (`nas_vrf_utils.cpp`) | name -> record, both on the heap | add, update, delete, get | routing threads | repeated add, failed allocation, ids held by readers |
| 1D bridge VLANs (`nas_com_bridge_utils.cpp`) | name -> VLAN, reserved VLAN | add, delete, get, set | bridge threads | an answer that has to stay valid until the bridge is detached |
| NDI object ID table (`nas_ndi_obj_id_table.cpp`) | NPU -> ID | set, erase, conversion to and from CPS objects | CPS | the round trip, in any order of the entries |
| Diag shell daemon (`base-nas-shell.py`) | a flag, a socket per RPC | run commands until SIGTERM | NPU shell, systemd | a signal that comes before the wait, late and missing answers |
| NPU shell client (`hal_shell_client.c`) | none | copy bytes | NPU shell socket | |

What makes each of them correct: the search maps and the records agree, and
every block has one owner (interface database); a commit takes effect on every
NPU or none, and returns (commit engine); an ID has one owner and none is lost
(ID generator); memory and DB agree on what the next boot uses, and only
validated values become current (switch profile); a listener ends up with the
ports that are mapped (interface helpers); what a reader was told stays true for
as long as it may rely on it (VRF map, bridge VLANs, ID table); every query stays
inside the tables, whatever switch.xml holds (topology); every wait and every
enumeration ends (base MAC, diag shell, profile tables).

## Modules

| Module | Models | MC module, configurations |
|---|---|---|
| `IfRegistry` | what the interface database promises: one set of interfaces with keys of their own | |
| `IfMapping` | interface database, shown to implement `IfRegistry` | `MCIfMapping`; `IfMapping`, `IfMappingVrf` |
| `IfWalk` (extends `IfMapping`) | threads that enumerate it with `dn_hal_get_next_ifindex` | `MCIfWalk`; `IfWalk` |
| `PortMapping` (extends `IfMapping`) | interface helpers; an interface manager, an event queue and a listener around the database | `MCPortMapping`; `PortMapping` |
| `AtomicObj` | what the commits promise: one step on all NPUs or none | |
| `BaseObj` | `base_obj_t` and the commit engine, shown to implement `AtomicObj` | `MCBaseObj`; `BaseObj`, `BaseObjLive` |
| `IdPool` | what the header promises of `id_generator_t` | |
| `IdGenerator` | `id_generator_t`, shown to implement `IdPool` | `MCTables`; `Tables` |
| `SwitchProfile` | boot options, `nas_switch_init` | `MCSwitchProfile`; `SwitchProfile`, `SwitchProfileAcl`, `SwitchProfileName`, `SwitchProfileTopology` |
| `ProfileWalk` | NPU profile pairs, array of ACL groups, their get-next functions | `MCTables`; `Tables` |
| `SwitchTopology` | the parser of switch.xml, topology and feature tables, queries | `MCTables`; `Tables` |
| `BaseMac` | the two loops that wait for the base MAC, against dying services | `MCTables`; `Tables` |
| `VrfMap`, `BridgeVid`, `ObjIdTable` | VRF map, bridge VLANs, NDI object ID table | `MCTables`; `Tables` |
| `DiagShell` | the diag shell daemon and its RPC | `MCTables`; `Tables`. By itself; `DiagShell` |
| `IfMapping_proofs`, `IfWalk_proofs`, `PortMapping_proofs`, `BaseObj_proofs`, `IdGenerator_proofs`, `SwitchProfile_proofs` | theorems and proofs about the module of that name | |
| `Topology_proofs` | theorems and proofs about `SwitchTopology` and `ProfileWalk` | |
| `Tables_proofs` | theorems and proofs about `VrfMap`, `BridgeVid` and `ObjIdTable` | |

Operators whose comment begins with "mutant:" are wrong variants of the definition that follows them. No
specification uses them: they show that each property can fail.

`MCTables` checks the components that share no state in one run. A behaviour
exercises one of them, chosen at the start (`focus`), so the state space is the
sum of theirs.

### IfMapping and IfWalk

`heap` is the set of `interface_ctrl_t` records by address, `if_mappings` the
search maps (with `if_name_map` as the map of the query type IF_NAME), `live`
the allocated description blocks. Each public function holds `db_lock` from its
first access to its last, so a call is one action. A thread keeps the structure
it was given (`copy`) and may pass it back later: `DeregisterCopy`,
`RegisterCopy`. `if_records` is the domain of allocated addresses. 64-bit keys
are the values they pack; the packing itself is injective for the field widths
and is not modelled, nor is the debug dump. A key equal to `INVALID_KEY` arises
from unmapped ports only.

The allocation of a description may fail at any update; the code returns an error
and `desc` keeps the address it has just deleted. A thread may register its copy
with the `desc` pointer it was given, or null it first. `dangling` is history: the
addresses that came into a record, or stayed in one, in these two ways. To delete
a block that is not allocated is undefined, and the allocator aborts the process:
no step does it (`MayDelete`). A dangling address may be allocated again, to the
record that holds it or to another. `DescOwned` says how far the harm goes: to no
other address.

`IfRegistry` has one set of interfaces and what each thread was given last. The
refinement maps the records, without their addresses and description pointers,
to that set. `Enter` refuses an interface that any query would find; `Withdraw`
takes one away whole; `Update` changes the MAC address or the router information
of one, `Give` hands one out as it is. A removal whose details name several
interfaces by different keys takes the one that the first query in order finds
(`RemovesFirstFound`, an action property next to the refinement).

`IfWalk` adds walkers that hold no lock between calls. On an empty set the first
call reads past the end; the value read is any of `Garbage`.

### PortMapping

The database of `IfMapping` with three parties around it. The interface manager
(external) moves an interface the only way the database allows, with a DEREG and
a REG, then publishes one SET event for the port left and one for the port
joined; a delete publishes a DELETE event. Events wait in a queue. The listener
(external) asks `nas_get_phy_port_mapping_change` about each and sets up or
cleans up the port. `MappingChange` is that function: it reads the database when
the event is handled, so the two may be several changes apart. An event names
the interface, or gives its index (`ByIndex`). The other helpers are operators,
each a search by its own key; conversions of MAC addresses between strings and
bytes are the value they denote.

### BaseObj

One object: `stored` in the module's table, `work` the new object or the copy
that a request edits, `hw` what each NPU holds, `txn` the commit in progress
with what is left to push and the tracker. A commit is a sequence of steps, one
per push, each of which may succeed, throw, or (on `SkipNpus`) report that it
was not pushed. `bad` records the NPUs where an undoing push failed: there the
code only logs, and the properties except them. The NPUs and attributes of one
phase are pushed in any order, which includes the order of the sets in the code.

`AtomicObj` has the object in NDI, what each NPU holds between commits, and the
commit in progress. A commit ends with `Succeed`, which gives every NPU what the
target says, or with `Fail`, which changes nothing. `Lose` takes an NPU out of the
promise: it happens after a fault, or in a commit that is itself a rollback. In the
refinement an NPU shows what the object in the table says until the commit ends,
and the NPUs in `bad` are the lost ones.

External, and modelled from how the engine uses them: `push_*_to_npu` (changes
one NPU or throws and changes nothing; a create needs the object to be absent,
the others need it present), the handlers of the application modules that copy,
commit and store objects. `alloc_fill_ndi_obj` is assumed not to throw.
Non-leaf attributes (overrides in other repositories) are left out.
`mark_ndi_removed` has no caller in the repository.

### IdPool and IdGenerator

The bitmap is the set of its set bits, `ArrayBits` its size in whole bytes. The
refinement maps the used IDs to `(0..capacity) \ bitmap`. The source of a move
(whose bitmap pointer becomes null) is not followed. `watched` is any one ID,
chosen at the start, and `spared` the IDs that have been unused ever since
`alloc_id` returned it last, so `ReuseInTurn` is about every ID. It does not say
that IDs come back in the order of their release, which is not so: an ID released
later is returned first when it is nearer to the position.

### SwitchProfile

`def`, `cur`, `next` are the default, current and next-boot members of
`nas_switch_info`, as functions from options to values; `running` and `startup`
the CPS databases. The boot is five steps (`LoadXml`, `ParseDb`, `ParseAclDb`,
`PutAclGroup` for each group, `InitDone`); the process may die before any of
them. Widths matter in `AsHeld` (bool and uint8_t members). External: nas-l2,
which updates the running DB after a set function has accepted a value, saving
and erasing the startup DB, crashes and upgrades. `unput` remembers the ACL
groups that a failed commit left out. `NextBootTruth` is about the options that
the code records at all (`Recorded`): where it does not, the case is listed below
under disagreements.

### ProfileWalk

`npu_profile_kvpair` is the map, filled node by node; `app_group_info` the array
with one element per pool, of which the groups fill the first. A walk is what its
caller keeps: the last key and the answers. Files with more groups than pools,
which write past the array, with an empty key or with two groups of one name are
left out.

### SwitchTopology

`_fn_switch_parser` is called once per node, in the order of the file; each kind
of node is an action and each early return a disjunct, a failing calloc included:
the counts are set before their tables are allocated, so `lost` remembers the table
that is missing (a switch's list, or `MISS` for the inventory). `SkipRest` is the return
at its top once `failed` is set. `MISS` is an absent attribute or a null pointer,
`BAD` a list that cannot be split. `MCFiles` has every order of four nodes out of
the topology node, two switches, the features, and their faulty forms.

### BaseMac

A failed round of a loop is a stuttering step. The platform service goes from
down to registered to ready, and dies; the owner of the switching entity goes
through its two loops and may register the entity before it has the address;
both die up to `MaxRestarts` times.

### VrfMap, BridgeVid, ObjIdTable

`VrfMap` keeps the key strings (`keyText`) and the records (`ctrl`) by address,
since they are separate blocks; few addresses make allocations fail. Readers of
`VrfMap` and `BridgeVid` keep what they were told and whether the entry has
stayed since. `ObjIdTable` follows the conversion entry by entry, in any order,
with a failure at any; the CPS object is the function from list index to
attributes.

### DiagShell

Main thread: the interpreter runs a handler between two bytecodes, so a signal
that arrives is noted (`tripped`) and handled before the next step; there is no
bytecode between the call of `signal.pause()` and its wait. RPC: the socket
holds text with or without a prompt (`unread`), and a timeout expires when it is
empty. The NPU shell speaks at any time, up to `MaxChunks` times, or closes the
connection.

## Runs

Passing runs:

| Run | States | Shows |
|---|---|---|
| `if_mapping` | 71,362 | maps and records agree in both directions, `if_indexes` is exact, and all of it implements one set of interfaces from which a removal takes the one found first, with interfaces that collide by port, name, index or object id and a thread that acts on a stale copy; with failing allocations and a copy registered with its pointer, every description address that is not concerned has one owner, and no description is lost |
| `if_walk` | 35,815 | a walk misses no interface that stays registered and ends, whatever comes and goes |
| `base_obj` | 4,272,460 | commits are atomic over the NPUs and every change is on the tracker, with failures of any push and of any undoing push, retries and a growing switch; the engine implements `AtomicObj` |
| `base_obj_live` | about 500,000 | every commit returns |
| `port_mapping` | 313,817 | the listener has set up the ports that are mapped, unless an event about them is still to come; the helpers agree whichever key they search by |
| `switch_profile` | 1,076,845 | next-boot values in memory are those a boot from the running DB would give; the getters of configured values answer what the next boot makes current; only validated values become current; through DB failures at any point, crashes and an upgrade |
| `switch_profile_acl` | 3,731,709 | the first and the third of these for the ACL pool counts, which go to the DB group by group with counts over 255 and commits that fail, and for the VXLAN options, on switches with and without the optional features |
| `tables` | 428,902 | `IdGenerator`: implements the pool, and returns no ID a second time while another has been unused since. `VrfMap`: entries lead to blocks of their own, an object id stays until the VRF is deleted. `BridgeVid`: so does the VLAN of an attached bridge. `ObjIdTable`: a table arrives as it was sent. `SwitchTopology`: after any fault the queries stay inside the tables, except for the table that a failed calloc was for, and the NPU count is the number of NPUs listed. `ProfileWalk`: enumerations give what switch.xml says, and end. `BaseMac`: once the platform service is ready every user returns with the address. `DiagShell`: every RPC returns |

Runs in which the code does not do what a comment, a message or a header says:

| Run | Disagreement |
|---|---|
| `if_mapping_vrf` | `_cleanup` looks at the caller's VRF, not at the record's, when it updates `if_indexes` |
| `switch_profile_topology` | the parse failure is overwritten in `nas_switch_init` |
| `switch_profile_name` | the configured profile name is cut to the length of the default's |
| `diag_shell` | SIGTERM between the test of `shutdown` and `signal.pause()` is lost, the daemon waits on |

Further disagreements met while modelling. The models contain them, unless noted;
the constants or the property named say where a passing run excepts them.

* `dn_hal_get_next_ifindex` with a null pointer on an empty database reads past
  the end and succeeds, where `hal_if_mapping.h:208` promises the lowest
  available index (`Garbage`).
* An event handled between the DEREG and the REG of a move finds no interface:
  `nas_get_phy_port_mapping_change` returns false and the port left is never
  cleaned up, against the comment at `nas_if_utils.cpp:212` (`Atomic = FALSE` in
  `PortMapping`; TLC then violates `ListenerAgrees`).
* `dn_hal_get_interface_info` hands out the `desc` pointer. A caller that
  deregisters and re-registers the structure registers a freed block
  (`dangling` in `IfMapping`).
* `dn_hal_update_intf_desc` deletes the old description first; when the allocation of
  the new one throws, the handler at `hal_if_mapping.cpp:542` returns an error and
  `desc` stays at the deleted block, against `hal_if_mapping.h:112` ("Pointer to
  interface description"). The next update or removal deletes it again (`dangling`).
* After a failed calloc of the topology parser the count is set and the table is
  null: `nas_switch`, or `nas_find_switch_id_by_npu`, reads through it if the
  process goes on (`lost` in `SwitchTopology`).
* `operator=` of `id_generator_t` keeps the old `_max_ids` with the new bitmap
  (any other capacity in `MoveSizes`).
* `commit_delete` leaves `_ndi_created` set, so a second one is not refused; on
  the NPUs it can only throw, which `base_obj` includes.
* `following_switch_npus` stays true when the switch grows.
* A VXLAN table size that is not stored boots as 0 when the riot attribute is
  stored ("if vlaues are not stored in DB update next boot with def values")
  (`Recorded`).
* A failed commit of an ACL group ends the loop and is not reported; the groups
  not put keep stale values in the running DB (`Recorded`, `unput`).
* A current profile that an upgrade has dropped is not written to the running DB.
  After an upgrade to a release that supports less, a stored value is made
  current without validation; so the releases of the runs differ in defaults and
  features, not in supported values.
* The getter of an ACL group with the qualifier TARGET answers the current count
  when none is stored, where the next boot uses the default (not modelled).
* The array of ACL groups has one element per pool. With two or more pools
  without a group, `nas_sw_acl_profile_db_get_next` repeats its last answer for
  ever (`WalksEnd`). An NPU profile key that is empty restarts that enumeration.
* A `switch` node given twice is counted twice by `nas_switch_get_max_npus`
  ("total number of NPUs", `nas_switch.h:97`), and a bad list in the second
  leaves the count of the first with a null pointer (`MCFiles` has each node
  once). Missing attributes log "Exiting..." and go on. `switch_ids` gives the
  number of switches only. `strncmp` with the length of the node's name lets a
  `switch` node match every longer name. The value of a resilient hash attribute
  is ignored.
* An add of a VRF that exists loses a key and a record and returns OK; a failed
  `new` loses the key; an update of a missing VRF returns OK.
* An ID table without entries cannot be transmitted: the receiver keeps what it
  had.
* The error paths of `nas_fetch_base_mac` leave the CPS request open and an empty
  list of answers is not tested (not modelled).
* In the diag shell the slice at line 67 has no effect; with an empty prompt
  the first chunk is the whole answer; when the NPU shell closes the connection
  `_flush` and `_get_data` read nothing for ever (`RpcReturns` excepts this).

Bounds. Interface database: two records (three for walks) and six interfaces
chosen so that each pair of key kinds collides; two records are enough for one
to take an entry of the other; two description
blocks, so that one address can be dangling and the other in use. No record has both
the second MAC address and the second router information (`InScope`), which no
condition of the code reads. Commit engine: three ordinary NPUs, so that a
failure of the third push has two changes to undo and the first undoing push can
fail, and one NPU that is skipped and joins late; one attribute with two values.
The symmetry is over NPUs that the configuration treats alike. IDs: capacity 5 in
a byte of 8 bits, with IDs in range, just outside and far outside. Profile: two
releases with different defaults; for each option values that are accepted, that
are refused and, where widths matter, that are cut; options are spread over the
runs, since they do not interact except through the one riot attribute.
Port mapping: two interfaces that share two ports and a LAG, four events, so that
an interface can leave a port and come back before the first event is handled.
VRFs: two names and three addresses of each kind, so that memory runs out after
one repeated add. ID table: three NPUs. Topology: files of four nodes. NPU
profile: files of three nodes over two keys. Base MAC: two users, three deaths.
Diag shell: three chunks of text. `Garbage`, `MoveSizes`, `NpuLists`, `Choices`,
`Removable`, `MaxEvents`, `MaxRestarts` and `MaxChunks` bound inputs.

Fairness. `BaseObj`: a commit is one call of a thread that does not wait for
anything but NDI calls, so weak fairness of its steps. `IfWalk`: a walker that
was given an index calls again; nothing is assumed of the other threads.
`ProfileWalk`: the caller calls until it is told to stop. `BaseMac`: the loops
go round, and a service that is down is started by systemd; nothing keeps it from
dying again but the bound. `DiagShell`: weak fairness of the main thread and of
the RPC, which wait in nothing but calls with a timeout, except for
`signal.pause()`, which ends with a signal. No fairness is assumed elsewhere.

## Proofs

`IfMapping_proofs`, for any interfaces, threads and addresses:

* `TypeCorrect`, `MapsConsistent`. The inductive invariant is
  `TypeOK /\ IndexConsistent`. Consistency in both directions is needed: a
  registration is refused when one key is taken, which protects the other
  records only if every key of theirs is in its map, and a removal erases all
  keys of the record found, which are its own only if every entry leads to a
  record with that key.
* `IndexesExact`: `IfIndexesExact`, under the hypothesis `VrfAgree` that details
  which share a key agree on the VRF. `if_mapping_vrf` shows it is needed.
  With it the caller's VRF is the record's.
* `DescriptionsOwned`: `DescOwned`, without further hypotheses. The invariant is
  `DescOwned` with the types and the maps: a block is freed by the record that holds it
  alone, and an address given to another record while one still holds it is a
  dangling one.
* `RefinesRegistry`: `ImplementsRegistry`, from the same invariant as
  `MapsConsistent`. One registered record for each interface follows from it:
  two records with the same details would share an entry of a map. A registration
  that passes `Conflict` finds no record by any query, since every key of every
  record is in its map.
* `RemovalsNamed`: `RemovesFirstFound`. A search is exact by `IndexConsistent`, so
  the first hit in the maps is the first hit among the interfaces.

`IdGenerator_proofs`, for any capacity, bitmap size and IDs:

* `TypeCorrect`, by induction on `TypeOK` as it stands.
* `RefinesPool`: `ImplementsPool`, when moves keep the capacity (with another
  capacity TLC violates it). The core is
  `SearchFinds`: the search returns a bit whenever there is a free ID from its
  start on, which rests on the existence of least elements in sets of naturals.
* `ReusedInTurn`: `ReuseInTurn`. `TurnInv` says where the spared IDs are: on the way
  from the position round to the watched ID (`Between`). The search takes the first
  unused ID on that way, so it meets each of them before the watched one.

`IfWalk_proofs`, for any number of walkers:

* `WalksComplete`: `WalkComplete`, under `VrfAgree`, since a walk sees what
  `if_indexes` holds. `WalkInv` adds to the invariants of the database that an
  interface which stayed registered has been returned or is above the walker's
  position (`SeenOrAhead`): the lock is given up between calls, and the next call
  finds the least index above the position among those registered then.

`PortMapping_proofs`, for any interfaces, ports, events and queue length:

* `HelpersConsistent`: `HelpersAgree`. The interface manager reaches the database
  through its own calls only (`DbStep`), so `IndexConsistent` carries over, and
  each answer of a helper is a search that it makes exact.
* `ListenerTold`: `ListenerAgrees`, under `Coherent`: a name goes with an
  `if_index`, the type of an interface stays, a port has one tap, events that are
  not about ports name none, and no event is handled inside a DEREG-REG pair
  (`Atomic`; without it TLC violates the property). The invariant `Told` needs
  three facts that the property does not say. A change that took an interface out
  can put it back: its keys are free and there is room (`Moves`). A DELETE of an
  earlier life of an interface that is mapped again has the SET of its present
  port behind it (`SetFollows`), so handling the DELETE late does no harm. The
  listener knows nothing of an interface that is gone, or a DELETE is still to come
  (`Forgotten`), so a SET that finds no interface and is ignored leaves nothing
  behind.

`BaseObj_proofs`, for any NPUs, attributes and values:

* `TypeCorrect`, `CommitIsAtomic` (`CommitAtomic`), `AllChangesTracked`
  (`ChangesTracked`). `CommitAtomic` speaks of the moments between commits; the
  invariant `IInv` says what holds inside one. On the way forward each NPU holds
  the old object if it is still to do and the new one if not (`Forward`); whatever
  differs from the old object has an element on the tracker that undoes it
  (`Undoable`), and each element fits what its NPU holds (`Fits`), so a rollback
  that works through the tracker ends at the old object. `Phases` says that a
  copy differs from the object in the table at dirty attributes only: the engine
  pushes no others.
* `RefinesAtomic`: `ImplementsAtomic`, from `IInv` and `Quiet` (nothing is left of a
  commit that has ended). `Held` says that what the NPUs show follows from the
  object, so a push is a stuttering step, the end of a commit is `Succeed` or `Fail`,
  and only a failed undoing push or one in a rolling-back commit is `Lose`.

`SwitchProfile_proofs`, for any releases, ACL groups and requested values:

* `TypeCorrect`. The invariant `Base` ties the defaults in memory to the release
  that runs.
* `ConfiguredAnswers`: `ConfiguredIsNext`, under `NamesFit`: no profile has a
  longer name than a release's default (`switch_profile_name` shows why). A
  profile in either DB is one that some release supports (`Names`).
* `NextBootTold`: `NextBootTruth`, under `ProfilesKnown`: a release with profiles
  has its default among them and knows those of the others. `Truth` follows the
  boot: the options agree from `ParseDb` on, each ACL group once it has been put,
  and what a boot wrote back is read again as the same value, whatever its width
  cut off (`ReadAgain`).
* `CurrentIsSupported`: `CurrentSupported`, under `Compatible`: each release
  can run with the defaults of the others and with those of the values asked for
  that another one accepts; their features and limits may differ. `Support` says
  that both databases hold only values with which any release can run, so an
  upgrade between a save and a boot does no harm; for the VXLAN sizes it adds that
  0 is one wherever a boot would take 0 for a missing size.

`Topology_proofs`:

* `QueriesSafe`: `TopologyQueriesSafe`, for files in which a switch whose NPU list
  cannot be split is described once (`OneDescription`). The invariant adds
  that the entry such a node will overwrite counts no NPUs yet (`Untouched`). A calloc
  may fail at any node: the parse then stops, so `lost` has one element at most.
* `MaxNpusTotal`: `MaxNpusIsTotal`, for files that give each switch and the inventory
  once (`EachOnce`; a switch given twice is counted twice, see above). The total is
  the number of places in the lists, so no induction over the table is needed:
  `CountInv` says that an entry which a later node fills lists nothing yet, so the
  places a node adds are new and their number is what the counter grows by.
* `AclWalkSeesAll`: `AclWalkIsArray`. The groups come first and have names of their
  own (`GroupsFirst`), so the search by name finds the element that was shown last,
  until the unused elements, which are all alike.
* `NpuWalkGivesFile`: `NpuWalkIsFile`. The map holds for each key the last value of
  the nodes visited (`PairsAreLast`); the walk has given exactly the keys up to its
  position (`Passed`), by a bijection between keys and last nodes.

`Tables_proofs`:

* `VrfTableSound`, `VrfOidsStable` (one invariant, `VrfInv`: that an id stays
  needs that no other entry shares the record), `VidsStable`.
* `TablesRoundTrip`: `RoundTrip`. `Copied`: the object holds one entry for each NPU
  visited, at the list indexes before the next one.

Each inductive invariant holds on the configuration of its run, as TLC shows when it is
given as an INVARIANT. The hypotheses hold on the instances of the runs: `VrfAgree` in `if_walk`,
`Coherent` in `port_mapping`, all three of `SwitchProfile_proofs` in
`switch_profile`, `ProfilesKnown` and `Compatible` in `switch_profile_acl` as well,
`OneDescription` and `EachOnce` in `tables`. The assumptions on constants say that the
values used as "none" are no others (`NullAssumption`, `NoneAssumption`,
`FreeAssumption`, `AbsentAssumption`, `EventAssumption`), and which type the
constants have (the details, files, releases and capacities); TLC evaluates them
in the runs.

Every safety property of the passing runs is the subject of a theorem. Only
model-checked is liveness, which is out of reach of TLAPS: `CommitTerminates`,
`WalkTerminates`, `WalksEnd`, `EveryoneGetsMac` and `RpcReturns`.

## Not modelled

The getters of `nas_switch_profile.cpp` that copy a current or default value, and
the two that build CPS objects of the ACL groups: they change nothing. Non-leaf
attributes and `alloc_fill_ndi_obj` of the commit engine, whose code is in other
repositories. The debug dump of the interface database. The shell client
(pure I/O); python test helpers and constants (no state). Data races inside the
containers (`_locate` inserts under the read lock; the reserved VLAN is read
without the mutex): each call is atomic in the models.

## Plan

1. Done: every component above; theorems for every safety property of the passing
   runs; the interface database, the commit engine and the ID generator shown to
   implement their abstract specifications.
2. Open: `ListenerTold` is for interfaces of VRF 0, the only ones that the lookup by index
   of `nas_get_phy_port_mapping_change` finds; with interfaces of other VRFs next to them
   `Told` would have to tell equal indexes of two VRFs apart.
