------------------------------- MODULE BaseMac -------------------------------
(***************************************************************************)
(* The base MAC address (nas_switch_utl.cpp).  One service, the owner of   *)
(* the switching entity, gets it from the platform service (PAS) with      *)
(* nas_get_platform_base_mac_address; all others ask that entity with      *)
(* nas_switch_wait_for_sys_base_mac.  Both wait in loops without an end; a *)
(* round that fails changes nothing and is a stuttering step.              *)
(*                                                                         *)
(* PAS and the owner may die and come back a bounded number of times, at   *)
(* any point of another's loop.  External: PAS, and the owner, which       *)
(* registers the entity before or after it has the address.                *)
(***************************************************************************)
EXTENDS Naturals

CONSTANTS MacUsers,
          BaseAddr,       \* the address in the chassis object
          NoMac,          \* not filled in
          MaxRestarts     \* bound on deaths of PAS and of the owner

ASSUME MacAssumption == MaxRestarts \in Nat /\ BaseAddr # NoMac

VARIABLES pas,            \* "down", "registered" or "ready" (has the address)
          owner,          \* "wait" and "fetch" are its two loops; then "done"
          entity,         \* is the switching entity registered?
          entityMac,      \* its DEFAULT_MAC_ADDRESS
          userMac,        \* *mac_base of each user
          waiting,        \* users in the loop
          restarts

macVars == <<pas, owner, entity, entityMac, userMac, waiting, restarts>>

MacInit ==
  /\ pas = "down"
  /\ owner = "wait" /\ entity = FALSE /\ entityMac = NoMac
  /\ userMac = [u \in MacUsers |-> NoMac]
  /\ waiting = MacUsers
  /\ restarts = 0

-----------------------------------------------------------------------------
(* The platform service *)

PasStarts ==
  /\ \/ pas = "down" /\ pas' = "registered"
     \/ pas = "registered" /\ pas' = "ready"
  /\ UNCHANGED <<owner, entity, entityMac, userMac, waiting, restarts>>

PasDies ==
  /\ pas # "down" /\ restarts < MaxRestarts
  /\ pas' = "down" /\ restarts' = restarts + 1
  /\ UNCHANGED <<owner, entity, entityMac, userMac, waiting>>

-----------------------------------------------------------------------------
(* nas_get_platform_base_mac_address *)

\* first loop: until the chassis object is registered
OwnerSeesPas ==
  /\ owner = "wait" /\ pas # "down"
  /\ owner' = "fetch"
  /\ UNCHANGED <<pas, entity, entityMac, userMac, waiting, restarts>>

\* mutant: the address is fetched once
OwnerFetchesOnce ==
  /\ owner = "fetch"
  /\ owner' = "done"
  /\ entityMac' = IF pas = "ready" THEN BaseAddr ELSE NoMac
  /\ UNCHANGED <<pas, entity, userMac, waiting, restarts>>

\* second loop: until nas_fetch_base_mac succeeds; a service that has died
\* since, or has no address yet, is asked again
OwnerFetches ==
  /\ owner = "fetch" /\ pas = "ready"
  /\ owner' = "done"
  /\ entityMac' = BaseAddr
  /\ UNCHANGED <<pas, entity, userMac, waiting, restarts>>

OwnerRegisters ==
  /\ ~entity
  /\ entity' = TRUE
  /\ UNCHANGED <<pas, owner, entityMac, userMac, waiting, restarts>>

OwnerDies ==
  /\ restarts < MaxRestarts
  /\ owner' = "wait" /\ entity' = FALSE /\ entityMac' = NoMac
  /\ restarts' = restarts + 1
  /\ UNCHANGED <<pas, userMac, waiting>>

-----------------------------------------------------------------------------
(* nas_switch_get_sys_mac_base and the loop around it *)

\* the entity answers, and with the attribute
Answers == entity /\ entityMac # NoMac

UserGetsMac(u) ==
  /\ u \in waiting /\ Answers
  /\ userMac' = [userMac EXCEPT ![u] = entityMac]
  /\ waiting' = waiting \ {u}
  /\ UNCHANGED <<pas, owner, entity, entityMac, restarts>>

\* the loops, and services that are started when they are down
MacProgress ==
  \/ PasStarts \/ OwnerSeesPas \/ OwnerFetches \/ OwnerRegisters
  \/ \E u \in MacUsers : UserGetsMac(u)

MacNext == MacProgress \/ PasDies \/ OwnerDies

MacSpec == MacInit /\ [][MacNext]_macVars

-----------------------------------------------------------------------------
(* Properties *)

\* Once the platform service has been ready every user stops waiting and has
\* the base address, although services die in between and the entity may be
\* registered without it: no loop gives up or waits for an answer that cannot
\* come.
EveryoneGetsMac ==
  pas = "ready" ~> \A u \in MacUsers : u \notin waiting /\ userMac[u] = BaseAddr

=============================================================================
