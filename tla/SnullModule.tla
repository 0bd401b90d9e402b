------------------------------ MODULE SnullModule ------------------------------
(***************************************************************************)
(* Loading and unloading of snull's two interfaces, from Networking/         *)
(* Networking_doc.c: zurico_init_module, device_init and snull_cleanup.      *)
(* The text calls the array zurico_devs where it allocates and snull_devs    *)
(* where it registers and frees, and device_init also snull_init: they are   *)
(* one here.  Users bring an interface up or down as soon as it is           *)
(* registered, before init returns.                                          *)
(***************************************************************************)
EXTENDS Integers, FiniteSets

CONSTANTS
  NetDevices,  \* the net_device structures memory has room for
  NetNull,     \* the null pointer
  MaxFailed    \* bound: allocations that fail

NetAssumption ==
  /\ NetNull \notin NetDevices
  /\ MaxFailed \in Nat

ASSUME NetAssumption

Ifs == 0..1

VARIABLES
  napi,        \* use_napi, chosen when the module is loaded
  net_pc,      \* where the module is
  net_i,       \* the index its loop has reached
  snull_devs,  \* the static array of pointers
  netdevs,     \* the structures allocated, as device_init left them
  registered,  \* the structures the network layer knows
  up,          \* those that are up
  failed       \* how many allocations have failed

netVars == <<napi, net_pc, net_i, snull_devs, netdevs, registered, up, failed>>

(* What the driver set up of a structure.                                    *)
Structures == [ops : BOOLEAN, poll : BOOLEAN, rx_ints : BOOLEAN, pool : BOOLEAN]
BlankDevice == [ops |-> FALSE, poll |-> FALSE, rx_ints |-> FALSE, pool |-> FALSE]

(* memset over the private data, where the napi structure is too.            *)
Zeroed(d) == [d EXCEPT !.poll = FALSE, !.rx_ints = FALSE, !.pool = FALSE]

(* ether_setup and the operations are for every interface; the rest only     *)
(* with use_napi: the poll function, the memset, which takes it away again,  *)
(* receive interrupts and the pool.                                          *)
device_init ==
  LET named == [BlankDevice EXCEPT !.ops = TRUE]
      added == [named EXCEPT !.poll = TRUE]
  IN  IF napi THEN [Zeroed(added) EXCEPT !.rx_ints = TRUE, !.pool = TRUE] ELSE named

Allocated == {d \in NetDevices : netdevs[d] # BlankDevice}

NetInit ==
  /\ napi \in BOOLEAN
  /\ net_pc = "unloaded" /\ net_i = 0
  /\ snull_devs = [i \in Ifs |-> NetNull]
  /\ netdevs = [d \in NetDevices |-> BlankDevice]
  /\ registered = {} /\ up = {}
  /\ failed = 0

-----------------------------------------------------------------------------
(* The statics go with the module's code.                                    *)
NetGone ==
  /\ net_pc' = "unloaded" /\ net_i' = 0
  /\ snull_devs' = [i \in Ifs |-> NetNull]

NetStep(l) == IF net_i = 0 THEN net_pc' = net_pc /\ net_i' = 1 ELSE net_pc' = l /\ net_i' = 0

NetInsmod ==
  /\ net_pc = "unloaded"
  /\ net_pc' = "alloc"
  /\ napi' \in BOOLEAN
  /\ UNCHANGED <<net_i, snull_devs, netdevs, registered, up, failed>>

(* alloc_netdev calls device_init on what it allocates, or gives NULL.       *)
AllocNetdev ==
  /\ net_pc = "alloc"
  /\ \/ \E d \in NetDevices \ Allocated :
          /\ netdevs' = [netdevs EXCEPT ![d] = device_init]
          /\ snull_devs' = [snull_devs EXCEPT ![net_i] = d]
          /\ UNCHANGED failed
     \/ /\ failed < MaxFailed
        /\ failed' = failed + 1
        /\ UNCHANGED <<netdevs, snull_devs>>
  /\ NetStep("test")
  /\ UNCHANGED <<napi, registered, up>>

(* With one pointer NULL init returns -1 and keeps the other structure.      *)
AllocTest ==
  /\ net_pc = "test"
  /\ IF \E i \in Ifs : snull_devs[i] = NetNull
     THEN NetGone
     ELSE net_pc' = "register" /\ UNCHANGED <<net_i, snull_devs>>
  /\ UNCHANGED <<napi, netdevs, registered, up, failed>>

(* Mutant: init fails when its last registration does.                       *)
RegisterNetdevFatal ==
  /\ net_pc = "register"
  /\ \/ registered' = registered \cup {snull_devs[net_i]}
        /\ NetStep("loaded") /\ UNCHANGED snull_devs
     \/ /\ UNCHANGED registered
        /\ IF net_i = 0 THEN NetStep("loaded") /\ UNCHANGED snull_devs ELSE NetGone
  /\ UNCHANGED <<napi, netdevs, up, failed>>

(* register_netdev makes the interface available, or fails and is logged:    *)
(* init goes on and returns 0 in the end.                                    *)
RegisterNetdev ==
  /\ net_pc = "register"
  /\ registered' \in {registered, registered \cup {snull_devs[net_i]}}
  /\ NetStep("loaded")
  /\ UNCHANGED <<napi, snull_devs, netdevs, up, failed>>

(* ifconfig.                                                                 *)
IfUp(d) ==
  /\ d \in registered \ up
  /\ up' = up \cup {d}
  /\ UNCHANGED <<napi, net_pc, net_i, snull_devs, netdevs, registered, failed>>
IfDown(d) ==
  /\ d \in up
  /\ up' = up \ {d}
  /\ UNCHANGED <<napi, net_pc, net_i, snull_devs, netdevs, registered, failed>>

NetRmmod ==
  /\ net_pc = "loaded"
  /\ net_pc' = "cleanup"
  /\ UNCHANGED <<napi, net_i, snull_devs, netdevs, registered, up, failed>>

(* snull_cleanup: unregister_netdev takes the interface down first, and does *)
(* nothing for one whose registration failed.                                *)
UnregisterNetdev ==
  /\ net_pc = "cleanup" /\ snull_devs[net_i] # NetNull
  /\ registered' = registered \ {snull_devs[net_i]}
  /\ up' = up \ {snull_devs[net_i]}
  /\ net_pc' = "free"
  /\ UNCHANGED <<napi, net_i, snull_devs, netdevs, failed>>

(* Mutant: the loop ends after the first interface.                          *)
FreeFirstOnly ==
  /\ net_pc = "free"
  /\ netdevs' = [netdevs EXCEPT ![snull_devs[net_i]] = BlankDevice]
  /\ NetGone
  /\ UNCHANGED <<napi, registered, up, failed>>

(* snull_teardown_pool and free_netdev.                                      *)
FreeNetdev ==
  /\ net_pc = "free"
  /\ netdevs' = [netdevs EXCEPT ![snull_devs[net_i]] = BlankDevice]
  /\ IF net_i = 0
     THEN net_pc' = "cleanup" /\ net_i' = 1 /\ UNCHANGED snull_devs
     ELSE NetGone
  /\ UNCHANGED <<napi, registered, up, failed>>

NetNext ==
  \/ NetInsmod \/ AllocNetdev \/ AllocTest \/ RegisterNetdev
  \/ NetRmmod \/ UnregisterNetdev \/ FreeNetdev
  \/ \E d \in NetDevices : IfUp(d) \/ IfDown(d)

NetSpec == NetInit /\ [][NetNext]_netVars

-----------------------------------------------------------------------------
NetTypeOK ==
  /\ napi \in BOOLEAN
  /\ net_pc \in {"unloaded", "alloc", "test", "register", "loaded", "cleanup", "free"}
  /\ net_i \in Ifs
  /\ snull_devs \in [Ifs -> NetDevices \cup {NetNull}]
  /\ netdevs \in [NetDevices -> Structures]
  /\ registered \subseteq NetDevices /\ up \subseteq registered
  /\ failed \in 0..MaxFailed

(* The network layer never reaches a structure that was freed, nor code that *)
(* is gone: whichever allocation or registration fails, and whenever users   *)
(* bring interfaces up, what is registered is a live structure of a loaded   *)
(* module.                                                                   *)
RegisteredStructuresLive ==
  /\ registered \subseteq Allocated \cap {snull_devs[i] : i \in Ifs}
  /\ registered # {} => net_pc \in {"register", "loaded", "cleanup", "free"}

(* "Releases the net_device structure back to the system": over any number   *)
(* of loadings, a structure nothing points to any more was left by a failed  *)
(* allocation of the other, and each failure leaves at most one.             *)
StructuresFreed ==
  Cardinality(Allocated \ {snull_devs[i] : i \in Ifs}) <= failed

(* "This initialization must be complete before calling register_netdev":    *)
(* an interface the network layer knows has receive interrupts enabled and a *)
(* pool, and, when it is to be polled, a poll function.                      *)
InitialisedWhenRegistered ==
  \A d \in registered :
    /\ netdevs[d].ops /\ netdevs[d].rx_ints /\ netdevs[d].pool
    /\ napi => netdevs[d].poll
=============================================================================
