--------------------------- MODULE SnullModuleProofs ---------------------------
(***************************************************************************)
(* Proofs about SnullModule, for any structures and any number of           *)
(* allocations and registrations that fail, and about SnullFrames, for any  *)
(* packets and any lengths of frame and header.                             *)
(***************************************************************************)
EXTENDS SnullModule, SnullFrames, FiniteSetTheorems, TLAPS

Served == {"register", "loaded", "cleanup", "free"}
Freed(i) == net_pc \in {"cleanup", "free"} /\ net_i = 1 /\ i = 0

(* Each pointer is NULL or has a structure of its own, live until the loop   *)
(* of the cleanup has passed it.                                             *)
DevicePointers ==
  /\ net_pc \in Served => \A i \in Ifs : snull_devs[i] # NetNull
  /\ net_pc = "unloaded" => \A i \in Ifs : snull_devs[i] = NetNull
  /\ net_pc = "alloc" => \A i \in Ifs : i >= net_i => snull_devs[i] = NetNull
  /\ snull_devs[0] = snull_devs[1] => snull_devs[0] = NetNull
  /\ \A i \in Ifs : snull_devs[i] # NetNull => (snull_devs[i] \in Allocated <=> ~Freed(i))
  /\ net_pc \in {"unloaded", "test", "loaded"} => net_i = 0

(* What may be registered where the module is.                               *)
Known(i) ==
  \/ net_pc = "register" /\ i < net_i
  \/ net_pc = "loaded"
  \/ net_pc = "cleanup" /\ i >= net_i
  \/ net_pc = "free" /\ i > net_i
RegisteredOnes == registered \subseteq {snull_devs[i] : i \in {j \in Ifs : Known(j)}}

(* Structures that nothing points to; and a failed allocation of this        *)
(* loading that has not cost one yet.                                        *)
Lost == Allocated \ {snull_devs[i] : i \in Ifs}
Pending ==
  \/ net_pc = "test" /\ \E i \in Ifs : snull_devs[i] = NetNull
  \/ net_pc = "alloc" /\ net_i = 1 /\ snull_devs[0] = NetNull
Paid == Cardinality(Lost) + (IF Pending THEN 1 ELSE 0) <= failed

NetInv == NetTypeOK /\ DevicePointers /\ RegisteredOnes /\ IsFiniteSet(Lost) /\ Paid

-----------------------------------------------------------------------------
LEMMA DeviceFacts ==
  BlankDevice \in Structures /\ device_init \in Structures /\ device_init # BlankDevice
<1> DEFINE named == [BlankDevice EXCEPT !.ops = TRUE]
           added == [named EXCEPT !.poll = TRUE]
           z1 == [added EXCEPT !.poll = FALSE]
           z2 == [z1 EXCEPT !.rx_ints = FALSE]
           z3 == [z2 EXCEPT !.pool = FALSE]
           i1 == [z3 EXCEPT !.rx_ints = TRUE]
           i2 == [i1 EXCEPT !.pool = TRUE]
<1>1. BlankDevice \in Structures
      BY DEF BlankDevice, Structures
<1>2. BlankDevice.ops = FALSE
      BY DEF BlankDevice
<1>3. ASSUME NEW s \in Structures PROVE [s EXCEPT !.ops = TRUE].ops = TRUE
      BY DEF Structures
<1>4. ASSUME NEW s \in Structures, NEW b \in BOOLEAN
      PROVE  /\ [s EXCEPT !.ops = b] \in Structures
             /\ [s EXCEPT !.poll = b] \in Structures /\ [s EXCEPT !.poll = b].ops = s.ops
             /\ [s EXCEPT !.rx_ints = b] \in Structures /\ [s EXCEPT !.rx_ints = b].ops = s.ops
             /\ [s EXCEPT !.pool = b] \in Structures /\ [s EXCEPT !.pool = b].ops = s.ops
      BY DEF Structures
<1>5. named \in Structures /\ named.ops = TRUE
      BY <1>1, <1>3, <1>4
<1> HIDE DEF named
<1>6. added \in Structures /\ added.ops = TRUE
      BY <1>4, <1>5
<1> HIDE DEF added
<1>7. z1 \in Structures /\ z1.ops = TRUE
      BY <1>4, <1>6
<1> HIDE DEF z1
<1>8. z2 \in Structures /\ z2.ops = TRUE
      BY <1>4, <1>7
<1> HIDE DEF z2
<1>9. z3 \in Structures /\ z3.ops = TRUE
      BY <1>4, <1>8
<1> HIDE DEF z3
<1>10. i1 \in Structures /\ i1.ops = TRUE
      BY <1>4, <1>9
<1> HIDE DEF i1
<1>11. i2 \in Structures /\ i2.ops = TRUE
      BY <1>4, <1>10
<1> HIDE DEF i2
<1>12. device_init = IF napi THEN i2 ELSE named
      BY Zenon DEF device_init, Zeroed, i2, i1, z3, z2, z1, added, named
<1>13. device_init \in Structures /\ device_init.ops = TRUE
      BY <1>5, <1>11, <1>12
<1> QED
    BY <1>1, <1>2, <1>13

LEMMA IfsFacts == 0 \in Ifs /\ 1 \in Ifs /\ \A i \in Ifs : i = 0 \/ i = 1
  BY DEF Ifs

LEMMA NoneIsNone == NetNull \notin NetDevices /\ NetNull \notin Allocated
  BY NetAssumption DEF NetAssumption, Allocated

(* One structure more to pay for at most.                                   *)
LEMMA LoseOne ==
  ASSUME NEW S, IsFiniteSet(S), NEW T, NEW x, T \subseteq S \cup {x}
  PROVE  /\ IsFiniteSet(T) /\ Cardinality(T) <= Cardinality(S) + 1
         /\ Cardinality(S) \in Nat /\ Cardinality(T) \in Nat
<1>1. IsFiniteSet(S \cup {x}) /\ Cardinality(S \cup {x}) <= Cardinality(S) + 1
  <2>1. /\ IsFiniteSet(S \cup {x})
        /\ Cardinality(S \cup {x}) = IF x \in S THEN Cardinality(S) ELSE Cardinality(S) + 1
        BY FS_AddElement
  <2>2. Cardinality(S) \in Nat
        BY FS_CardinalityType
  <2> QED
      BY <2>1, <2>2
<1>2. IsFiniteSet(T) /\ Cardinality(T) <= Cardinality(S \cup {x})
      BY <1>1, FS_Subset
<1> QED
    BY <1>1, <1>2, FS_CardinalityType

(* A step that loses nothing and does not make a failure pending pays still.*)
LEMMA PaidStays ==
  ASSUME IsFiniteSet(Lost), Paid, Lost' = Lost, failed' = failed, Pending' => Pending,
         failed \in Nat
  PROVE  IsFiniteSet(Lost)' /\ Paid'
<1>1. Cardinality(Lost) \in Nat
      BY FS_CardinalityType
<1> QED
    BY <1>1 DEF Paid

LEMMA NetInvInit == NetInit => NetInv
<1> SUFFICES ASSUME NetInit PROVE NetInv
    OBVIOUS
<1>1. NetTypeOK /\ 0 \in 0..MaxFailed
      BY DeviceFacts, NetAssumption, IfsFacts DEF NetInit, NetTypeOK, NetAssumption
<1>2. Allocated = {} /\ Lost = {}
      BY DEF NetInit, Allocated, Lost
<1>3. DevicePointers /\ RegisteredOnes /\ ~Pending
      BY IfsFacts DEF NetInit, DevicePointers, RegisteredOnes, Pending, Served
<1>4. IsFiniteSet(Lost) /\ Paid
      BY <1>2, <1>3, FS_EmptySet DEF Paid, NetInit
<1> QED
    BY <1>1, <1>3, <1>4 DEF NetInv

-----------------------------------------------------------------------------
(* The steps that leave pointers and structures as they are.                *)
LEMMA SamePlaces ==
  ASSUME NetInv, UNCHANGED <<snull_devs, netdevs>>
  PROVE  Allocated' = Allocated /\ Lost' = Lost
  BY DEF Allocated, Lost

LEMMA InsmodStep == ASSUME NetInv, NetInsmod PROVE NetInv'
<1>1. NetTypeOK'
      BY DEF NetInsmod, NetInv, NetTypeOK
<1>2. DevicePointers' /\ RegisteredOnes'
      BY IfsFacts, SamePlaces
      DEF NetInsmod, NetInv, NetTypeOK, DevicePointers, RegisteredOnes, Known, Freed, Served
<1>3. Lost' = Lost /\ (Pending' => Pending) /\ failed' = failed /\ failed \in Nat
      BY SamePlaces, NetAssumption
      DEF NetInsmod, NetInv, NetTypeOK, NetAssumption, DevicePointers, Pending
<1> QED
    BY <1>1, <1>2, <1>3, PaidStays DEF NetInv

LEMMA AllocStep == ASSUME NetInv, AllocNetdev PROVE NetInv'
<1>1. /\ net_pc = "alloc" /\ net_i \in {0, 1} /\ UNCHANGED <<napi, registered, up>>
      /\ \/ net_i = 0 /\ net_pc' = "alloc" /\ net_i' = 1
         \/ net_i = 1 /\ net_pc' = "test" /\ net_i' = 0
      BY IfsFacts DEF AllocNetdev, NetStep, NetInv, NetTypeOK
<1>2. failed \in Nat /\ snull_devs[net_i] = NetNull /\ registered = {}
      BY <1>1, NetAssumption, IfsFacts
      DEF NetInv, NetTypeOK, NetAssumption, DevicePointers, RegisteredOnes, Known
<1>3. ASSUME NEW d \in NetDevices \ Allocated, netdevs' = [netdevs EXCEPT ![d] = device_init],
             snull_devs' = [snull_devs EXCEPT ![net_i] = d], UNCHANGED failed
      PROVE  NetInv'
  <2>1. Allocated' = Allocated \cup {d}
        BY <1>3, DeviceFacts DEF Allocated, NetInv, NetTypeOK
  <2>2. \A i \in Ifs : snull_devs'[i] = IF i = net_i THEN d ELSE snull_devs[i]
        BY <1>3 DEF NetInv, NetTypeOK
  <2>3. NetTypeOK'
        BY <1>1, <1>3, DeviceFacts, IfsFacts DEF NetInv, NetTypeOK
  <2>4. d # NetNull /\ \A i \in Ifs : snull_devs[i] # d
        BY <1>1, <1>3, NoneIsNone DEF NetInv, DevicePointers, Freed
  <2>5. DevicePointers'
        BY <1>1, <1>2, <2>1, <2>2, <2>4, IfsFacts DEF NetInv, DevicePointers, Freed, Served
  <2>6. RegisteredOnes'
        BY <1>1, <1>2 DEF RegisteredOnes
  <2>7. Lost' = Lost
        BY <1>1, <1>2, <1>3, <2>1, <2>2, <2>4, NoneIsNone, IfsFacts DEF Lost
  <2>8. Pending' => Pending
        BY <1>1, <2>2, <2>4, IfsFacts DEF Pending
  <2> QED
      BY <1>2, <1>3, <2>3, <2>5, <2>6, <2>7, <2>8, PaidStays DEF NetInv
<1>4. ASSUME failed < MaxFailed, failed' = failed + 1, UNCHANGED <<netdevs, snull_devs>>
      PROVE  NetInv'
  <2>1. NetTypeOK'
        BY <1>1, <1>4, NetAssumption, IfsFacts DEF NetInv, NetTypeOK, NetAssumption
  <2>2. DevicePointers' /\ RegisteredOnes'
        BY <1>1, <1>2, <1>4, SamePlaces, IfsFacts
        DEF NetInv, DevicePointers, Freed, Served, RegisteredOnes
  <2>3. Cardinality(Lost) \in Nat
        BY FS_CardinalityType DEF NetInv
  <2>4. ~Pending \/ Cardinality(Lost) + 1 <= failed
        BY DEF NetInv, Paid
  <2>5. Cardinality(Lost) <= failed
        BY <1>2, <2>3 DEF NetInv, Paid
  <2>6. Cardinality(Lost') + 1 <= failed'
        BY <1>2, <1>4, <2>3, <2>5, SamePlaces
  <2>7. IsFiniteSet(Lost)' /\ Paid'
        BY <1>2, <1>4, <2>3, <2>5, <2>6, SamePlaces DEF NetInv, Paid
  <2> QED
      BY <2>1, <2>2, <2>7 DEF NetInv
<1> QED
    BY <1>3, <1>4 DEF AllocNetdev

LEMMA TestStep == ASSUME NetInv, AllocTest PROVE NetInv'
<1>1. net_pc = "test" /\ net_i = 0 /\ UNCHANGED <<napi, netdevs, registered, up, failed>>
      BY DEF AllocTest, NetInv, DevicePointers
<1>2. failed \in Nat /\ registered = {}
      BY <1>1, NetAssumption DEF NetInv, NetTypeOK, NetAssumption, RegisteredOnes, Known
<1>3. CASE (\E i \in Ifs : snull_devs[i] = NetNull) /\ NetGone
  <2>1. net_pc' = "unloaded" /\ net_i' = 0 /\ snull_devs' = [i \in Ifs |-> NetNull]
        BY <1>3 DEF NetGone
  <2>2. NetTypeOK' /\ DevicePointers' /\ RegisteredOnes'
        BY <1>1, <1>2, <2>1, IfsFacts
        DEF NetInv, NetTypeOK, DevicePointers, RegisteredOnes, Served
  <2>3. PICK x : \A i \in Ifs : snull_devs[i] \in {NetNull, x}
        BY <1>3, IfsFacts
  <2>4. Lost' \subseteq Lost \cup {x}
        BY <1>1, <2>3, NoneIsNone DEF Lost, Allocated
  <2>5. IsFiniteSet(Lost') /\ Cardinality(Lost') <= Cardinality(Lost) + 1
        /\ Cardinality(Lost) \in Nat /\ Cardinality(Lost') \in Nat
        BY <2>4, LoseOne DEF NetInv
  <2>6. Cardinality(Lost) + 1 <= failed /\ ~Pending'
        BY <1>1, <1>3, <2>1 DEF NetInv, Paid, Pending
  <2>7. Paid'
        BY <1>1, <1>2, <2>5, <2>6 DEF Paid
  <2> QED
      BY <2>2, <2>5, <2>7 DEF NetInv
<1>4. CASE /\ \A i \in Ifs : snull_devs[i] # NetNull
           /\ net_pc' = "register" /\ UNCHANGED <<net_i, snull_devs>>
  <2>1. NetTypeOK' /\ DevicePointers' /\ RegisteredOnes'
        BY <1>1, <1>2, <1>4, SamePlaces, IfsFacts
        DEF NetInv, NetTypeOK, DevicePointers, Freed, RegisteredOnes, Served
  <2>2. Lost' = Lost /\ ~Pending'
        BY <1>1, <1>4, SamePlaces DEF Pending
  <2> QED
      BY <1>1, <1>2, <2>1, <2>2, PaidStays DEF NetInv
<1> QED
    BY <1>3, <1>4 DEF AllocTest

LEMMA RegisterStep == ASSUME NetInv, RegisterNetdev PROVE NetInv'
<1>1. /\ net_pc = "register" /\ net_i \in {0, 1}
      /\ UNCHANGED <<napi, snull_devs, netdevs, up, failed>>
      /\ registered' \in {registered, registered \cup {snull_devs[net_i]}}
      /\ \/ net_i = 0 /\ net_pc' = "register" /\ net_i' = 1
         \/ net_i = 1 /\ net_pc' = "loaded" /\ net_i' = 0
      BY IfsFacts DEF RegisterNetdev, NetStep, NetInv, NetTypeOK
<1>2. snull_devs[net_i] \in NetDevices /\ failed \in Nat
      BY <1>1, NetAssumption, IfsFacts
      DEF NetInv, NetTypeOK, NetAssumption, DevicePointers, Served
<1>3. NetTypeOK'
      BY <1>1, <1>2, IfsFacts DEF NetInv, NetTypeOK
<1>4. DevicePointers'
      BY <1>1, SamePlaces DEF NetInv, DevicePointers, Freed, Served
<1>5. RegisteredOnes'
      BY <1>1, IfsFacts DEF NetInv, RegisteredOnes, Known
<1>6. Lost' = Lost /\ ~Pending'
      BY <1>1, SamePlaces DEF Pending
<1> QED
    BY <1>1, <1>2, <1>3, <1>4, <1>5, <1>6, PaidStays DEF NetInv

LEMMA UserStep ==
  ASSUME NetInv,
         \/ \E d \in NetDevices : IfUp(d)
         \/ \E d \in NetDevices : IfDown(d)
         \/ NetRmmod
  PROVE  NetInv'
<1>1. /\ UNCHANGED <<napi, net_i, snull_devs, netdevs, registered, failed>>
      /\ up' \subseteq registered
      /\ \/ net_pc' = net_pc
         \/ net_pc = "loaded" /\ net_pc' = "cleanup"
  <2>1. ASSUME NEW d \in NetDevices, IfUp(d) PROVE (/\ UNCHANGED <<napi, net_i, snull_devs, netdevs, registered, failed>>
               /\ up' \subseteq registered /\ net_pc' = net_pc)
        BY <2>1 DEF IfUp, NetInv, NetTypeOK
  <2>2. ASSUME NEW d \in NetDevices, IfDown(d) PROVE (/\ UNCHANGED <<napi, net_i, snull_devs, netdevs, registered, failed>>
               /\ up' \subseteq registered /\ net_pc' = net_pc)
        BY <2>2 DEF IfDown, NetInv, NetTypeOK
  <2>3. CASE NetRmmod
        BY <2>3 DEF NetRmmod, NetInv, NetTypeOK
  <2> QED
      BY <2>1, <2>2, <2>3
<1>2. NetTypeOK' /\ DevicePointers' /\ RegisteredOnes'
      BY <1>1, SamePlaces, IfsFacts
      DEF NetInv, NetTypeOK, DevicePointers, Freed, RegisteredOnes, Known, Served
<1>3. Lost' = Lost /\ (Pending' => Pending) /\ failed \in Nat
      BY <1>1, SamePlaces, NetAssumption DEF Pending, NetInv, NetTypeOK, NetAssumption
<1> QED
    BY <1>1, <1>2, <1>3, PaidStays DEF NetInv

LEMMA UnregisterStep == ASSUME NetInv, UnregisterNetdev PROVE NetInv'
<1>1. /\ net_pc = "cleanup" /\ net_pc' = "free" /\ net_i \in {0, 1}
      /\ UNCHANGED <<napi, net_i, snull_devs, netdevs, failed>>
      /\ registered' = registered \ {snull_devs[net_i]} /\ up' = up \ {snull_devs[net_i]}
      BY IfsFacts DEF UnregisterNetdev, NetInv, NetTypeOK
<1>2. NetTypeOK' /\ failed \in Nat
      BY <1>1, NetAssumption DEF NetInv, NetTypeOK, NetAssumption
<1>3. DevicePointers'
      BY <1>1, SamePlaces DEF NetInv, DevicePointers, Freed, Served
<1>4. RegisteredOnes'
      BY <1>1, IfsFacts DEF NetInv, RegisteredOnes, Known
<1>5. Lost' = Lost /\ ~Pending'
      BY <1>1, SamePlaces DEF Pending
<1> QED
    BY <1>1, <1>2, <1>3, <1>4, <1>5, PaidStays DEF NetInv

LEMMA FreeStep == ASSUME NetInv, FreeNetdev PROVE NetInv'
<1> DEFINE d == snull_devs[net_i]
<1>1. /\ net_pc = "free" /\ net_i \in {0, 1} /\ UNCHANGED <<napi, registered, up, failed>>
      /\ netdevs' = [netdevs EXCEPT ![d] = BlankDevice]
      /\ \/ net_i = 0 /\ net_pc' = "cleanup" /\ net_i' = 1 /\ UNCHANGED snull_devs
         \/ net_i = 1 /\ net_pc' = "unloaded" /\ net_i' = 0
            /\ snull_devs' = [i \in Ifs |-> NetNull]
      BY IfsFacts DEF FreeNetdev, NetGone, NetInv, NetTypeOK
<1>2. d \in NetDevices /\ failed \in Nat
      BY <1>1, NetAssumption, IfsFacts
      DEF NetInv, NetTypeOK, NetAssumption, DevicePointers, Served
<1>3. Allocated' = Allocated \ {d}
      BY <1>1, <1>2 DEF Allocated, NetInv, NetTypeOK
<1>4. NetTypeOK'
      BY <1>1, <1>2, DeviceFacts, IfsFacts DEF NetInv, NetTypeOK
<1>5. snull_devs[0] # snull_devs[1] /\ (net_i = 1 => snull_devs[0] \notin Allocated)
      BY <1>1, IfsFacts DEF NetInv, DevicePointers, Freed, Served
<1>6. DevicePointers'
      BY <1>1, <1>3, <1>5, IfsFacts DEF NetInv, DevicePointers, Freed, Served
<1>7. RegisteredOnes'
      BY <1>1, IfsFacts DEF NetInv, RegisteredOnes, Known
<1>8. Lost' = Lost
      BY <1>1, <1>3, <1>5, NoneIsNone, IfsFacts DEF Lost
<1>9. ~Pending'
      BY <1>1 DEF Pending
<1> QED
    BY <1>1, <1>2, <1>4, <1>6, <1>7, <1>8, <1>9, PaidStays DEF NetInv

LEMMA NetInvStep == NetInv /\ [NetNext]_netVars => NetInv'
<1>1. CASE NetInv /\ UNCHANGED netVars
  <2>1. NetTypeOK' /\ DevicePointers' /\ RegisteredOnes'
        BY <1>1, SamePlaces
        DEF netVars, NetInv, NetTypeOK, DevicePointers, Freed, RegisteredOnes, Known
  <2>2. Lost' = Lost /\ (Pending' => Pending) /\ failed' = failed /\ failed \in Nat
        BY <1>1, SamePlaces, NetAssumption
        DEF netVars, Pending, NetInv, NetTypeOK, NetAssumption
  <2> QED
      BY <1>1, <2>1, <2>2, PaidStays DEF NetInv
<1> QED
    BY <1>1, InsmodStep, AllocStep, TestStep, RegisterStep, UserStep, UnregisterStep,
       FreeStep
    DEF NetNext

LEMMA NetInvHolds == NetSpec => []NetInv
  BY NetInvInit, NetInvStep, PTL DEF NetSpec

-----------------------------------------------------------------------------
(* Module, pointers and structures keep to their values; what is up is      *)
(* registered.                                                              *)
THEOREM NetTypeCorrect == NetSpec => []NetTypeOK
<1>1. NetInv => NetTypeOK
      BY DEF NetInv
<1> QED
    BY <1>1, NetInvHolds, PTL

(* Whichever calls fail and whenever users come, the network layer knows    *)
(* only live structures of a loaded module.                                 *)
THEOREM RegisteredAreLive == NetSpec => []RegisteredStructuresLive
<1>1. NetInv => RegisteredStructuresLive
  <2> SUFFICES ASSUME NetInv, NEW d \in registered
               PROVE  /\ d \in Allocated \cap {snull_devs[i] : i \in Ifs}
                      /\ net_pc \in {"register", "loaded", "cleanup", "free"}
      BY DEF RegisteredStructuresLive
  <2>1. PICK i \in Ifs : Known(i) /\ d = snull_devs[i]
        BY DEF NetInv, RegisteredOnes
  <2>2. net_pc \in Served /\ ~Freed(i)
        BY <2>1, IfsFacts DEF Known, Served, Freed
  <2>3. d # NetNull
        BY <2>1, <2>2 DEF NetInv, DevicePointers
  <2> QED
      BY <2>1, <2>2, <2>3 DEF NetInv, DevicePointers, Served
<1> QED
    BY <1>1, NetInvHolds, PTL

(* Structures are lost only to failed allocations, one each at most.        *)
THEOREM StructuresAreFreed == NetSpec => []StructuresFreed
<1>1. NetInv => StructuresFreed
  <2> SUFFICES ASSUME NetInv PROVE Cardinality(Lost) <= failed
      BY DEF StructuresFreed, Lost
  <2>1. Cardinality(Lost) \in Nat /\ failed \in Nat
        BY FS_CardinalityType, NetAssumption DEF NetInv, NetTypeOK, NetAssumption
  <2> QED
      BY <2>1 DEF NetInv, Paid
<1> QED
    BY <1>1, NetInvHolds, PTL
(* Every structure a pointer names is as device_init left it for the mode   *)
(* of this loading, until free_netdev.                                      *)
Prepared ==
  \A i \in Ifs : snull_devs[i] # NetNull => netdevs[snull_devs[i]] \in {device_init, BlankDevice}

LEMMA PreparedStep == NetInv /\ Prepared /\ [NetNext]_netVars => Prepared'
<1> SUFFICES ASSUME NetInv, Prepared, [NetNext]_netVars PROVE Prepared'
    OBVIOUS
<1>1. CASE UNCHANGED <<napi, snull_devs, netdevs>>
      BY <1>1 DEF Prepared, device_init, Zeroed
<1>2. CASE NetInsmod
      BY <1>2 DEF NetInsmod, NetInv, DevicePointers, Prepared
<1>3. CASE AllocNetdev
  <2>1. UNCHANGED napi /\ device_init' = device_init /\ net_i \in Ifs
        BY <1>3 DEF AllocNetdev, device_init, Zeroed, NetInv, NetTypeOK
  <2>2. CASE UNCHANGED <<netdevs, snull_devs>>
        BY <2>1, <2>2 DEF Prepared
  <2>3. ASSUME NEW d \in NetDevices, netdevs' = [netdevs EXCEPT ![d] = device_init],
               snull_devs' = [snull_devs EXCEPT ![net_i] = d]
        PROVE  Prepared'
    <3>1. \A e \in NetDevices : netdevs'[e] = IF e = d THEN device_init ELSE netdevs[e]
          BY <2>3 DEF NetInv, NetTypeOK
    <3>2. \A i \in Ifs : snull_devs'[i] = IF i = net_i THEN d ELSE snull_devs[i]
          BY <2>3 DEF NetInv, NetTypeOK
    <3>3. \A i \in Ifs : snull_devs[i] \in NetDevices \cup {NetNull}
          BY DEF NetInv, NetTypeOK
    <3> QED
        BY <2>1, <2>3, <3>1, <3>2, <3>3 DEF Prepared
  <2> QED
      BY <1>3, <2>2, <2>3 DEF AllocNetdev
<1>4. CASE AllocTest
      BY <1>4 DEF AllocTest, NetGone, Prepared, device_init, Zeroed
<1>5. CASE FreeNetdev
  <2>1. /\ device_init' = device_init
        /\ netdevs' = [netdevs EXCEPT ![snull_devs[net_i]] = BlankDevice]
        /\ snull_devs' = snull_devs \/ snull_devs' = [i \in Ifs |-> NetNull]
        BY <1>5 DEF FreeNetdev, NetGone, device_init, Zeroed
  <2>2. \A e \in NetDevices : netdevs'[e] \in {BlankDevice, netdevs[e]}
        BY <2>1 DEF NetInv, NetTypeOK
  <2>3. \A i \in Ifs : snull_devs[i] \in NetDevices \cup {NetNull}
        BY DEF NetInv, NetTypeOK
  <2> QED
      BY <2>1, <2>2, <2>3 DEF Prepared
<1>6. CASE RegisterNetdev \/ NetRmmod \/ UnregisterNetdev
      BY <1>1, <1>6 DEF RegisterNetdev, NetRmmod, UnregisterNetdev
<1>7. CASE \E d \in NetDevices : IfUp(d) \/ IfDown(d)
      BY <1>1, <1>7 DEF IfUp, IfDown
<1> QED
    BY <1>1, <1>2, <1>3, <1>4, <1>5, <1>6, <1>7 DEF NetNext, netVars

(* Every interface the network layer knows lacks a poll function, and       *)
(* receive interrupts and pool unless it is to be polled.                   *)
HalfInitialised ==
  \A d \in registered :
    /\ netdevs[d].ops /\ netdevs[d].poll = FALSE
    /\ netdevs[d].rx_ints = napi /\ netdevs[d].pool = napi

(* device_init never finishes: an interface that is to be polled has lost   *)
(* its poll function to the memset when it is registered, and one that is   *)
(* not has no pool and receive interrupts disabled, in every execution.     *)
THEOREM NoneIsInitialised == NetSpec => []HalfInitialised
<1>1. NetInit => Prepared
      BY DEF NetInit, Prepared
<1>2. NetSpec => []Prepared
      BY <1>1, PreparedStep, NetInvHolds, PTL DEF NetSpec
<1>3. NetInv /\ RegisteredStructuresLive /\ Prepared =>
        \A d \in registered : netdevs[d] = device_init
      BY NoneIsNone DEF RegisteredStructuresLive, Prepared, Allocated
<1>4. NetInv => /\ device_init.ops /\ device_init.poll = FALSE
                /\ device_init.rx_ints = napi /\ device_init.pool = napi
      BY DEF device_init, Zeroed, BlankDevice, NetInv, NetTypeOK
<1>5. NetInv /\ RegisteredStructuresLive /\ Prepared => HalfInitialised
      BY <1>3, <1>4 DEF HalfInitialised
<1> QED
    BY <1>2, <1>5, NetInvHolds, RegisteredAreLive, PTL

-----------------------------------------------------------------------------
(* Frames.  What a frame is built from, byte by byte.                        *)
Byte == 0..255

LEMMA FrameBounds ==
  /\ ETH_HLEN \in Nat /\ ETH_ZLEN \in Nat /\ ETH_HLEN <= ETH_ZLEN
  /\ Stale \in Byte
  /\ Payloads \subseteq Seq(Byte)
BY FrameAssumption DEF FrameAssumption, Byte

LEMMA FrameSent ==
  ASSUME NEW data \in Seq(Byte)
  PROVE  TxFrame(data) \in Seq(Byte) /\ IsFrameOf(TxFrame(data), data)
<1>0. ETH_ZLEN \in Nat /\ Len(data) \in Nat
      BY FrameBounds
<1>1. CASE Len(data) >= ETH_ZLEN
      BY <1>0, <1>1 DEF TxFrame, IsFrameOf, FrameLen
<1>2. CASE Len(data) < ETH_ZLEN
  <2> DEFINE z == Zeros(ETH_ZLEN)  rest == SubSeq(z, Len(data) + 1, Len(z))
  <2>1. z \in Seq(Byte) /\ Len(z) = ETH_ZLEN /\ \A i \in 1..ETH_ZLEN : z[i] = 0
        BY <1>0 DEF Zeros, Byte
  <2> HIDE DEF z
  <2>2. /\ rest \in Seq(Byte) /\ Len(rest) = ETH_ZLEN - Len(data)
        /\ \A i \in 1..Len(rest) : rest[i] = 0
        BY <1>0, <1>2, <2>1
  <2> HIDE DEF rest
  <2>3. TxFrame(data) = data \o rest
        BY <1>2 DEF TxFrame, Shortpkt, Memcpy, z, rest
  <2>4. /\ data \o rest \in Seq(Byte) /\ Len(data \o rest) = ETH_ZLEN
        /\ \A i \in 1..ETH_ZLEN : (data \o rest)[i] = IF i <= Len(data) THEN data[i] ELSE 0
        BY <1>0, <1>2, <2>2
  <2> QED
      BY <1>0, <1>2, <2>3, <2>4 DEF IsFrameOf, FrameLen
<1> QED
    BY <1>0, <1>1, <1>2

LEMMA Joined ==
  ASSUME NEW s \in Seq(Byte), NEW t \in Seq(Byte)
  PROVE  /\ s \o t \in Seq(Byte) /\ Len(s \o t) = Len(s) + Len(t)
         /\ << >> \o (s \o t) = s \o t
         /\ SubSeq(s \o t, 1, Len(s)) = s
<1>1. s \o t \in Seq(Byte) /\ Len(s \o t) = Len(s) + Len(t)
      OBVIOUS
<1>2. SubSeq(s \o t, 1, Len(s)) = s
      OBVIOUS
<1> DEFINE u == s \o t
<1> HIDE DEF u
<1>3. u \in Seq(Byte) => << >> \o u = u
      OBVIOUS
<1> QED
    BY <1>1, <1>2, <1>3 DEF u

LEMMA SplitSeq ==
  ASSUME NEW s \in Seq(Byte), NEW h \in Nat, NEW n \in Nat, h <= n, n <= Len(s)
  PROVE  SubSeq(s, 1, h) \o SubSeq(s, 1 + h, n) = SubSeq(s, 1, n)
  OBVIOUS

(* The socket buffer snull_rx builds around a frame holds just the frame.    *)
LEMMA SkbBuilt ==
  ASSUME NEW frame \in Seq(Byte), ETH_HLEN <= Len(frame)
  PROVE  LET built == skb_pull(skb_put(dev_alloc_skb(Len(frame) + 2), frame), ETH_HLEN)
         IN  /\ SkbHead(built) \o SkbData(built) = frame
             /\ 1 <= built.data /\ built.data <= built.tail /\ skb_tailroom(built) >= 0
             /\ built.data \in Nat /\ built.tail \in Nat
<1> DEFINE n == Len(frame)  h == ETH_HLEN  room == StaleBytes(n + 2)
           space == SubSeq(room, 1, n + 2)
           bytes == SubSeq(room, 1, 1 - 1) \o (frame \o SubSeq(space, n + 1, Len(space)))
           built == skb_pull(skb_put(dev_alloc_skb(n + 2), frame), h)
<1>0. n \in Nat /\ h \in Nat /\ h <= n
      BY FrameBounds
<1>1. built = [bytes |-> bytes, data |-> 1 + h, tail |-> 1 + n, end |-> n + 2]
  <2>1. dev_alloc_skb(n + 2) = [bytes |-> room, data |-> 1, tail |-> 1, end |-> n + 2]
        BY DEF dev_alloc_skb
  <2> DEFINE given == [bytes |-> room, data |-> 1, tail |-> 1, end |-> n + 2]
             put == [bytes |-> bytes, data |-> 1, tail |-> 1 + n, end |-> n + 2]
  <2>2. skb_put(given, frame) = put
    <3>1. given.bytes = room /\ given.tail = 1 /\ given.end = n + 2
          OBVIOUS
    <3>2. skb_put(given, frame) = [given EXCEPT !.bytes = bytes, !.tail = 1 + n]
      <4> HIDE DEF given
      <4> QED
          BY <3>1, Zenon DEF skb_put, Memcpy
    <3> HIDE DEF bytes
    <3>3. [given EXCEPT !.bytes = bytes] = [bytes |-> bytes, data |-> 1, tail |-> 1, end |-> n + 2]
          OBVIOUS
    <3>4. [[bytes |-> bytes, data |-> 1, tail |-> 1, end |-> n + 2] EXCEPT !.tail = 1 + n] = put
          OBVIOUS
    <3>5. [given EXCEPT !.bytes = bytes, !.tail = 1 + n]
            = [[given EXCEPT !.bytes = bytes] EXCEPT !.tail = 1 + n]
      <4> HIDE DEF given
      <4> QED
          OBVIOUS
    <3> HIDE DEF given, put
    <3> QED
        BY <3>2, <3>3, <3>4, <3>5
  <2> HIDE DEF bytes
  <2>3. skb_pull([bytes |-> bytes, data |-> 1, tail |-> 1 + n, end |-> n + 2], h)
          = [bytes |-> bytes, data |-> 1 + h, tail |-> 1 + n, end |-> n + 2]
        BY DEF skb_pull
  <2> HIDE DEF room
  <2> QED
      BY <2>1, <2>2, <2>3
<1>2. room \in Seq(Byte) /\ Len(room) = n + 2
      BY <1>0, FrameBounds DEF StaleBytes
<1> HIDE DEF room
<1>3. space \in Seq(Byte) /\ Len(space) = n + 2
      BY <1>0, <1>2
<1> HIDE DEF space
<1>4. SubSeq(room, 1, 1 - 1) = << >>
      BY <1>2
<1>5. SubSeq(space, n + 1, Len(space)) \in Seq(Byte) /\ Len(SubSeq(space, n + 1, Len(space))) = 2
      BY <1>0, <1>3
<1>6. bytes \in Seq(Byte) /\ Len(bytes) = n + 2 /\ SubSeq(bytes, 1, n) = frame
  <2> DEFINE rest == SubSeq(space, n + 1, Len(space))
  <2>1. rest \in Seq(Byte) /\ Len(rest) = 2 /\ bytes = << >> \o (frame \o rest)
        BY <1>4, <1>5
  <2> HIDE DEF rest, bytes
  <2>2. /\ frame \o rest \in Seq(Byte) /\ Len(frame \o rest) = Len(frame) + Len(rest)
        /\ << >> \o (frame \o rest) = frame \o rest
        /\ SubSeq(frame \o rest, 1, Len(frame)) = frame
        BY <2>1, Joined
  <2>3. bytes = frame \o rest
        BY <2>1, <2>2
  <2> QED
      BY <2>1, <2>2, <2>3
<1> HIDE DEF bytes
<1>7. SkbHead(built) = SubSeq(bytes, 1, h) /\ SkbData(built) = SubSeq(bytes, 1 + h, n)
  <2>1. built.bytes = bytes /\ built.data = 1 + h /\ built.tail = 1 + n
    <3> HIDE DEF built
    <3> QED
        BY <1>1
  <2>2. built.data - 1 = h /\ built.tail - 1 = n
    <3> HIDE DEF built
    <3> QED
        BY <1>0, <2>1, SMTT(30)
  <2> HIDE DEF built, n, h
  <2> QED
      BY <2>1, <2>2, Zenon DEF SkbHead, SkbData
<1>8. SkbHead(built) \o SkbData(built) = frame
  <2>1. bytes \in Seq(Byte) /\ h \in Nat /\ n \in Nat /\ h <= n /\ n <= Len(bytes)
        BY <1>0, <1>6
  <2>2. SubSeq(bytes, 1, h) \o SubSeq(bytes, 1 + h, n) = SubSeq(bytes, 1, n)
    <3> HIDE DEF h, n
    <3> QED
        BY <2>1, SplitSeq
  <2> QED
      BY <1>6, <1>7, <2>2
<1>9. skb_tailroom(built) >= 0
      BY <1>0, <1>1 DEF skb_tailroom
<1> QED
    BY <1>0, <1>1, <1>8, <1>9

(* The frames under way are the last of those sent; those handed up are     *)
(* among the others.                                                         *)
OnWire == \A i \in 1..Len(wire) : IsFrameOf(wire[i], sent[Done + i])
HandedUp ==
  \A n \in DOMAIN handed_up :
    n \in 1..Done /\ IsFrameOf(SkbHead(handed_up[n]) \o SkbData(handed_up[n]), sent[n])
Counted == IsFiniteSet(DOMAIN handed_up) /\ IsFiniteSet(Octets) /\ FramesAccounted
FrameInv ==
  /\ sent \in Seq(Payloads) /\ wire \in Seq(Seq(Byte)) /\ Len(wire) <= Len(sent)
  /\ FrameTypeOK /\ Counted /\ OnWire /\ HandedUp

(* Packets sent or dropped leave what was handed up as it was.               *)
LEMMA HandedUpKept ==
  ASSUME handed_up' = handed_up,
         \A n \in DOMAIN handed_up :
           /\ n \in 1..Done'
           /\ IsFrameOf(SkbHead(handed_up[n]) \o SkbData(handed_up[n]), sent'[n])
  PROVE  HandedUp'
<1>1. (\A n \in DOMAIN handed_up' :
         /\ n \in 1..Done'
         /\ IsFrameOf(SkbHead(handed_up'[n]) \o SkbData(handed_up'[n]), sent'[n])) => HandedUp'
      BY Zenon DEF HandedUp, IsFrameOf, FrameLen, SkbHead, SkbData
<1> QED
    BY <1>1

LEMMA FrameInvInit == FrameInit => FrameInv
<1> SUFFICES ASSUME FrameInit PROVE FrameInv
    OBVIOUS
<1>1. /\ sent \in Seq(Payloads) /\ wire \in Seq(Seq(Byte)) /\ Len(sent) = 0 /\ Len(wire) = 0
      /\ DOMAIN sent = {}
      BY DEF FrameInit
<1>2. stats \in [{"rx_packets", "rx_bytes", "rx_dropped"} -> Nat]
      BY DEF FrameInit
<1>3. DOMAIN handed_up = {} /\ Octets = {}
      BY DEF FrameInit, Octets
<1>4. FrameTypeOK
      BY <1>1, <1>2, <1>3 DEF FrameInit, FrameTypeOK
<1>5. Counted
      BY <1>1, <1>3, FS_EmptySet DEF FrameInit, Counted, FramesAccounted, Done
<1> QED
    BY <1>1, <1>3, <1>4, <1>5 DEF FrameInv, OnWire, HandedUp

LEMMA TransmitStep ==
  ASSUME FrameInv, NEW data \in Payloads, Transmit(data)
  PROVE  FrameInv'
<1> DEFINE s == Len(sent)  w == Len(wire)
<1>1. /\ sent \in Seq(Payloads) /\ wire \in Seq(Seq(Byte)) /\ s \in Nat /\ w \in Nat /\ w <= s
      /\ TxFrame(data) \in Seq(Byte) /\ IsFrameOf(TxFrame(data), data)
      BY FrameBounds, FrameSent DEF FrameInv
<1>2. /\ sent' = Append(sent, data) /\ wire' = Append(wire, TxFrame(data))
      /\ UNCHANGED <<polled, handed_up, spent, stats>>
      BY DEF Transmit
<1>3. /\ sent' \in Seq(Payloads) /\ wire' \in Seq(Seq(Byte))
      /\ Len(sent') = s + 1 /\ Len(wire') = w + 1 /\ Done' = Done /\ Done = s - w
      /\ \A i \in 1..s : sent'[i] = sent[i]
      /\ \A i \in 1..w : wire'[i] = wire[i]
      /\ sent'[s + 1] = data /\ wire'[w + 1] = TxFrame(data)
      BY <1>1, <1>2 DEF Done
<1>4. OnWire'
  <2> SUFFICES ASSUME NEW i \in 1..Len(wire') PROVE IsFrameOf(wire'[i], sent'[Done + i])
      BY <1>3 DEF OnWire, IsFrameOf, FrameLen
  <2>1. CASE i = w + 1
    <3>1. Done + i = s + 1
          BY <1>1, <1>3, <2>1
    <3> QED
        BY <1>1, <1>3, <2>1, <3>1
  <2>2. CASE i # w + 1
    <3>1. i \in 1..w /\ Done + i \in 1..s
      <4>1. i \in 1..w + 1
            BY <1>3
      <4> DEFINE d == Done
      <4>2. d = s - w
            BY <1>3
      <4> HIDE DEF d, s, w
      <4>3. i \in 1..w /\ d + i \in 1..s
            BY <1>1, <2>2, <4>1, <4>2
      <4> QED
          BY <4>3 DEF d
    <3> QED
        BY <1>3, <3>1 DEF FrameInv, OnWire
  <2> QED
      BY <2>1, <2>2
<1>5. \A n \in DOMAIN handed_up : n \in 1..Done /\ sent'[n] = sent[n]
  <2>1. \A n \in 1..Done : n \in 1..s
        BY <1>1, <1>3
  <2> QED
      BY <1>3, <2>1 DEF FrameInv, HandedUp
<1>6. HandedUp'
  <2>1. \A n \in DOMAIN handed_up :
          /\ n \in 1..Done'
          /\ IsFrameOf(SkbHead(handed_up[n]) \o SkbData(handed_up[n]), sent'[n])
        BY <1>3, <1>5 DEF FrameInv, HandedUp
  <2> QED
      BY <1>2, <2>1, HandedUpKept
<1>7. FrameTypeOK'
  <2>1. \A i \in DOMAIN sent' : sent'[i] \in Payloads
        BY <1>3
  <2>2. Len(wire') <= Len(sent')
        BY <1>1, <1>3
  <2> QED
      BY <1>2, <1>3, <2>1, <2>2 DEF FrameInv, FrameTypeOK, skb_tailroom
<1>8. Counted'
  <2>1. Octets' = UNION {{n} \X (1..FrameLen(sent'[n])) : n \in DOMAIN handed_up}
        BY <1>2 DEF Octets, FrameLen
  <2>2. Octets' = Octets
        BY <1>5, <2>1 DEF Octets
  <2> QED
      BY <1>2, <1>3, <2>2 DEF FrameInv, Counted, FramesAccounted
<1> QED
    BY <1>1, <1>3, <1>4, <1>6, <1>7, <1>8 DEF FrameInv

(* The first frame leaves the wire.                                          *)
LEMMA FrameTaken ==
  ASSUME FrameInv, wire # << >>, wire' = Tail(wire), sent' = sent
  PROVE  /\ wire' \in Seq(Seq(Byte)) /\ Len(wire') \in Nat /\ Len(sent) \in Nat
         /\ Len(wire') <= Len(sent) /\ Done \in Nat /\ Done' = Done + 1
         /\ OnWire' /\ Head(wire) \in Seq(Byte) /\ IsFrameOf(Head(wire), sent[Done + 1])
         /\ Done + 1 \in 1..Len(sent) /\ sent[Done + 1] \in Payloads
         /\ \A i \in DOMAIN sent' : sent'[i] \in Payloads
<1>1. /\ wire \in Seq(Seq(Byte)) /\ sent \in Seq(Payloads) /\ Len(wire) <= Len(sent)
      /\ Len(wire) \in Nat /\ Len(sent) \in Nat
      BY DEF FrameInv
<1>2. /\ wire' \in Seq(Seq(Byte)) /\ Len(wire') = Len(wire) - 1 /\ Len(wire) >= 1
      /\ \A i \in 1..Len(wire') : wire'[i] = wire[i + 1]
      /\ Head(wire) = wire[1] /\ Head(wire) \in Seq(Byte)
      BY <1>1
<1>3. Done \in Nat /\ Done' = Done + 1 /\ Len(wire') <= Len(sent) /\ Done + 1 \in 1..Len(sent)
      BY <1>1, <1>2 DEF Done
<1>4. IsFrameOf(Head(wire), sent[Done + 1])
      BY <1>1, <1>2, <1>3 DEF FrameInv, OnWire
<1>5. OnWire'
  <2> SUFFICES ASSUME NEW i \in 1..Len(wire') PROVE IsFrameOf(wire'[i], sent[Done' + i])
      BY DEF OnWire, IsFrameOf, FrameLen
  <2>1. i + 1 \in 1..Len(wire) /\ Done + (i + 1) = Done' + i
        BY <1>1, <1>2, <1>3
  <2> QED
      BY <1>2, <2>1 DEF FrameInv, OnWire
<1>6. \A i \in DOMAIN sent : sent[i] \in Payloads
      BY DEF FrameInv, FrameTypeOK
<1>7. sent[Done + 1] \in Payloads
      BY <1>1, <1>3
<1> QED
    BY <1>1, <1>2, <1>3, <1>4, <1>5, <1>6, <1>7

LEMMA DropStep ==
  ASSUME FrameInv, FrameDropped, UNCHANGED <<sent, polled, spent>>
  PROVE  FrameInv'
<1>1. /\ wire # << >> /\ wire' = Tail(wire) /\ sent' = sent /\ handed_up' = handed_up
      /\ stats' = [stats EXCEPT !.rx_dropped = @ + 1] /\ polled' = polled /\ spent' = spent
      BY DEF FrameDropped
<1>2. /\ wire' \in Seq(Seq(Byte)) /\ Len(wire') <= Len(sent) /\ Done \in Nat /\ Done' = Done + 1
      /\ OnWire' /\ \A i \in DOMAIN sent' : sent'[i] \in Payloads
      BY <1>1, FrameTaken
<1>3. stats \in [{"rx_packets", "rx_bytes", "rx_dropped"} -> Nat]
      BY DEF FrameInv, FrameTypeOK
<1>4. /\ stats' \in [{"rx_packets", "rx_bytes", "rx_dropped"} -> Nat]
      /\ stats'.rx_packets = stats.rx_packets /\ stats'.rx_bytes = stats.rx_bytes
      /\ stats'.rx_dropped = stats.rx_dropped + 1
      BY <1>1, <1>3
<1>5. Counted'
  <2>1. Octets' = Octets
        BY <1>1 DEF Octets, FrameLen
  <2>2. stats.rx_packets \in Nat /\ stats.rx_dropped \in Nat /\ stats.rx_packets + stats.rx_dropped = Done
        BY <1>3 DEF FrameInv, Counted, FramesAccounted
  <2>3. stats'.rx_packets + stats'.rx_dropped = Done'
    <3> DEFINE d == Done  e == Done'  r == stats.rx_packets  l == stats.rx_dropped
               r2 == stats'.rx_packets  l2 == stats'.rx_dropped
    <3>1. e = d + 1 /\ d \in Nat /\ r \in Nat /\ l \in Nat /\ r + l = d
          BY <1>2, <2>2
    <3>2. r2 = r /\ l2 = l + 1
          BY <1>4
    <3> HIDE DEF d, e, r, l, r2, l2
    <3>3. r2 + l2 = e
          BY <3>1, <3>2
    <3> QED
        BY <3>3 DEF e, r2, l2
  <2> QED
      BY <1>1, <1>4, <2>1, <2>3 DEF FrameInv, Counted, FramesAccounted
<1>6. \A n \in DOMAIN handed_up : n \in 1..Done'
      BY <1>2 DEF FrameInv, HandedUp
<1>7. FrameTypeOK'
      BY <1>1, <1>2, <1>4, <1>6 DEF FrameInv, FrameTypeOK, skb_tailroom
<1>8. HandedUp'
  <2>1. \A n \in DOMAIN handed_up :
          /\ n \in 1..Done'
          /\ IsFrameOf(SkbHead(handed_up[n]) \o SkbData(handed_up[n]), sent'[n])
        BY <1>1, <1>6 DEF FrameInv, HandedUp
  <2> QED
      BY <1>1, <2>1, HandedUpKept
<1> QED
    BY <1>1, <1>2, <1>5, <1>7, <1>8 DEF FrameInv

(* One frame more is as many octets more as it is long.                      *)
Places(D, len) == UNION {{i} \X (1..len[i]) : i \in D}

LEMMA OctetsGrow ==
  ASSUME NEW D, NEW len, NEW n, n \notin D, len[n] \in Nat, IsFiniteSet(Places(D, len))
  PROVE  /\ IsFiniteSet(Places(D \cup {n}, len))
         /\ Cardinality(Places(D \cup {n}, len)) = Cardinality(Places(D, len)) + len[n]
<1> DEFINE old == Places(D, len)
           new == Places(D \cup {n}, len)
           more == {n} \X (1..len[n])
<1>1. new = old \cup more
      BY DEF Places
<1>2. old \cap more = {}
      BY DEF Places
<1>3. IsFiniteSet(1..len[n]) /\ Cardinality(1..len[n]) = len[n]
  <2>1. 1 \in Int /\ len[n] \in Int /\ (1 > len[n] => len[n] = 0)
        OBVIOUS
  <2> QED
      BY <2>1, FS_Interval
<1>4. IsFiniteSet({n}) /\ Cardinality({n}) = 1
      BY FS_Singleton
<1>5. IsFiniteSet(more) /\ Cardinality(more) = len[n]
  <2>1. IsFiniteSet(more) /\ Cardinality(more) = Cardinality({n}) * Cardinality(1..len[n])
        BY <1>3, <1>4, FS_Product, Zenon
  <2> QED
      BY <1>3, <1>4, <2>1
<1> HIDE DEF old, new, more
<1>6. IsFiniteSet(old) /\ Cardinality(old) \in Nat
      BY FS_CardinalityType DEF old
<1>7. /\ IsFiniteSet(old \cup more)
      /\ Cardinality(old \cup more) = Cardinality(old) + Cardinality(more) - Cardinality(old \cap more)
      BY <1>5, <1>6, FS_Union
<1>8. Cardinality(old \cap more) = 0
      BY <1>2, FS_EmptySet
<1>9. IsFiniteSet(new) /\ Cardinality(new) = Cardinality(old) + len[n]
      BY <1>1, <1>5, <1>6, <1>7, <1>8
<1> QED
    BY <1>9 DEF old, new

LEMMA ReceiveStep ==
  ASSUME FrameInv, FrameReceived, UNCHANGED <<sent, polled>>,
         spent' = IF polled THEN spent + 1 ELSE spent
  PROVE  FrameInv'
<1> DEFINE frame == Head(wire)  n == Len(frame)  d == Done + 1  skb == BuildSkb(frame)
<1>1. /\ wire # << >> /\ wire' = Tail(wire) /\ sent' = sent /\ polled' = polled
      /\ handed_up' = [i \in DOMAIN handed_up \cup {d} |-> IF i = d THEN skb ELSE handed_up[i]]
      /\ stats' = [stats EXCEPT !.rx_packets = @ + 1, !.rx_bytes = @ + n]
      BY DEF FrameReceived
<1>2. /\ wire' \in Seq(Seq(Byte)) /\ Len(wire') <= Len(sent) /\ Done \in Nat /\ Done' = d
      /\ OnWire' /\ \A i \in DOMAIN sent' : sent'[i] \in Payloads
      /\ frame \in Seq(Byte) /\ IsFrameOf(frame, sent[d]) /\ sent[d] \in Payloads
      BY <1>1, FrameTaken
<1>3. sent[d] \in Seq(Byte) /\ Len(sent[d]) \in Nat
      BY <1>2, FrameBounds
<1>4. n \in Nat /\ n = FrameLen(sent[d]) /\ ETH_HLEN <= n
      BY <1>2, <1>3, FrameBounds DEF IsFrameOf, FrameLen
<1> HIDE DEF frame, skb
<1>5. /\ SkbHead(skb) \o SkbData(skb) = frame
      /\ 1 <= skb.data /\ skb.data <= skb.tail /\ skb_tailroom(skb) >= 0
      BY <1>2, <1>4, SkbBuilt DEF BuildSkb, skb
<1>6. /\ DOMAIN handed_up' = DOMAIN handed_up \cup {d} /\ handed_up'[d] = skb
      /\ \A i \in DOMAIN handed_up : handed_up'[i] = handed_up[i] /\ i \in 1..Done /\ i # d
      /\ d \notin DOMAIN handed_up
  <2>1. \A i \in DOMAIN handed_up : i \in 1..Done /\ i # d
        BY <1>2 DEF FrameInv, HandedUp
  <2> QED
      BY <1>1, <2>1
<1>7. stats \in [{"rx_packets", "rx_bytes", "rx_dropped"} -> Nat] /\ spent \in Nat
      BY DEF FrameInv, FrameTypeOK
<1>8. /\ stats' \in [{"rx_packets", "rx_bytes", "rx_dropped"} -> Nat]
      /\ stats'.rx_packets = stats.rx_packets + 1 /\ stats'.rx_bytes = stats.rx_bytes + n
      /\ stats'.rx_dropped = stats.rx_dropped
  <2> DEFINE p == stats.rx_packets + 1  b == stats.rx_bytes + n
  <2>1. p \in Nat /\ b \in Nat
        BY <1>4, <1>7
  <2>2. stats' = [stats EXCEPT !.rx_packets = p, !.rx_bytes = b]
        BY <1>1
  <2> HIDE DEF p, b
  <2>3. stats' = [[stats EXCEPT !.rx_packets = p] EXCEPT !.rx_bytes = b]
        BY <2>2
  <2>4. /\ stats' \in [{"rx_packets", "rx_bytes", "rx_dropped"} -> Nat]
        /\ stats'.rx_packets = p /\ stats'.rx_bytes = b /\ stats'.rx_dropped = stats.rx_dropped
        BY <1>7, <2>1, <2>3
  <2> QED
      BY <2>4 DEF p, b
<1>9. Counted'
  <2>1. /\ IsFiniteSet(DOMAIN handed_up) /\ IsFiniteSet(Octets)
        /\ stats.rx_packets = Cardinality(DOMAIN handed_up)
        /\ stats.rx_packets + stats.rx_dropped = Done /\ stats.rx_bytes = Cardinality(Octets)
        /\ spent = IF polled THEN stats.rx_packets ELSE 0
        BY DEF FrameInv, Counted, FramesAccounted
  <2>2. /\ IsFiniteSet(DOMAIN handed_up)'
        /\ Cardinality(DOMAIN handed_up') = Cardinality(DOMAIN handed_up) + 1
        BY <1>6, <2>1, FS_AddElement
  <2>3. IsFiniteSet(Octets') /\ Cardinality(Octets') = Cardinality(Octets) + n
    <3> DEFINE len == [i \in 1..d |-> FrameLen(sent[i])]
    <3>0. \A i \in DOMAIN handed_up \cup {d} : i \in 1..d
          BY <1>2, <1>6
    <3>1. Octets = Places(DOMAIN handed_up, len)
          BY <3>0 DEF Octets, Places
    <3>2. Octets' = Places(DOMAIN handed_up \cup {d}, len)
      <4>1. Octets' = UNION {{i} \X (1..FrameLen(sent[i])) : i \in DOMAIN handed_up \cup {d}}
            BY <1>1, <1>6 DEF Octets, FrameLen
      <4> QED
          BY <3>0, <4>1 DEF Places
    <3>3. len[d] \in Nat /\ len[d] = n
          BY <1>4, <3>0
    <3>4. d \notin DOMAIN handed_up /\ IsFiniteSet(Places(DOMAIN handed_up, len))
          BY <1>6, <2>1, <3>1
    <3> HIDE DEF len, d, n
    <3>5. /\ IsFiniteSet(Places(DOMAIN handed_up \cup {d}, len))
          /\ Cardinality(Places(DOMAIN handed_up \cup {d}, len))
               = Cardinality(Places(DOMAIN handed_up, len)) + len[d]
          BY <3>3, <3>4, OctetsGrow
    <3> QED
        BY <3>1, <3>2, <3>3, <3>5
  <2>4. stats'.rx_packets + stats'.rx_dropped = Done'
    <3> DEFINE c == Done  e == Done'  r == stats.rx_packets  l == stats.rx_dropped
               r2 == stats'.rx_packets  l2 == stats'.rx_dropped
    <3>1. e = c + 1 /\ c \in Nat
          BY <1>2
    <3>2. r \in Nat /\ l \in Nat /\ r + l = c
          BY <1>7, <2>1
    <3>3. r2 = r + 1 /\ l2 = l
          BY <1>8
    <3> HIDE DEF c, e, r, l, r2, l2
    <3>4. r2 + l2 = e
          BY <3>1, <3>2, <3>3
    <3> QED
        BY <3>4 DEF e, r2, l2
  <2>5. spent' = IF polled' THEN stats'.rx_packets ELSE 0
        BY <1>1, <1>7, <1>8, <2>1
  <2> QED
      BY <1>8, <2>1, <2>2, <2>3, <2>4, <2>5 DEF Counted, FramesAccounted
<1>10. \A i \in DOMAIN handed_up' : i \in 1..Done'
       BY <1>2, <1>6
<1>11. FrameTypeOK'
  <2>1. spent' \in Nat
        BY <1>7
  <2>2. \A i \in DOMAIN handed_up' :
          /\ 1 <= handed_up'[i].data /\ handed_up'[i].data <= handed_up'[i].tail
          /\ skb_tailroom(handed_up'[i]) >= 0
        BY <1>5, <1>6 DEF FrameInv, FrameTypeOK
  <2> QED
      BY <1>1, <1>2, <1>8, <1>10, <2>1, <2>2 DEF FrameInv, FrameTypeOK, skb_tailroom
<1>12. HandedUp'
  <2> SUFFICES ASSUME NEW i \in DOMAIN handed_up'
               PROVE  IsFrameOf(SkbHead(handed_up'[i]) \o SkbData(handed_up'[i]), sent'[i])
      BY <1>10, Zenon DEF HandedUp, IsFrameOf, FrameLen, SkbHead, SkbData
  <2>1. CASE i = d
        BY <1>1, <1>2, <1>5, <1>6, <2>1
  <2>2. CASE i # d
        BY <1>1, <1>6, <2>2 DEF FrameInv, HandedUp
  <2> QED
      BY <2>1, <2>2
<1> QED
    BY <1>1, <1>2, <1>9, <1>11, <1>12 DEF FrameInv

LEMMA FrameInvHolds == FrameSpec => []FrameInv
<1>1. FrameInv /\ [FrameNext]_frameVars => FrameInv'
  <2> SUFFICES ASSUME FrameInv, [FrameNext]_frameVars PROVE FrameInv'
      OBVIOUS
  <2>1. CASE UNCHANGED frameVars
    <3>1. UNCHANGED <<sent, wire, polled, handed_up, spent, stats>> /\ Done' = Done
          BY <2>1 DEF frameVars, Done
    <3>2. Octets' = Octets
          BY <3>1 DEF Octets, FrameLen
    <3>3. FrameTypeOK'
          BY <3>1 DEF FrameInv, FrameTypeOK, skb_tailroom
    <3>4. Counted'
          BY <3>1, <3>2 DEF FrameInv, Counted, FramesAccounted
    <3>5. OnWire'
      <4> SUFFICES ASSUME NEW i \in 1..Len(wire) PROVE IsFrameOf(wire[i], sent[Done + i])
          BY <3>1 DEF OnWire, IsFrameOf, FrameLen
      <4> QED
          BY DEF FrameInv, OnWire
    <3>6. HandedUp'
      <4>1. \A n \in DOMAIN handed_up :
              /\ n \in 1..Done'
              /\ IsFrameOf(SkbHead(handed_up[n]) \o SkbData(handed_up[n]), sent'[n])
            BY <3>1 DEF FrameInv, HandedUp
      <4> QED
          BY <3>1, <4>1, HandedUpKept
    <3> QED
        BY <3>1, <3>3, <3>4, <3>5, <3>6 DEF FrameInv
  <2>2. CASE Receive
        BY <2>2, DropStep, ReceiveStep DEF Receive
  <2>3. CASE PollReceive
        BY <2>3, DropStep, ReceiveStep DEF PollReceive
  <2> QED
      BY <2>1, <2>2, <2>3, TransmitStep DEF FrameNext
<1> QED
    BY <1>1, FrameInvInit, PTL DEF FrameSpec

(* Every variable keeps to its values: only frames that were sent are on     *)
(* their way or handed up, and the data of a socket buffer stay inside it.   *)
THEOREM FrameTypeCorrect == FrameSpec => []FrameTypeOK
<1>1. FrameInv => FrameTypeOK
      BY DEF FrameInv
<1> QED
    BY <1>1, FrameInvHolds, PTL

(* No byte that nobody sent leaves the driver or goes up, for packets and    *)
(* frames of any length.                                                     *)
THEOREM NothingStaleLeaves == FrameSpec => []NothingStaleSent
<1>1. FrameInv => NothingStaleSent
  <2> SUFFICES ASSUME FrameInv PROVE NothingStaleSent
      OBVIOUS
  <2>1. DOMAIN wire = 1..Len(wire)
        BY DEF FrameInv
  <2> QED
      BY <2>1 DEF FrameInv, NothingStaleSent, OnWire, HandedUp
<1> QED
    BY <1>1, FrameInvHolds, PTL

(* The statistics say exactly what was handed up, in packets and in bytes,   *)
(* and what was dropped, by interrupt and by poll, for any traffic.          *)
THEOREM FramesAreAccounted == FrameSpec => []FramesAccounted
<1>1. FrameInv => FramesAccounted
      BY DEF FrameInv, Counted
<1> QED
    BY <1>1, FrameInvHolds, PTL
=============================================================================
