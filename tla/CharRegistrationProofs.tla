------------------------ MODULE CharRegistrationProofs ------------------------
(***************************************************************************)
(* Proofs about CharRegistration, for any modules, shapes and numbers.      *)
(***************************************************************************)
EXTENDS CharRegistration, TLAPS

(* The places of a module that holds a number, and those where its cdev may *)
(* be live.                                                                 *)
Holding == {"add", "class", "device", "live", "stuck", "destroy", "del", "unregister"}
Serving == {"class", "device", "live"}

(* A module that holds a number is the one the kernel has it reserved for.  *)
NumberHeld == \A m \in Modules : pc[m] \in Holding => region[dev[m]] = m

(* A number that nobody left is known to the module it is reserved for, and *)
(* one that was left is reserved for ever and known to nobody.              *)
NumberKnown ==
  /\ \A n \in Majors : region[n] # NONE /\ n \notin left =>
       dev[region[n]] = n /\ pc[region[n]] \in Holding
  /\ \A n \in left : region[n] # NONE /\ Shape[region[n]] = "rw"
  /\ \A m \in Modules : pc[m] \in Holding => dev[m] \notin left

(* Only an exit that was given an error pointer never comes to its end.     *)
ClassKnown == \A m \in Modules : pc[m] = "stuck" => pclass[m] = "error"

(* Only two shapes go by way of cdev_add and cdev_del.                       *)
CdevShapes ==
  \A m \in Modules : pc[m] \in {"add", "class", "device", "stuck", "destroy", "del"} =>
    Shape[m] \in {"chardev", "rw"}

(* A live cdev is on its module's number, until the exit function deletes   *)
(* it: register_chrdev's stays to the last step.                            *)
CdevKnown ==
  \A n \in Majors : cdevs[n] # NONE =>
    /\ region[n] = cdevs[n] /\ dev[cdevs[n]] = n
    /\ Shape[cdevs[n]] \in {"chardev", "rw", "chrdev"}
    /\ \/ pc[cdevs[n]] \in Serving \cup {"destroy", "stuck", "del"}
       \/ pc[cdevs[n]] = "unregister" /\ Shape[cdevs[n]] = "chrdev"

(* Files are open only on a module that serves them.                        *)
FilesServed == \A m \in Modules : files[m] > 0 => pc[m] \in Serving

RegInv ==
  TypeOK /\ NumberHeld /\ NumberKnown /\ ClassKnown /\ CdevShapes /\ CdevKnown /\ FilesServed

LEMMA RegInvInit == Init => RegInv
  BY RegistrationAssumption
  DEF Init, RegInv, TypeOK, NumberHeld, NumberKnown, ClassKnown, CdevShapes, CdevKnown,
      FilesServed, Holding, Serving, Fresh

LEMMA RegInvStep == RegInv /\ [Next]_vars => RegInv'
<1> SUFFICES ASSUME RegInv, [Next]_vars PROVE RegInv'
    OBVIOUS
<1> USE RegistrationAssumption
    DEF RegInv, TypeOK, NumberHeld, NumberKnown, ClassKnown, CdevShapes, CdevKnown,
        FilesServed, Holding, Serving, Goto, Fresh
<1>1. ASSUME NEW m \in Modules, Insmod(m) PROVE RegInv'
      BY <1>1 DEF Insmod
<1>2. ASSUME NEW m \in Modules, AllocRegion(m) PROVE RegInv'
      BY <1>2 DEF AllocRegion, AfterAlloc
<1>3. ASSUME NEW m \in Modules, RegisterChrdev(m) PROVE RegInv'
      BY <1>3 DEF RegisterChrdev
<1>4. ASSUME NEW m \in Modules, AllocFails(m) PROVE RegInv'
      BY <1>4 DEF AllocFails, Unload
<1>5. ASSUME NEW m \in Modules, CdevAdd(m) PROVE RegInv'
      BY <1>5 DEF CdevAdd, AfterAdd
<1>6. ASSUME NEW m \in Modules, CdevAddFails(m) PROVE RegInv'
      BY <1>6 DEF CdevAddFails, Unload
<1>7. ASSUME NEW m \in Modules, ClassCreate(m) PROVE RegInv'
      BY <1>7 DEF ClassCreate
<1>8. ASSUME NEW m \in Modules, DeviceCreate(m) PROVE RegInv'
      BY <1>8 DEF DeviceCreate
<1>9. ASSUME NEW m \in Modules, Rmmod(m) PROVE RegInv'
  <2>1. pc' = [pc EXCEPT ![m] = pc'[m]] /\ pc'[m] \in {"destroy", "del", "unregister"}
        BY <1>9 DEF Rmmod, ExitStart
  <2>2. pc[m] = "live" /\ files[m] = 0 /\ UNCHANGED <<dev, region, cdevs, pclass, files, left>>
        BY <1>9 DEF Rmmod, ExitStart
  <2>3. pc'[m] \in {"destroy", "del"} <=> Shape[m] \in {"chardev", "rw"}
        BY <1>9 DEF Rmmod, ExitStart
  <2> QED
      BY <2>1, <2>2, <2>3
<1>10. ASSUME NEW m \in Modules, Destroy(m) PROVE RegInv'
      BY <1>10 DEF Destroy
<1>11. ASSUME NEW m \in Modules, CdevDel(m) PROVE RegInv'
      BY <1>11 DEF CdevDel
<1>12. ASSUME NEW m \in Modules, Unregister(m) PROVE RegInv'
      BY <1>12 DEF Unregister, Unload
<1>13. ASSUME NEW m \in Modules, Open(m) PROVE RegInv'
      BY <1>13 DEF Open, Leaving
<1>14. ASSUME NEW m \in Modules, Close(m) PROVE RegInv'
      BY <1>14 DEF Close
<1>15. ASSUME NEW m \in Modules, RegisterRegion(m) PROVE RegInv'
      BY <1>15 DEF RegisterRegion
<1>16. CASE UNCHANGED vars
      BY <1>16 DEF vars
<1> QED
    BY <1>1, <1>2, <1>3, <1>4, <1>5, <1>6, <1>7, <1>8, <1>9, <1>10, <1>11, <1>12,
       <1>13, <1>14, <1>15, <1>16 DEF Next

LEMMA RegInvHolds == Spec => []RegInv
  BY RegInvInit, RegInvStep, PTL DEF Spec

-----------------------------------------------------------------------------
(* Every static and every table of the kernel keeps to its values, and a    *)
(* module knows a number exactly while its init has obtained one.           *)
THEOREM RegistrationTypeCorrect == Spec => []TypeOK
<1>1. RegInv => TypeOK
      BY DEF RegInv
<1> QED
    BY <1>1, RegInvHolds, PTL

(* However the inits fail and the modules come and go, a number with a live *)
(* cdev is reserved by the module that answers on it.                       *)
THEOREM LiveNumbersReserved == Spec => []LiveNumberReserved
<1>1. RegInv => LiveNumberReserved
      BY DEF RegInv, CdevKnown, LiveNumberReserved
<1> QED
    BY <1>1, RegInvHolds, PTL

(* No file and no live cdev is left when the code of a module goes, for any *)
(* number of modules of the five shapes.                                    *)
THEOREM CodeStays == Spec => []CodeStaysForUsers
<1>1. RegInv => CodeStaysForUsers
      BY RegistrationAssumption
      DEF RegInv, TypeOK, CdevKnown, FilesServed, Serving, CodeStaysForUsers, Leaving
<1> QED
    BY <1>1, RegInvHolds, PTL

(* For any modules and numbers and whichever kernel calls fail, a number is  *)
(* left behind only by an init of rw_file-ops.c after a failed cdev_add or   *)
(* by its exit after a failed class_create; each other is with the module    *)
(* that will give it back.                                                   *)
THEOREM NumbersGivenBack == Spec => []NumbersFreed
<1>1. ASSUME RegInv PROVE NumbersFreed
  <2> USE <1>1, RegistrationAssumption DEF RegInv, TypeOK
  <2>1. \A n \in Majors : region[n] # NONE /\ n \notin left =>
          dev[region[n]] = n /\ pc[region[n]] # "unloaded"
        BY DEF NumberKnown, Holding
  <2>2. \A n \in left : region[n] # NONE /\ Shape[region[n]] = "rw" /\ dev[region[n]] # n
        BY DEF NumberKnown, Fresh, Holding
  <2>3. \A m \in Modules : pc[m] = "stuck" => pclass[m] = "error"
        BY DEF ClassKnown
  <2> QED
      BY <2>1, <2>2, <2>3 DEF NumbersFreed
<1> QED
    BY <1>1, RegInvHolds, PTL
=============================================================================
