--------------------------- MODULE CharRegistration ---------------------------
(***************************************************************************)
(* Loading and unloading the character drivers: module init and exit of     *)
(* chardev01.c and demo01.c, demo02.c, demo03.c (shape "chardev"), of       *)
(* CharDD/rw_file-ops.c ("rw") and of CharDD/file-operation.c ("chrdev"),   *)
(* and the two that do no more than reserve a number: the next free one      *)
(* (CharDD/dynamic_allocation.c, "dynamic"), or always the same              *)
(* (CharDD/maj_min.c, "static"); in each a stray line ("result=reg",         *)
(* "result=a") is left out, without which they compile.                      *)
(* The kernel keeps which numbers are reserved and which have a live cdev;  *)
(* users open the device as soon as its cdev is live, before init returns.  *)
(***************************************************************************)
EXTENDS Integers

CONSTANTS
  Modules,  \* the modules
  Shape,    \* the shape of each
  Majors,   \* the major numbers
  STATIC,   \* the one that is written into maj_min.c, never handed out
  NONE,     \* no module, no number
  MaxOpen   \* bound: files open on one module at a time

ASSUME RegistrationAssumption ==
  /\ Shape \in [Modules -> {"chardev", "rw", "chrdev", "dynamic", "static"}]
  /\ STATIC \in Majors
  /\ NONE \notin Modules \cup Majors
  /\ MaxOpen \in Nat

VARIABLES
  pc,      \* where each module is in its life
  dev,     \* its static dev (majornum of file-operation.c)
  region,  \* the kernel's table of reserved numbers: who has each
  cdevs,   \* the kernel's map of live cdevs: whose answers on each number
  pclass,  \* what class_create gave it: nothing, a class, or an error pointer
  files,   \* how many files are open on it
  left     \* history: the numbers an init function returned without giving back

vars == <<pc, dev, region, cdevs, pclass, files, left>>

(* What the initialiser of the static dev says.                              *)
Fresh(m) == IF Shape[m] = "static" THEN STATIC ELSE NONE

Init ==
  /\ pc     = [m \in Modules |-> "unloaded"]
  /\ dev    = [m \in Modules |-> Fresh(m)]
  /\ region = [n \in Majors |-> NONE]
  /\ cdevs  = [n \in Majors |-> NONE]
  /\ pclass = [m \in Modules |-> "none"]
  /\ files  = [m \in Modules |-> 0]
  /\ left   = {}

Goto(m, l) == pc' = [pc EXCEPT ![m] = l]

(* The statics of a module last as long as its code.                        *)
Unload(m) ==
  /\ Goto(m, "unloaded")
  /\ dev' = [dev EXCEPT ![m] = Fresh(m)]
  /\ pclass' = [pclass EXCEPT ![m] = "none"]

-----------------------------------------------------------------------------
(* insmod: the init function starts.                                        *)
Insmod(m) ==
  /\ pc[m] = "unloaded"
  /\ Goto(m, "alloc")
  /\ UNCHANGED <<dev, region, cdevs, pclass, files, left>>

(* dynamic_allocation.c wants no more than the number.                       *)
AfterAlloc(m) == IF Shape[m] = "dynamic" THEN "live" ELSE "add"

(* Mutant: the number reserved is not kept in the static dev.               *)
AllocRegionForgets(m) ==
  /\ pc[m] = "alloc" /\ Shape[m] \in {"chardev", "rw", "dynamic"}
  /\ \E n \in Majors \ {STATIC} : region[n] = NONE /\ region' = [region EXCEPT ![n] = m]
  /\ Goto(m, AfterAlloc(m))
  /\ UNCHANGED <<dev, cdevs, pclass, files, left>>

(* alloc_chrdev_region reserves a free number; without one init fails.      *)
AllocRegion(m) ==
  /\ pc[m] = "alloc" /\ Shape[m] \in {"chardev", "rw", "dynamic"}
  /\ \E n \in Majors \ {STATIC} :
       /\ region[n] = NONE
       /\ region' = [region EXCEPT ![n] = m]
       /\ dev' = [dev EXCEPT ![m] = n]
  /\ Goto(m, AfterAlloc(m))
  /\ UNCHANGED <<cdevs, pclass, files, left>>

(* register_chrdev_region reserves the number it is given, if it is free.    *)
RegisterRegion(m) ==
  /\ pc[m] = "alloc" /\ Shape[m] = "static"
  /\ region[dev[m]] = NONE
  /\ region' = [region EXCEPT ![dev[m]] = m]
  /\ Goto(m, "live")
  /\ UNCHANGED <<dev, cdevs, pclass, files, left>>

(* register_chrdev reserves a number and makes its cdev live.               *)
RegisterChrdev(m) ==
  /\ pc[m] = "alloc" /\ Shape[m] = "chrdev"
  /\ \E n \in Majors \ {STATIC} :
       /\ region[n] = NONE
       /\ region' = [region EXCEPT ![n] = m]
       /\ cdevs' = [cdevs EXCEPT ![n] = m]
       /\ dev' = [dev EXCEPT ![m] = n]
  /\ Goto(m, "live")
  /\ UNCHANGED <<pclass, files, left>>

(* Each can fail, for want of numbers or of memory.                       *)
AllocFails(m) ==
  /\ pc[m] = "alloc"
  /\ Unload(m)
  /\ UNCHANGED <<region, cdevs, files, left>>

AfterAdd(m) == IF Shape[m] = "rw" THEN "class" ELSE "live"

CdevAdd(m) ==
  /\ pc[m] = "add"
  /\ cdevs' = [cdevs EXCEPT ![dev[m]] = m]
  /\ Goto(m, AfterAdd(m))
  /\ UNCHANGED <<dev, region, pclass, files, left>>

(* cdev_add fails: rw_file-ops.c returns -1 and gives nothing back; the      *)
(* others log it and return 0.                                               *)
CdevAddFails(m) ==
  /\ pc[m] = "add"
  /\ \/ Shape[m] = "rw" /\ Unload(m) /\ left' = left \cup {dev[m]}
     \/ Shape[m] # "rw" /\ Goto(m, "live") /\ UNCHANGED <<dev, pclass, left>>
  /\ UNCHANGED <<region, cdevs, files>>

(* class_create returns a class or an error pointer, never NULL: the test    *)
(* for NULL lets both through.                                               *)
ClassCreate(m) ==
  /\ pc[m] = "class"
  /\ \E c \in {"class", "error"} : pclass' = [pclass EXCEPT ![m] = c]
  /\ Goto(m, "device")
  /\ UNCHANGED <<dev, region, cdevs, files, left>>

(* device_create returns a device or, always when the class is an error      *)
(* pointer, an error pointer: again the test for NULL lets both through.     *)
DeviceCreate(m) ==
  /\ pc[m] = "device"
  /\ Goto(m, "live")
  /\ UNCHANGED <<dev, region, cdevs, pclass, files, left>>

-----------------------------------------------------------------------------
(* Where the exit functions start: rw_file-ops.c destroys device and class,  *)
(* the "chardev" ones delete the cdev, the others only give the number back. *)
ExitStart(m) ==
  IF Shape[m] = "rw" THEN "destroy" ELSE IF Shape[m] = "chardev" THEN "del" ELSE "unregister"

(* Mutant: files do not hold the module (no .owner).                         *)
RmmodAlways(m) ==
  /\ pc[m] = "live"
  /\ Goto(m, ExitStart(m))
  /\ UNCHANGED <<dev, region, cdevs, pclass, files, left>>

(* rmmod: refused while a file is open.                                      *)
Rmmod(m) ==
  /\ pc[m] = "live" /\ files[m] = 0
  /\ Goto(m, ExitStart(m))
  /\ UNCHANGED <<dev, region, cdevs, pclass, files, left>>

(* device_destroy and class_destroy.  The first faults when the class is an  *)
(* error pointer, and the module is on its way out for ever.                 *)
Destroy(m) ==
  /\ pc[m] = "destroy"
  /\ \/ pclass[m] = "class" /\ pclass' = [pclass EXCEPT ![m] = "none"] /\ Goto(m, "del")
     \/ pclass[m] = "error" /\ Goto(m, "stuck") /\ UNCHANGED pclass
  /\ UNCHANGED <<dev, region, cdevs, files, left>>

(* Mutants: the cdev is not deleted, or the number is given back first.      *)
CdevDelSkipped(m) ==
  /\ pc[m] = "del"
  /\ Goto(m, "unregister")
  /\ UNCHANGED <<dev, region, cdevs, pclass, files, left>>
CdevDelLate(m) ==
  /\ pc[m] = "del"
  /\ region' = [region EXCEPT ![dev[m]] = NONE]
  /\ Goto(m, "unregister")
  /\ UNCHANGED <<dev, cdevs, pclass, files, left>>

CdevDel(m) ==
  /\ pc[m] = "del"
  /\ cdevs' = [cdevs EXCEPT ![dev[m]] = IF @ = m THEN NONE ELSE @]
  /\ Goto(m, "unregister")
  /\ UNCHANGED <<dev, region, pclass, files, left>>

(* Mutant: the reservation is kept.                                          *)
UnregisterSkipped(m) ==
  /\ pc[m] = "unregister"
  /\ cdevs' = IF Shape[m] = "chrdev" THEN [cdevs EXCEPT ![dev[m]] = NONE] ELSE cdevs
  /\ Unload(m)
  /\ UNCHANGED <<region, files, left>>

(* unregister_chrdev_region, or unregister_chrdev of the number register_    *)
(* chrdev gave.  The unregister_chrdev(device_num) that follows in the       *)
(* "chardev" exits is for major 0, which nobody holds: it does nothing.      *)
Unregister(m) ==
  /\ pc[m] = "unregister"
  /\ region' = [region EXCEPT ![dev[m]] = NONE]
  /\ cdevs' = IF Shape[m] = "chrdev" THEN [cdevs EXCEPT ![dev[m]] = NONE] ELSE cdevs
  /\ Unload(m)
  /\ UNCHANGED <<files, left>>

-----------------------------------------------------------------------------
(* Users: the kernel takes a reference on the owner of a live cdev, unless   *)
(* it is on its way out.                                                     *)
Leaving(m) == pc[m] \in {"destroy", "stuck", "del", "unregister"}

Open(m) ==
  /\ \E n \in Majors : cdevs[n] = m
  /\ ~Leaving(m) /\ files[m] < MaxOpen
  /\ files' = [files EXCEPT ![m] = @ + 1]
  /\ UNCHANGED <<pc, dev, region, cdevs, pclass, left>>

Close(m) ==
  /\ files[m] > 0
  /\ files' = [files EXCEPT ![m] = @ - 1]
  /\ UNCHANGED <<pc, dev, region, cdevs, pclass, left>>

Next ==
  \E m \in Modules :
    \/ Insmod(m) \/ AllocRegion(m) \/ RegisterRegion(m) \/ RegisterChrdev(m)
    \/ AllocFails(m)
    \/ CdevAdd(m) \/ CdevAddFails(m) \/ ClassCreate(m) \/ DeviceCreate(m)
    \/ Rmmod(m) \/ Destroy(m) \/ CdevDel(m) \/ Unregister(m)
    \/ Open(m) \/ Close(m)

Spec == Init /\ [][Next]_vars

-----------------------------------------------------------------------------
TypeOK ==
  /\ pc \in [Modules -> {"unloaded", "alloc", "add", "class", "device", "live", "stuck",
                         "destroy", "del", "unregister"}]
  /\ dev \in [Modules -> Majors \cup {NONE}]
  /\ \A m \in Modules : IF pc[m] \in {"unloaded", "alloc"} THEN dev[m] = Fresh(m) ELSE dev[m] # NONE
  /\ region \in [Majors -> Modules \cup {NONE}]
  /\ cdevs \in [Majors -> Modules \cup {NONE}]
  /\ pclass \in [Modules -> {"none", "class", "error"}]
  /\ files \in [Modules -> 0..MaxOpen]
  /\ left \subseteq Majors

(* A number with a live cdev is reserved by the same module: it cannot be   *)
(* handed to another while opens on it still reach this one.                *)
LiveNumberReserved == \A n \in Majors : cdevs[n] # NONE => region[n] = cdevs[n]

(* No live cdev and no open file belongs to a module whose code is gone,    *)
(* although files can be opened before init returns.                        *)
CodeStaysForUsers ==
  /\ \A n \in Majors : cdevs[n] # NONE => pc[cdevs[n]] # "unloaded"
  /\ \A m \in Modules : files[m] > 0 => pc[m] # "unloaded" /\ ~Leaving(m)

(* "You should free them when they are no longer in use" (char_Driver_      *)
(* Tech.c, of device numbers).  Only two failures of rw_file-ops.c keep one: *)
(* its init returns after a failed cdev_add (such a number is in "left"), or *)
(* its exit faults after a failed class_create.  Every other number reserved *)
(* is in the static dev of the module it is reserved for, which is loaded,   *)
(* so that its exit gives back the right one; a number left is lost for good *)
(* and none is recorded as left that somebody still has.                     *)
NumbersFreed ==
  /\ \A n \in Majors : region[n] # NONE /\ n \notin left =>
       dev[region[n]] = n /\ pc[region[n]] # "unloaded"
  /\ \A n \in left : region[n] # NONE /\ Shape[region[n]] = "rw" /\ dev[region[n]] # n
  /\ \A m \in Modules : pc[m] = "stuck" => pclass[m] = "error"
=============================================================================
