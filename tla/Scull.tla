--------------------------------- MODULE Scull ---------------------------------
(***************************************************************************)
(* How CharDD/char_Driver_Tech.c connects scull's devices to their numbers:  *)
(* device numbers, cdev_init, cdev_add and scull_setup_cdev, and the way     *)
(* from a device file through its cdev to scull_open, which finds the device *)
(* around the cdev and keeps it in the open file.  The text has no init and  *)
(* exit function for them; loading and unloading are external.               *)
(***************************************************************************)
EXTENDS Integers

CONSTANTS
  Programs,     \* those that open the files
  N,            \* how many devices there are
  MINORS,       \* minor numbers per major (2^20 in the kernel)
  scull_major,
  scull_minor,  \* the numbers of the first device
  Nothing       \* no cdev, no device, no owner

Devs == 0..(N - 1)

ScullAssumption ==
  /\ N \in Nat \ {0} /\ MINORS \in Nat \ {0}
  /\ scull_major \in Nat /\ scull_minor \in Nat
  /\ scull_minor + N <= MINORS
  /\ Nothing \notin Int \cup {"scull"}

ASSUME ScullAssumption

VARIABLES
  scull_pc,  \* the module: "unloaded", "setup", "loaded"
  index,     \* the device scull_setup_cdev is at
  cdev,      \* the cdev inside each device
  cdev_map,  \* the kernel's map: which device's cdev answers on a number
  filp,      \* each program's open file
  stored     \* what each device stores: the numbers of the files it was written through

scullVars == <<scull_pc, index, cdev, cdev_map, filp, stored>>

-----------------------------------------------------------------------------
(* Device numbers.                                                           *)
MKDEV(ma, mi) == ma * MINORS + mi
MAJOR(dev) == dev \div MINORS
MINOR(dev) == dev % MINORS
Numbers == {MKDEV(scull_major, mi) : mi \in 0..(MINORS - 1)}

(* The methods a file_operations has room for, and scull's; the ioctl of     *)
(* scull's is a field of older kernels.                                      *)
file_operations ==
  {"llseek", "read", "write", "unlocked_ioctl", "compat_ioctl", "mmap", "open", "flush",
   "release", "fsync", "fasync", "sendpage", "get_unmapped_area", "mmap_capabilities"}
scull_fops == {"llseek", "read", "write", "ioctl", "open", "release"}

(* A cdev and a file, as far as they matter here.                            *)
NoCdev == [ops |-> {}, owner |-> Nothing, dev |-> 0, count |-> 0]
NoFile == [f_op |-> {}, f_rdev |-> 0, private_data |-> Nothing]

cdev_init(fops) == [NoCdev EXCEPT !.ops = fops]

ScullInit ==
  /\ scull_pc = "unloaded" /\ index = 0
  /\ cdev = [i \in Devs |-> NoCdev]
  /\ cdev_map = [n \in Numbers |-> Nothing]
  /\ filp = [p \in Programs |-> NoFile]
  /\ stored = [i \in Devs |-> {}]

ScullInsmod ==
  /\ scull_pc = "unloaded"
  /\ scull_pc' = "setup" /\ index' = 0
  /\ UNCHANGED <<cdev, cdev_map, filp, stored>>

NextDevice ==
  IF index = N - 1 THEN scull_pc' = "loaded" /\ index' = 0 ELSE index' = index + 1 /\ UNCHANGED scull_pc

(* Mutants: the index is left out of the number, the owner is not set.       *)
DevnoFirst(i) == MKDEV(scull_major, scull_minor)
SetupUnowned(i, n) == [cdev_init(scull_fops) EXCEPT !.dev = n, !.count = 1]

Devno(i) == MKDEV(scull_major, scull_minor + i)
SetupOwned(i, n) == [cdev_init(scull_fops) EXCEPT !.owner = "scull", !.dev = n, !.count = 1]

(* scull_setup_cdev: the device is live at once when cdev_add succeeds, and  *)
(* left without a number, with no more than a log line, when it fails.       *)
scull_setup_cdev ==
  /\ scull_pc = "setup"
  /\ cdev' = [cdev EXCEPT ![index] = SetupOwned(index, Devno(index))]
  /\ \/ cdev_map' = [cdev_map EXCEPT ![Devno(index)] = index]
     \/ UNCHANGED cdev_map
  /\ NextDevice
  /\ UNCHANGED <<filp, stored>>

-----------------------------------------------------------------------------
(* scull_open: the device is the one around the cdev the inode's number led  *)
(* to; write-only trims it, errors ignored.                                  *)
scull_open(p, n, wronly) ==
  /\ filp[p] = NoFile /\ cdev_map[n] # Nothing
  /\ LET i == cdev_map[n]
     IN  /\ filp' = [filp EXCEPT ![p] = [f_op |-> cdev[i].ops, f_rdev |-> n, private_data |-> i]]
         /\ stored' = IF wronly THEN [stored EXCEPT ![i] = {}] ELSE stored
  /\ UNCHANGED <<scull_pc, index, cdev, cdev_map>>

(* A write goes to the device the open file keeps, if there is the method.   *)
ScullWrite(p) ==
  /\ "write" \in filp[p].f_op
  /\ stored' = [stored EXCEPT ![filp[p].private_data] = @ \cup {filp[p].f_rdev}]
  /\ UNCHANGED <<scull_pc, index, cdev, cdev_map, filp>>

scull_release(p) ==
  /\ filp[p] # NoFile
  /\ filp' = [filp EXCEPT ![p] = NoFile]
  /\ UNCHANGED <<scull_pc, index, cdev, cdev_map, stored>>

(* rmmod, refused while a file is open whose cdev has the module as owner.   *)
ScullRmmod ==
  /\ scull_pc = "loaded"
  /\ \A p \in Programs : filp[p] # NoFile => cdev[filp[p].private_data].owner # "scull"
  /\ scull_pc' = "unloaded" /\ index' = 0
  /\ cdev' = [i \in Devs |-> NoCdev]
  /\ cdev_map' = [n \in Numbers |-> Nothing]
  /\ stored' = [i \in Devs |-> {}]
  /\ UNCHANGED filp

ScullNext ==
  \/ ScullInsmod \/ scull_setup_cdev \/ ScullRmmod
  \/ \E p \in Programs :
       \/ \E n \in Numbers, wronly \in BOOLEAN : scull_open(p, n, wronly)
       \/ ScullWrite(p) \/ scull_release(p)

ScullSpec == ScullInit /\ [][ScullNext]_scullVars

-----------------------------------------------------------------------------
ScullTypeOK ==
  /\ scull_pc \in {"unloaded", "setup", "loaded"} /\ index \in Devs
  /\ cdev \in [Devs -> [ops : SUBSET (file_operations \cup scull_fops),
                        owner : {Nothing, "scull"}, dev : Numbers \cup {0}, count : 0..1]]
  /\ cdev_map \in [Numbers -> Devs \cup {Nothing}]
  /\ filp \in [Programs -> [f_op : SUBSET (file_operations \cup scull_fops),
                            f_rdev : Numbers \cup {0}, private_data : Devs \cup {Nothing}]]
  /\ stored \in [Devs -> SUBSET Numbers]

(* From the file's number through map, cdev and container_of to private_     *)
(* data: a program is served by the device whose minor number it opened,     *)
(* even when other devices' cdev_add failed, and no device holds what was    *)
(* written to another.                                                       *)
ScullRouted ==
  /\ \A p \in Programs : filp[p].private_data # Nothing =>
       /\ MAJOR(filp[p].f_rdev) = scull_major
       /\ MINOR(filp[p].f_rdev) = scull_minor + filp[p].private_data
  /\ \A i \in Devs : \A n \in stored[i] : MINOR(n) = scull_minor + i

(* The owner field "is used to prevent the module from being unloaded while  *)
(* its operations are in use": devices are open before the set-up has ended  *)
(* and while others try to unload, and the cdev of an open one still has the *)
(* methods it was opened with.                                               *)
OpenDeviceServed ==
  \A p \in Programs : filp[p].private_data # Nothing =>
    scull_pc # "unloaded" /\ cdev[filp[p].private_data].ops = filp[p].f_op
=============================================================================
