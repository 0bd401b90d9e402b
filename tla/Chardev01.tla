------------------------------ MODULE Chardev01 ------------------------------
(***************************************************************************)
(* The memory-backed character device of CharDD/ldd3/chardev/chardev01.c.  *)
(*                                                                         *)
(* One struct device_dev is shared by every open file.  Its storage is a   *)
(* linked list of items; an item holds an array of qset pointers and each  *)
(* pointer a quantum of bytes.  All of it is allocated on demand, and is   *)
(* freed when the device is opened write-only.  A process has at most one  *)
(* open file and runs one system call at a time; calls of different        *)
(* processes interleave wherever the code may sleep or be preempted.       *)
(***************************************************************************)
EXTENDS Integers

CONSTANTS
  Procs,        \* the processes that use the device
  Values,       \* the bytes processes write
  Junk,         \* a byte of the device's memory that no process wrote
  Lens,         \* the transfer lengths requested
  MaxPos,       \* bound: no call starts that could move beyond this offset
  DEVICE_QSET,  \* the build-time default array size
  Contents      \* what the memory taken for the struct device_dev may hold

(***************************************************************************)
(* device_open takes the struct device_dev that surrounds the cdev, but    *)
(* the cdev is a static of its own and nothing initialises such a struct:  *)
(* its first contents are whatever memory holds.  semInit says whether     *)
(* the semaphore's wait list is usable.  The list pointer is NULL: any     *)
(* other value is dereferenced at once.                                    *)
(***************************************************************************)
ContentType == [quantum : Nat, qset : Nat, size : Nat, sem : Nat, semInit : BOOLEAN]

ASSUME ChardevAssumption ==
  /\ Junk \notin Values
  /\ Lens \subseteq Nat
  /\ MaxPos \in Nat
  /\ DEVICE_QSET \in Nat
  /\ Contents \subseteq ContentType

(* A semaphore initialised to one, whatever the sizes are.                  *)
Usable(c) == c.sem = 1 /\ c.semInit

(* The contents the storage code is written for, as scull_setup_cdev would  *)
(* leave them: sizes set, semaphore initialised to one, nothing stored.     *)
Configured(c) ==
  /\ c.quantum > 0 /\ c.qset > 0
  /\ c.size = 0 /\ Usable(c)

Modes == {"O_RDONLY", "O_WRONLY", "O_RDWR"}
Bytes == Values \cup {Junk}

ERESTARTSYS == 512
ENOMEM      == 12
EFAULT      == 14

VARIABLES
  dev,      \* the scalar fields of the struct device_dev
  list,     \* how many items the linked list has
  arrays,   \* item -> number of pointers in its array, for items that have one
  quanta,   \* <<item, index>> -> the quantum's bytes, for the pointers not NULL
  file,     \* each process's struct file: access mode and position
  pc,       \* where each process is
  frame,    \* the locals of the call it is in
  got       \* the bytes the call it is in has delivered to user space

storage == <<list, arrays, quanta>>
vars == <<dev, list, arrays, quanta, file, pc, frame, got>>

Closed  == [mode |-> "closed", pos |-> 0]
NoFrame == [op |-> "none", quantum |-> 0, qset |-> 0, len |-> 0, val |-> Junk, ret |-> 0]
Empty   == [k \in {} |-> 0]

Init ==
  /\ dev \in Contents
  /\ list = 0 /\ arrays = Empty /\ quanta = Empty
  /\ file  = [p \in Procs |-> Closed]
  /\ pc    = [p \in Procs |-> "user"]
  /\ frame = [p \in Procs |-> NoFrame]
  /\ got   = [p \in Procs |-> << >>]

-----------------------------------------------------------------------------
(* Where an offset lies, by the locals quantum and qset of the call.        *)
ItemSize(f) == f.quantum * f.qset
Item(f, pos) == pos \div ItemSize(f)
SPos(f, pos) == (pos % ItemSize(f)) \div f.quantum
QPos(f, pos) == (pos % ItemSize(f)) % f.quantum
Slot(f, pos) == <<Item(f, pos), SPos(f, pos)>>

Least(a, b) == IF a <= b THEN a ELSE b
Greatest(a, b) == IF a >= b THEN a ELSE b

Put(f, k, v) == [x \in DOMAIN f \cup {k} |-> IF x = k THEN v ELSE f[x]]

MyItem(p) == Item(frame[p], file[p].pos)
MySlot(p) == Slot(frame[p], file[p].pos)
MyQPos(p) == QPos(frame[p], file[p].pos)

(* device_follow: walk to list item n, allocating items on the way; when     *)
(* kmalloc fails the items allocated before it stay.                         *)
Follow(n) == list' = Greatest(list, n + 1)
FollowFails(n) == list <= n /\ list' \in list..n

AfterDown == [open_down |-> "trim", read_down |-> "read_seek", write_down |-> "write_seek"]
Critical == {"trim", "read_seek", "read_copy", "write_seek", "write_copy", "out"}

(***************************************************************************)
(* The states in which the process's next step is undefined behaviour: it  *)
(* sleeps on a wait list never initialised, divides by an item size of     *)
(* zero, or indexes an array beyond its end.  It dies there and lets go of *)
(* nothing.                                                                *)
(***************************************************************************)
Seeking(p) == pc[p] = "write_seek" \/ (pc[p] = "read_seek" /\ file[p].pos < dev.size)
Beyond(p) == MyItem(p) \in DOMAIN arrays /\ MySlot(p)[2] >= arrays[MyItem(p)]
Undefined(p) ==
  \/ pc[p] \in DOMAIN AfterDown /\ dev.sem = 0 /\ ~dev.semInit
  \/ Seeking(p) /\ ItemSize(frame[p]) = 0
  \/ Seeking(p) /\ ItemSize(frame[p]) > 0 /\ Beyond(p)
  \/ pc[p] = "trim" /\ \E i \in DOMAIN arrays : arrays[i] < dev.qset

Oops(p) ==
  /\ Undefined(p)
  /\ pc' = [pc EXCEPT ![p] = "oops"]
  /\ UNCHANGED <<dev, storage, file, frame, got>>

-----------------------------------------------------------------------------
Goto(p, l) == pc' = [pc EXCEPT ![p] = l]
Return(p, r) == Goto(p, "out") /\ frame' = [frame EXCEPT ![p].ret = r]
Enter(p, l, f) == Goto(p, l) /\ frame' = [frame EXCEPT ![p] = f]

(* Mutant: the count is taken without looking at it.                         *)
DownUnchecked(p) ==
  /\ pc[p] \in DOMAIN AfterDown
  /\ dev' = [dev EXCEPT !.sem = @ - 1]
  /\ Goto(p, AfterDown[pc[p]])
  /\ UNCHANGED <<storage, file, frame, got>>

(* down_interruptible takes the semaphore when it is free.                   *)
Down(p) ==
  /\ pc[p] \in DOMAIN AfterDown
  /\ dev.sem > 0
  /\ dev' = [dev EXCEPT !.sem = @ - 1]
  /\ Goto(p, AfterDown[pc[p]])
  /\ UNCHANGED <<storage, file, frame, got>>

(* Mutant: an interrupted wait leaves through "out", which ups.              *)
InterruptedUps(p) ==
  /\ pc[p] \in DOMAIN AfterDown
  /\ dev.sem = 0 /\ dev.semInit
  /\ Return(p, -ERESTARTSYS)
  /\ UNCHANGED <<dev, storage, file, got>>

(* A signal ends the wait, only while the semaphore is taken: the handler    *)
(* returns -ERESTARTSYS, and a file being opened is then not open.           *)
Interrupted(p) ==
  /\ pc[p] \in DOMAIN AfterDown
  /\ dev.sem = 0 /\ dev.semInit
  /\ file' = IF pc[p] = "open_down" THEN [file EXCEPT ![p] = Closed] ELSE file
  /\ Enter(p, "user", NoFrame)
  /\ UNCHANGED <<dev, storage, got>>

Up(p) ==
  /\ pc[p] = "out"
  /\ dev' = [dev EXCEPT !.sem = @ + 1]
  /\ Enter(p, "user", NoFrame)
  /\ got' = [got EXCEPT ![p] = << >>]
  /\ UNCHANGED <<storage, file>>

(* Mutant: the size is cleared before the semaphore is taken.                *)
OpenTruncates(p, mode) ==
  /\ pc[p] = "user" /\ file[p] = Closed
  /\ file' = [file EXCEPT ![p] = [mode |-> mode, pos |-> 0]]
  /\ IF mode = "O_WRONLY"
     THEN /\ Enter(p, "open_down", [NoFrame EXCEPT !.op = "open"])
          /\ dev' = [dev EXCEPT !.size = 0]
     ELSE UNCHANGED <<dev, pc, frame>>
  /\ UNCHANGED <<storage, got>>

(* device_open: a write-only open goes on to trim the device.               *)
Open(p, mode) ==
  /\ pc[p] = "user" /\ file[p] = Closed
  /\ file' = [file EXCEPT ![p] = [mode |-> mode, pos |-> 0]]
  /\ IF mode = "O_WRONLY" THEN Enter(p, "open_down", [NoFrame EXCEPT !.op = "open"])
                          ELSE UNCHANGED <<pc, frame>>
  /\ UNCHANGED <<dev, storage, got>>

(* Mutants: the size, or the array size, is not set back.                   *)
TrimKeepsSize(p) ==
  /\ pc[p] = "trim" /\ ~Undefined(p)
  /\ list' = 0 /\ arrays' = Empty /\ quanta' = Empty
  /\ dev' = [dev EXCEPT !.qset = DEVICE_QSET]
  /\ Return(p, 0)
  /\ UNCHANGED <<file, got>>
TrimZeroesQset(p) ==
  /\ pc[p] = "trim" /\ ~Undefined(p)
  /\ list' = 0 /\ arrays' = Empty /\ quanta' = Empty
  /\ dev' = [dev EXCEPT !.size = 0, !.qset = 0]
  /\ Return(p, 0)
  /\ UNCHANGED <<file, got>>

(* device_trim, as called by device_open.                                   *)
Trim(p) ==
  /\ pc[p] = "trim" /\ ~Undefined(p)
  /\ list' = 0 /\ arrays' = Empty /\ quanta' = Empty
  /\ dev' = [dev EXCEPT !.size = 0, !.qset = DEVICE_QSET]
  /\ Return(p, 0)
  /\ UNCHANGED <<file, got>>

(* device_release does nothing; the struct file goes away.                  *)
Release(p) ==
  /\ pc[p] = "user" /\ file[p] # Closed
  /\ file' = [file EXCEPT ![p] = Closed]
  /\ UNCHANGED <<dev, storage, pc, frame, got>>

-----------------------------------------------------------------------------
(* device_read and device_write copy quantum and qset to locals before they *)
(* wait for the semaphore.                                                  *)
Locals(op, len, val, ret) ==
  [op |-> op, quantum |-> dev.quantum, qset |-> dev.qset, len |-> len, val |-> val, ret |-> ret]

ReadEnter(p, len) ==
  /\ pc[p] = "user" /\ file[p].mode \in {"O_RDONLY", "O_RDWR"}
  /\ file[p].pos + len <= MaxPos
  /\ Enter(p, "read_down", Locals("read", len, Junk, 0))
  /\ UNCHANGED <<dev, storage, file, got>>

(* Mutant: the early return at the end of the data forgets up().            *)
ReadEofNoUp(p) ==
  /\ pc[p] = "read_seek" /\ file[p].pos >= dev.size
  /\ Enter(p, "user", NoFrame)
  /\ UNCHANGED <<dev, storage, file, got>>

ReadEof(p) ==
  /\ pc[p] = "read_seek" /\ file[p].pos >= dev.size
  /\ Return(p, 0)
  /\ UNCHANGED <<dev, storage, file, got>>

(* device_follow fails, or there is no quantum at the position.             *)
ReadHole(p) ==
  /\ pc[p] = "read_seek" /\ file[p].pos < dev.size /\ ~Undefined(p)
  /\ \/ FollowFails(MyItem(p))
     \/ Follow(MyItem(p)) /\ MySlot(p) \notin DOMAIN quanta
  /\ Return(p, 0)
  /\ UNCHANGED <<dev, arrays, quanta, file, got>>

(* Mutant: a transfer is not cut to the quantum.                            *)
ClipNothing(f, pos) == f.len

(* The length a transfer is cut to: it stops at the end of the quantum.     *)
Clip(f, pos) == Least(f.len, f.quantum - QPos(f, pos))

ReadFound(p) ==
  /\ pc[p] = "read_seek" /\ file[p].pos < dev.size /\ ~Undefined(p)
  /\ Follow(MyItem(p)) /\ MySlot(p) \in DOMAIN quanta
  /\ Goto(p, "read_copy")
  /\ frame' = [frame EXCEPT ![p].len = Clip(frame[p], file[p].pos)]
  /\ UNCHANGED <<dev, arrays, quanta, file, got>>

ReadCopy(p) ==
  /\ pc[p] = "read_copy"
  /\ \/ /\ got' = [got EXCEPT ![p] =
                     [i \in 1..frame[p].len |-> quanta[MySlot(p)][MyQPos(p) + i - 1]]]
        /\ file' = [file EXCEPT ![p].pos = @ + frame[p].len]
        /\ Return(p, frame[p].len)
     \/ /\ frame[p].len > 0                                 \* copy_to_user faults
        /\ Return(p, -EFAULT)
        /\ UNCHANGED <<file, got>>
  /\ UNCHANGED <<dev, storage>>

-----------------------------------------------------------------------------
WriteEnter(p, len, val) ==
  /\ pc[p] = "user" /\ file[p].mode \in {"O_WRONLY", "O_RDWR"}
  /\ file[p].pos + len <= MaxPos
  /\ Enter(p, "write_down", Locals("write", len, val, -ENOMEM))
  /\ UNCHANGED <<dev, storage, file, got>>

(* Mutant: the array is sized by the wrong local.                           *)
WithArrayByQuantum(p) ==
  IF MyItem(p) \in DOMAIN arrays THEN arrays ELSE Put(arrays, MyItem(p), frame[p].quantum)

(* The arrays once the item has one: a new one is sized by the local qset.  *)
WithArray(p) ==
  IF MyItem(p) \in DOMAIN arrays THEN arrays ELSE Put(arrays, MyItem(p), frame[p].qset)

(* One of the allocations fails; what was allocated before it stays.        *)
WriteNoMem(p) ==
  /\ pc[p] = "write_seek" /\ ~Undefined(p)
  /\ \/ FollowFails(MyItem(p)) /\ UNCHANGED arrays
     \/ Follow(MyItem(p)) /\ MyItem(p) \notin DOMAIN arrays /\ UNCHANGED arrays
     \/ Follow(MyItem(p)) /\ MySlot(p) \notin DOMAIN quanta /\ arrays' = WithArray(p)
  /\ Goto(p, "out")
  /\ UNCHANGED <<dev, quanta, file, frame, got>>

WriteFound(p) ==
  /\ pc[p] = "write_seek" /\ ~Undefined(p)
  /\ Follow(MyItem(p))
  /\ arrays' = WithArray(p)
  /\ quanta' = IF MySlot(p) \in DOMAIN quanta THEN quanta
               ELSE Put(quanta, MySlot(p), [j \in 0..frame[p].quantum - 1 |-> Junk])
  /\ Goto(p, "write_copy")
  /\ frame' = [frame EXCEPT ![p].len = Clip(frame[p], file[p].pos)]
  /\ UNCHANGED <<dev, file, got>>

(* The target quantum after a copy of n bytes to it, and after a copy that   *)
(* faulted, where the rest of the requested range may have been padded.      *)
Target(p) == quanta[MySlot(p)]
Span(p, from, to) == MyQPos(p) + from .. MyQPos(p) + to - 1
Filled(p, n) ==
  [j \in DOMAIN Target(p) |-> IF j \in Span(p, 0, n) THEN frame[p].val ELSE Target(p)[j]]
Padded(p, n) ==
  [j \in DOMAIN Target(p) |->
     IF j \in Span(p, n, frame[p].len) THEN Junk ELSE Filled(p, n)[j]]

WriteCopy(p) ==
  /\ pc[p] = "write_copy"
  /\ LET end == file[p].pos + frame[p].len
     IN  /\ quanta' = [quanta EXCEPT ![MySlot(p)] = Filled(p, frame[p].len)]
         /\ file' = [file EXCEPT ![p].pos = end]
         /\ dev' = [dev EXCEPT !.size = Greatest(@, end)]
  /\ Return(p, frame[p].len)
  /\ UNCHANGED <<list, arrays, got>>

(* copy_from_user faults after n bytes, and the kernel may pad what it did   *)
(* not copy: the call fails but its bytes are in the device.                 *)
WriteFault(p) ==
  /\ pc[p] = "write_copy"
  /\ \E n \in 0..frame[p].len - 1 : \E rest \in {Filled(p, n), Padded(p, n)} :
       quanta' = [quanta EXCEPT ![MySlot(p)] = rest]
  /\ Return(p, -EFAULT)
  /\ UNCHANGED <<dev, list, arrays, file, got>>

-----------------------------------------------------------------------------
Call(p) ==
  \/ \E mode \in Modes : Open(p, mode)
  \/ Release(p)
  \/ \E len \in Lens : ReadEnter(p, len)
  \/ \E len \in Lens, val \in Values : WriteEnter(p, len, val)

(* The steps of a call once it has started.                                 *)
Step(p) ==
  \/ Trim(p)
  \/ ReadEof(p) \/ ReadHole(p) \/ ReadFound(p) \/ ReadCopy(p)
  \/ WriteNoMem(p) \/ WriteFound(p) \/ WriteCopy(p) \/ WriteFault(p)
  \/ Up(p)

Next == \E p \in Procs : Call(p) \/ Down(p) \/ Interrupted(p) \/ Step(p) \/ Oops(p)

Spec == Init /\ [][Next]_vars

(***************************************************************************)
(* A process inside the kernel is scheduled again, and page faults it takes *)
(* in a copy are resolved.  A kernel semaphore serves its waiters in order, *)
(* so a process that keeps finding it free again gets it.  Nothing makes a  *)
(* process start a call, or a signal arrive.                                *)
(***************************************************************************)
Fairness == \A p \in Procs : WF_vars(Step(p)) /\ SF_vars(Down(p))
FairSpec == Spec /\ Fairness

-----------------------------------------------------------------------------
Labels == {"user", "oops"} \cup DOMAIN AfterDown \cup Critical

(* Every variable has its type.                                             *)
TypeOK ==
  /\ dev \in ContentType
  /\ list \in Nat
  /\ DOMAIN arrays \subseteq Nat /\ \A i \in DOMAIN arrays : arrays[i] \in Nat
  /\ DOMAIN quanta \subseteq Nat \X Nat
  /\ file \in [Procs -> [mode : Modes \cup {"closed"}, pos : Nat]]
  /\ pc \in [Procs -> Labels]
  /\ frame \in [Procs -> [op : {"none", "open", "read", "write"}, quantum : Nat,
                          qset : Nat, len : Nat, val : Bytes, ret : Int]]

(* device_dev.sem is a mutual exclusion semaphore: at most one process is   *)
(* between down_interruptible and up, on every path through the three       *)
(* handlers, and the count is one exactly when there is none.  A process    *)
(* that died between them still holds it.                                   *)
Holds(p) == pc[p] \in Critical \cup {"oops"}
MutualExclusion ==
  /\ \A p, q \in Procs : Holds(p) /\ Holds(q) => p = q
  /\ dev.sem = IF \E p \in Procs : Holds(p) THEN 0 ELSE 1

(* The quantum a read or write found is still allocated, is a whole quantum *)
(* of an item still in the list, and has room for the clipped transfer,     *)
(* when the bytes are copied: no trim comes in between.                     *)
TargetLive ==
  \A p \in Procs : pc[p] \in {"read_copy", "write_copy"} =>
    /\ MyItem(p) < list /\ MySlot(p) \in DOMAIN quanta
    /\ \A i \in 0..frame[p].len - 1 : MyQPos(p) + i \in DOMAIN quanta[MySlot(p)]

(* dev->qset is "the current array size" (charheader.h): every array that   *)
(* is allocated has that many pointers, although a write sizes it by a copy *)
(* of qset taken before the semaphore, and the storage hangs together: an   *)
(* array belongs to an item of the list and a quantum to an array.          *)
ArraySizes ==
  /\ \A i \in DOMAIN arrays : i < list /\ arrays[i] = dev.qset
  /\ \A s \in DOMAIN quanta : s[1] \in DOMAIN arrays /\ s[2] < arrays[s[1]]

(* No call ends in undefined behaviour: waiting on a semaphore nobody       *)
(* initialised, dividing by an item size of zero, indexing beyond an array. *)
NoOops == \A p \in Procs : pc[p] # "oops"

(* On a device whose array size a trim makes smaller, only a call that       *)
(* copied qset before the trim dies: calls that come in afterwards, and the  *)
(* trim itself, find every array large enough, whatever stale calls stored.  *)
OnlyStaleFaults == \A p \in Procs : pc[p] = "oops" => frame[p].qset # dev.qset

(* Who dies in the kernel keeps the semaphore: from then on the device and   *)
(* its storage stay as they are, no byte is delivered, and those who wait    *)
(* get out by a signal only.                                                 *)
DeadFreezes ==
  [][(\E p \in Procs : pc[p] = "oops") =>
       /\ UNCHANGED <<dev, storage, got>>
       /\ \A q \in Procs : pc[q] \in DOMAIN AfterDown => pc'[q] \in {pc[q], "user"}]_vars

(***************************************************************************)
(* The abstract device this one implements.  The byte at an offset is the   *)
(* one in its quantum, if there is one and some process wrote it.  A file   *)
(* being opened write-only is not open before the trim.                     *)
(***************************************************************************)
Opening(p) == pc[p] = "open_down" \/ pc[p] = "trim"
OpenFiles == [p \in Procs |-> IF Opening(p) THEN Closed ELSE file[p]]
ByteAt(o) == IF Slot(dev, o) \in DOMAIN quanta THEN quanta[Slot(dev, o)][QPos(dev, o)] ELSE Junk
StoredBytes == [o \in 0..MaxPos - 1 |-> ByteAt(o)]

Shared == INSTANCE SharedBytes WITH
  Unset <- Junk, bytes <- StoredBytes, size <- dev.size, file <- OpenFiles

(* The device behaves as one shared array of bytes: each handler takes      *)
(* effect at one point, a read delivers what is stored at its position and  *)
(* a failed call moves neither position nor size.                           *)
ImplementsSharedBytes == Shared!Spec

(* A call that has entered the driver returns: neither a waiting process    *)
(* nor the holder of the semaphore is left inside for ever, whichever error *)
(* path is taken.                                                           *)
CallsReturn == \A p \in Procs : (pc[p] # "user") ~> (pc[p] = "user")
=============================================================================
