# A verification development of the DeviceDriver repository

The repository is a set of small Linux kernel modules (character drivers), one
user program, and working notes on drivers, several of them with C code in the
text. This directory holds TLA+ models of the parts that are programs, TLC
configurations that check them, and TLAPS proofs of what matters most in each.

## The system

| part | source | state | operations | hard behaviour |
|---|---|---|---|---|
| memory-backed device | `CharDD/ldd3/chardev/chardev01.c`, `charheader.h` | one `struct device_dev`: sizes, semaphore, a list of items with arrays of quanta; a position per open file | open (trims when write-only), read, write, release | interleaved calls, sleeping inside calls, stale locals, failed allocations, faults in copies, signals |
| buffer driver and its program | `CharDD/rw_file-ops.c`, `CharDD/test.c` | one global pointer `kernel_buffer` | open allocates, read and write copy, release frees | no lock: one pointer for every open file |
| demonstration drivers | `CharDD/file-operation.c`, `ioctL/file_operation/demo01.c` to `demo03.c` | none (demo03: a buffer on the stack) | open, read, write, release | return values that decide whether programs end; the buffer's last byte |
| registration | init and exit functions of all of these | device number, cdev, class; the kernel's tables | load, unload, open, close | calls that fail half way; opens during init and exit |
| snull | `Books/tempdocs.c`, `Networking/Opening-Closing.c` | `priv->skb`, `status`, `rx_queue`, `lock`, `rx_int_enabled`; the transmit queue | open, stop, transmit, timeout, interrupt, poll | the handler runs in several contexts; a lost interrupt and its timeout; interrupts disabled in one context and enabled in another |
| snull init and cleanup | `Networking/Networking_doc.c` | two `net_device`s and the static array of pointers to them | init, `device_init`, cleanup | one of two allocations or registrations fails; an interface is brought up as soon as it is registered |
| number examples | `CharDD/dynamic_allocation.c`, `maj_min.c` | a device number | init, exit | two modules that want one number |
| scull's devices | `CharDD/char_Driver_Tech.c` | a cdev per device, the kernel's map, open files | `scull_setup_cdev`, open, release | set-up that fails for some devices; opens while it goes on |
| ioctl notes | `IOCTL/ioctl.c`, `ioctl_info.c` | one global `value` | encoding of commands, `etx_ioctl` | bit fields; a command sent to the wrong device |
| PCI notes | `PCI_BUS/pci_busv0.2.c`, `pci_bus.c` | functions on the bus, bound or not | init, exit, probe, matching | functions pulled out during a probe; wildcards and the end of a table |

The character drivers do not call each other. What they share is the kernel:
its table of device numbers and its map of live cdevs, which is why registration
is one module over all of them. Within a driver, processes interact through the
driver's globals. In snull, the transmit path, the watchdog of the network layer
and the peer interface interact through `priv`.

What makes each part correct:

- memory-backed device: the storage is only touched under the semaphore, no
  freed or missing quantum is accessed, arrays have the size the code indexes
  them by, and seen from outside it is one shared array of bytes;
- buffer driver: a program that has the device for itself copies through an
  allocated block, frees it, and reads back what it wrote, whatever went on before;
- demonstration drivers: standard programs end;
- registration: no user ever reaches code that is gone, a number is not given
  to two modules, and numbers are given back;
- snull: every socket buffer is freed exactly once, every packet is handled at
  most once and in order, packet buffers are conserved, receive interrupts
  are off exactly while the interface is polled, and from outside reception is a
  queue;
- snull init and cleanup: what the network layer knows is a live structure of a
  loaded module, set up before it was registered, and structures are freed;
- scull's devices: a program is served by the device whose number it opened, and
  the module stays while it is;
- ioctl: a number stands for one command, and a foreign command changes nothing;
- PCI: exactly the supported functions are probed, none is accessed before it is
  enabled, and none is bound once the module is gone.

## Modules

**`Chardev01`** models `chardev01.c`. A process has at most one open file and is
in at most one call; `pc` says where, `frame` holds the call's locals. A call is
split where another process can act: before and after `down_interruptible`, and
before each copy to or from user space. Its actions are named for what the code
does there: `Open`, `Down`, `Interrupted` (-ERESTARTSYS), `Trim`, `ReadEnter`,
`ReadEof`, `ReadHole`, `ReadFound`, `ReadCopy`, `WriteEnter`, `WriteNoMem`,
`WriteFound`, `WriteCopy`, `WriteFault`, `Up`, `Release`. `quantum` and `qset` are
copied to the frame at entry, before the semaphore, as lines 118 and 153 do.
Allocation may fail at every `kmalloc`, copies may fault after any number of
bytes. `list`, `arrays` and `quanta` are the linked list, the arrays that exist
and the quanta that exist. Undefined behaviour (a wait list never initialised, a
division by zero, an index beyond an array) is the action `Oops`: the process
dies where it is, and keeps the semaphore if it has it. The constant `Contents`
gives the first contents of the structure, because the source initialises none.

**`SharedBytes`** is what such a device promises: bytes, a size, a position per
file, every call effective at one point. `Chardev01!ImplementsSharedBytes` is the
refinement; an offset maps to the byte in its quantum, and a file being opened
write-only counts as open once the trim has happened. A failed write may have
changed bytes of the range it was given, and nothing else.

**`RwFileOps`** models `rw_file-ops.c` with processes that run `test.c`. Copies
go byte by byte through the pointer as it was when the copy began. Opening is two
steps, the store to the global and the test of it. Processes overlap as they like,
which frees blocks under others, leaves blocks behind and the global dangling. The
history variable `alone` names the process that uses the device when no other has
since its open began: what the driver can promise, it promises to that one. Freeing a
block twice is undefined: `Release` is then not enabled, and nothing is claimed of what
would follow.

**`DemoFiles`** models the handlers of the four demonstration drivers with echo,
cat and head, each at the level of its system calls. The variable `driver` is
chosen initially among the drivers in `Uses`.

**`CharRegistration`** models init and exit of five shapes: `alloc_chrdev_region`
with `cdev_add` ("chardev": `chardev01.c` and the demos), the same with class and
device ("rw"), `register_chrdev` ("chrdev"), and the two examples that only reserve
a number, a free one ("dynamic") or the fixed one `STATIC` ("static"). These two do
not compile as committed; the stray lines `result=reg` and `result=a` are left out.
Every kernel call may fail. `class_create` and `device_create` fail with error pointers,
which pass the tests for NULL in `rw_file-ops.c`: the module goes live, and
`device_destroy` in its exit faults on the class that is none (`Destroy`), which leaves
the module "stuck" on its way out. The history variable `left` keeps the numbers whose
init returned without giving them back. Users open a device as soon as its cdev is live
and the module is not going.

**`Snull`** models the transmit and receive code. The handler
`snull_regular_interrupt` is five steps, and runs in the transmit path, in the
peer's transmit path (which is where packets come from) and in the watchdog.
`snull_hw_tx` is not in the repository: it is external, and does what the text
says of it, transmit at once or simulate a lockup. `use_napi` is a variable that
keeps its first value: with it the handler asks for a poll (`ScheduleRx`) instead
of taking a packet (`HandleRx`), and the fourth context runs `snull_poll`. The poll
reads `rx_queue` three times, in the loop's condition, in its body and after it, and
enables interrupts last: each is a step, so packets arrive between any two. `quota`
is the smaller of `dev->quota` and `*budget`, which belong to the network layer.

**`PacketQueue`** is what a receive path promises, however it is built: packets wait
in the order they arrive in, and the first to wait is the next to be delivered or
dropped. `Snull!ImplementsPacketQueue` is the refinement. What waits is the packet
some context has taken out of `rx_queue` and not yet handled, followed by the queue
(`Waiting`), so the same abstract step is `HandleRx` in one mode and the end of a
turn of the poll's loop in the other.

**`SnullFrames`** is the data side of snull: `snull_tx` pads short packets in an
array on its stack, and `snull_rx` (`Receive`) or the loop of `snull_poll`
(`PollReceive`) builds a socket buffer around what arrived, hands it up and counts, or
finds no memory, drops it and counts that. Here packets are short sequences of bytes,
and bytes nobody wrote are `Stale`. `handed_up` has every socket buffer given to the
network layer, by the number of its packet, so that the statistics can be compared with
what they are about. `polled` keeps its first value, as `use_napi` does.

**`SnullModule`** models `zurico_init_module`, `device_init` and `snull_cleanup`. The
text calls one array `zurico_devs` and `snull_devs`, and one function `device_init`
and `snull_init`; the model has one of each. `netdevs` holds what `device_init` left
in each structure, as four flags: operations, poll function, receive interrupts,
pool. The network layer may bring an interface up between any two steps.

**`Scull`** follows `char_Driver_Tech.c`: `MKDEV`, `cdev_init`, `scull_setup_cdev`,
and `scull_open`, which gets from the inode's cdev to the device around it. The text
has no function that calls `scull_setup_cdev` for all devices; loading and unloading
are external. `scull_fops` is kept as written, with the field `ioctl`, which the
structure listed in the same text does not have. What a device stores is abstracted
to the numbers of the files it was written through.

**`IoctlDevice`** has the command numbers as fields of two halves of 16 bits,
scull's thirteen commands (`_IORW` of the text is read as `_IOWR`), and the driver of
`ioctl_info.c`, which programs call with its own commands and with scull's.

**`PciDriver`** models init, probe and exit of `pci_busv0.2.c`, with the id table of
each of the two drivers in the notes. Functions are plugged in, stop answering and
are taken off the bus at any time, so a probe may read a function that is gone. The
PCI core is external.

**`MCChardev01`** and **`MCDemoFiles`** hold values for TLC. **`MCDrivers`** puts
`CharRegistration`, `RwFileOps`, `PciDriver`, `SnullModule`, `SnullFrames`,
`IoctlDevice` and `Scull` into one instance for TLC. They share nothing, so a behaviour
chooses one of the seven (`chosen`) and the others stay where they start: it is seven
separate checks in one run, and no two drivers are ever at work at once.

Proofs are in `Chardev01Proofs`, `CharRegistrationProofs`, `RwFileOpsProofs`,
`DemoFilesProofs`, `SnullProofs`, `SnullModuleProofs` (about `SnullModule` and
`SnullFrames`), `NotesProofs` (about `Scull`, `IoctlDevice` and `PciDriver`) and
`DriversProofs` (about the instance `MCDrivers`).

## Runs

| run | instance | what it shows |
|---|---|---|
| `chardev01_safety` | 3 processes, quantum 3, array size 1, transfers of 2, offsets to 5 | types, mutual exclusion, `TargetLive`, `ArraySizes`, `NoOops` |
| `chardev01_behaviour` | 2 processes, same sizes | the refinement of `SharedBytes`, and that calls return |
| `chardev01_other_qset` | 2 processes, array size 2 where the default is 1 | processes do die here: `OnlyStaleFaults`, only of a `qset` copied before a trim changed it, and `DeadFreezes`, for good |
| `chardev01_zeroed` | the contents a zero-filled static would have | violates `NoOops` |
| `rwfileops_shared` | 2 processes at once | violates `ReadBack` |
| `demo_ends` | 2 processes, every driver with the programs that end on it | `ProgramsEnd` |
| `demo_demo03_terminator` | the example use of `demo03.c` | violates `TerminatorInBuffer` |
| `snull_alone` | 8 socket buffers, no peer | `SkbTracked`, `SkbsFreed` |
| `snull_peer` | both values of `use_napi`, 2 socket buffers, 4 arrivals, 2 packet buffers, quota up to 2 | `SkbFreedOnce`, `RxInOrder`, `BuffersConserved`, `MaskedWhilePolled`, `PolledPacketsTaken`, and the refinement of `PacketQueue` |
| `snull_timeout_race` | lockups and one arrival | violates `SkbTracked` |
| `snull_device_init` | the module is loaded with either `use_napi` | violates `InitialisedWhenRegistered` |
| `drivers` | one of seven, each with the instance below | see below |

The run `drivers`, by what a behaviour chooses:

| chosen | instance | what it shows |
|---|---|---|
| registration | 6 modules, one of each shape and a second "static", 3 numbers, 2 files each | `NumbersFreed`, `LiveNumberReserved`, `CodeStaysForUsers` |
| buffer driver | 2 processes that overlap freely, 2 blocks, words up to 2 | `AccessValid`, `NothingLeaked`, `AloneReadsBack` |
| PCI | either table, 3 functions, each enabled at most twice | `BoundOnlyWhileLoaded`, `AccessedEnabled`, `AcceptedRevision`, `MatchesExactly` |
| snull's module | room for 5 structures, 3 failed allocations | `RegisteredStructuresLive`, `StructuresFreed` |
| frames | 4 payloads of 1 to 4 bytes, least length 3, header 1, 4 frames, by interrupt or by poll | `NothingStaleSent`, `FramesAccounted` |
| ioctl | 2 callers, values 0 to 2, all 15 commands | `CommandsUnique`, `WrongDeviceHarmless` |
| scull | 2 programs, 3 devices, 5 minor numbers | `ScullRouted`, `OpenDeviceServed` |

Bounds and why they are enough. In `Chardev01`, transfers of 2 against quanta of
3 give transfers that fit, that are clipped, and that end exactly at a quantum's
end; offsets to 5 reach the second list item, so that walks allocate, fail half
way, and leave holes. `MaxPos` bounds where a call may start. One value is enough
because bytes are only copied; the other byte is `Junk`, which stands for memory
nobody wrote. Three processes are a holder, a waiter and one that opens for
writing. In `RwFileOps` two processes and two blocks let each open find a free
block or none, a close free the block of the other, and later sessions run with a block
lost or with none left; opens and closes repeat without a bound. In
`chardev01_other_qset` one process waits with the old size while the other trims and
writes with the new one. In `CharRegistration` modules compete for two free numbers and two of them
for the fixed one, so that allocations fail for want of numbers and numbers are
handed on; loading and unloading repeat without a bound. In `PciDriver` the three
functions are one that either table could take by vendor or class alone, and one for
each table; one has the refused revision. In `SnullModule` three failures over five
structures let memory run out by leaks. In `SnullFrames` payloads are shorter than a
frame, as long, and longer, and the order of four frames mixes them. In `Scull` the
devices begin at minor 1 of 5, so that numbers below and above theirs exist. In `Snull` four
arrivals over two buffers let buffers be reused while both contexts hold one;
socket buffers are sent again and again without a bound. A quota of 1 or 2 (the
code's weight) against two packets lets a poll end at its quota with a packet left,
end with both at once, and end early.
`chardev01_other_qset` does not check for deadlock: processes that died hold the
semaphore. Nor does `drivers`: its bounds end some behaviours, when all `MaxFrames` frames were
sent and received, or when `MaxFailed` allocations have failed and leaks have used up
the structures. Processes are symmetric in `chardev01_safety`, which checks invariants
only.

Fairness. `Chardev01`: `WF` on a process's steps inside the driver (the kernel
schedules it, and page faults of a copy are resolved) and `SF` on taking the
semaphore (a kernel semaphore hands itself to its waiters in order); no call has
to start, and no signal has to arrive. `DemoFiles`: `WF` on a running program.
`Snull`: `WF` on the handler's steps, on `snull_hw_tx` and on the watchdog, whose
timer goes off while a queue stays stopped; `SF` on entering the handler, a
kernel spinlock being fair. Nothing has to be sent. `snull_peer` assumes only `WF` on
`snull_poll` (the network layer goes through its list), and no fairness of arrivals.

## What the violations show

- `chardev01_zeroed`: `device_open` uses the structure around a static cdev, and
  nothing initialises any such structure. The storage code is sound only for a
  structure set up as scull's is, which is what the other runs and the proofs assume.
- `rwfileops_shared`: the global pointer is overwritten by every open.
- `demo_demo03_terminator`: a text of 30 bytes or more puts the terminator one
  past the buffer, with the very example the file gives.
- `snull_timeout_race`: `snull_tx_timeout` writes `priv->status` without the lock.
- `snull_device_init`: the brace of `if (use_napi)` (`Networking_doc.c` 136-146)
  encloses more than the poll function: without `use_napi` the private data, the
  receive interrupts and the pool are never set up, and with it the `memset` wipes
  the poll function that was just stored there. Lines 193-197 of the same text set
  these up always: `Snull` starts as they say.

Seen while modelling, and visible in the models without a run of their own: a
read of a hole, and one whose walk finds no memory, return 0 as the end of the
data does (`ReadHole`); a read is clipped to its quantum and not to the size
(`ReadFound`); echo to `demo01.c` and `file-operation.c`, whose writes return 0,
never ends, so `MCEnding` leaves these uses out; `device_read` of `rw_file-ops.c`
returns its whole buffer whatever it was asked for; its init keeps its number for good
when `cdev_add` fails (`CdevAddFails`, the numbers in `left` that `NumbersFreed` excepts,
although `char_Driver_Tech.c` 162 says numbers should be freed) and takes
the error pointer of `class_create` for a class (`ClassCreate`), which its exit faults
on (`Destroy`); the other inits
return 0 after a failed `cdev_add`; an interface taken down during a lockup
forgets its socket buffer, which is why `snull_alone` does not close it; the
timeout overwrites a pending receive bit; a packet that arrives between the last
test of `snull_poll` and its `snull_rx_ints` is announced to nobody and waits for the
next one; `zurico_init_module` forgets the structure it got when the other could not
be allocated (the term `failed` in `StructuresFreed`), and returns 0 when both
registrations fail; a PCI probe that refuses a function leaves it enabled
(`ProbeRevision`), and unloading disables nothing; the revision is taken from a read
whose result is ignored (`skel_get_revision`); `etx_ioctl` returns 0 for commands it
does not know and after copies that failed; and a scull device whose `cdev_add`
failed is left without a number, which only the log tells (`result -1;` at
`char_Driver_Tech.c` 152 does nothing).

## Proofs

`Chardev01Proofs` proves, for any set of processes, any lengths, values and bound:

- `TypeCorrect`: `Spec => []TypeOK`, from the constants' assumptions only.
- `MutualExclusionHolds`: `Spec => []MutualExclusion`, if the semaphore starts
  usable (`Usable`: initialised, count one). It covers every size, also those for
  which processes die inside.
- `ArraySizesHold`, `TargetStaysLive`, `NoOopsHappens`: the storage properties, if
  the structure starts set up (`Configured`) with the build's array size.
- `OnlyStaleCallsFault`: `Spec => []OnlyStaleFaults`, if it starts set up with an array
  size not below the build's. The invariant `ShrinkInv`: the size only shrinks, no array
  is shorter than the current size (`LongEnough`), and no copy of it is smaller
  (`Copied`). With a smaller size to start with, a trim would make it grow, and calls
  that came in later would die of arrays that are too short.
- `DeadDeviceFreezes`: `Spec => DeadFreezes`, if the semaphore starts usable, from
  mutual exclusion: the dead process is the holder (`DeadHolds`).

None of the storage properties is inductive alone. The inductive invariant
`StorageInv` joins: who holds the semaphore (`SemInv`); that quantum and array
size never change from their first values (`SizesFixed`), so that the locals of a
call, copied before the semaphore, are still current when it has it
(`FramesCurrent`); that arrays have the current size (`ArraySizes`) and quanta are
whole (`QuantaWhole`); and from these, that the target of a copy stays where it
was found while its process holds the semaphore (`TargetLive`), since only the
holder may trim. Dropping `FramesCurrent` makes `ArraySizes` fail at a write, which
is what happens with another array size, where a trim does change it.

`DeviceIsSharedBytes`, under the same assumption, is the refinement:
`Spec => ImplementsSharedBytes`. It needs the arithmetic of offsets, that offsets which
follow each other in a quantum are the bytes that follow each other there
(`NextBytes`) and two offsets of one quantum are as far apart as their bytes
(`SameQuantum`), joined in `RunInQuantum`; and `SharedInv`, which adds to `StorageInv`
what each call was checked for when it came in (`CallsWell`: access mode, a transfer
that ends below `MaxPos`, a read that starts below the size even after it waited) and
that memory holds bytes. Then each action is seen as one abstract step (`ReadSeen`,
`WriteSeen`, `FaultSeen`, `OpenSeen`, `TrimSeen`, `ReturnsSeen`) or as none
(`OthersUnseen`); among the latter is `WriteFound`, which allocates a quantum nobody
has written to.

Three more theorems about the device:

- `StoresStayInRange`, an action property: what is stored changes only under the
  semaphore, all of it when a file is opened write-only, and otherwise within the range
  of the one write that is on its way, also when its copy faults and the kernel pads.
- `CallsComeToReturn`: each step of a call brings it nearer to its return
  (`CallsAdvance`, no error path leads back), and a taken semaphore is held by a call
  that does not wait itself (`HolderAtWork`). What is left of `CallsReturn` is that the
  kernel schedules the holder and serves its waiters.
- `ZeroedNeverServes`, for the contents the committed module really starts with: the
  run `chardev01_zeroed` shows one process die, the theorem that in every execution none
  gets past `down_interruptible`, nothing is stored and nothing delivered (`Inert`).

`CharRegistrationProofs` proves the registration properties of `drivers` for any
modules, shapes and numbers (`RegistrationTypeCorrect`, `LiveNumbersReserved`,
`CodeStays`, `NumbersGivenBack`). The inductive invariant `RegInv` ties the three
views of a number together, the module's static `dev`, the kernel's reservation and
the live cdev, and says at which places of a module's life each may exist: files are
open only where a module serves them, and a live cdev survives up to `cdev_del`, or
to `unregister_chrdev` where one call does both. A "static" module has its number in
`dev` before it reserves it, so there the reservation is what counts. `NumbersGivenBack`
accounts for every reserved number, those of `rw_file-ops.c` included: it is in the
`dev` of a loaded module, or it was left by a failed `cdev_add` and is lost for good.
A module that is loaded and never gets to giving its number back is one whose exit
faulted, and that happens only after a failed `class_create`.

`RwFileOpsProofs` proves, for any number of processes that overlap as they like, any
blocks and any length, that every copy stays in its block (`RwTypeCorrect`), and
`AccessIsValid`, `NothingIsLeaked` and `WordReadBack`. The inductive invariant
`AloneInv`: a process that is alone is inside and every other outside (`SoleUse`), the
global is the block of its open or NULL, an allocated block once the open succeeded
(`Pointers`), its copy goes there and what it wrote so far is in it (`Stored`), and
processes outside have no block (`Rest`). Nothing is said of the global or
of the blocks while processes overlap: that is why the properties hold after any overlap.
The unconditional `ReadBack` is what `rwfileops_shared` violates.

`DemoFilesProofs` proves type correctness (`DemoTypeCorrect`) for texts, buffers and
requests of any length. The inductive invariant `DemoInv` says
which program can be where on which driver (`Places`), what is left of its transfer
(`Amounts`) and which answer it holds (`Results`); demo03 answers every read from one
text, so the bound is that it clips its answer to the request. From it follow
`ShortTextsTerminated` (the violation of `demo_demo03_terminator` needs a text that fills
the buffer), and `EndsNotReached`: an echo to `file-operation.c` or `demo01.c` is never
done, and a cat of `demo03.c` only after a fault, which is why `MCEnding` leaves these
uses out. For the others `ProgramsComeToTheirEnd` gives a distance in the natural numbers
that every step of a running program lowers and no step of another raises; what is left
of `ProgramsEnd` is scheduling.

`SnullProofs` proves the five invariants of `snull_peer` for any socket buffers,
pool, quota and number of arrivals, in both modes (`SnullTypeCorrect`,
`BuffersAreConserved`, `FreedOnce`, `ReceivedInOrder`, `MaskedOnlyWhilePolled`). Its
invariant says where each bit of the status word can be: a transmit bit, in the word
or in one handler's copy, stands for a buffer the driver has and for a transmit path
or watchdog that has not been through the handler since it raised it (`TxServed`);
a receive bit stands for a peer that has not, and for interrupts that are enabled
(`RxServed`), which is why no second poll can be asked for between
`netif_rx_complete` and `snull_rx_ints`. `PacketHeld` says which contexts hold a
packet, and `Order` that what was delivered, what the poll has and what is queued are
in this order. The type invariant needs conservation (a pool never overflows).
`ReceptionIsAQueue` is the refinement, `Spec => ImplementsPacketQueue`: each action is
an arrival, a departure of the first waiting packet, or a stutter, the case of the
poll needing `PacketHeld` to know that the packet it holds is the head of `Waiting`.

`SkbTracked` does not hold with a peer (`snull_timeout_race`), nor when an interface is
taken down after a lost interrupt, so the theorems about it say exactly what they leave
out. `TrackedWithoutPeer` is about the full model for as long as the peer has not run the
handler; `SkbsAreTracked` takes from the constants that nothing arrives, as in
`snull_alone`. Their invariant `Tracking` follows the interrupt of a transmission: until
its context has read the status word the bit is in it, then it is in that context's
copy, and from `HandleTx` on every buffer is back with the network layer, so the next
transmission overwrites a `priv->skb` nobody needs. The peer breaks this by clearing a
status word it has read before the bit was set.

`TimeoutHasWork` holds of everything, arrivals, lost interrupts and closes included: a
stopped queue of an interface that is up has a buffer in it that the driver answers for,
so `snull_tx_timeout` fills in an interrupt for a transmission that took place, and the
handler never frees the NULL that `priv->skb` starts as (`NothingSentYet`).

Two action properties give what the liveness properties of snull need besides
scheduling, each by a distance in the natural numbers. `PolledPacketsComeUp`: each step of
the poll brings a waiting packet nearer to being taken (`Until`, six for every packet
before it plus the poll's place), other steps leave it where it is, and the interface
stays on the list; this is for all arrivals and quotas, with every other context at work.
`TransmissionsComeToTheirEnd`: a socket buffer is at most six steps of the hardware, the
handler and the timeout from being freed (`StepsToFree`), one of these is always due, and
nothing takes them back; this needs `Tracking` and hence its assumptions.

`SnullModuleProofs` proves `NetTypeCorrect`, `RegisteredAreLive` and
`StructuresAreFreed` for any number of structures and failures. Its invariant `NetInv`
says where in the module's life each of the two pointers is set, different from the
other and allocated (`DevicePointers`), which structures may be registered
(`RegisteredOnes`), and that every structure nothing points to is paid for by a failed
allocation, one that has not yet been acted upon counting too (`Paid`).

`NoneIsInitialised` is the general form of the violation of `snull_device_init`: in every
execution, every interface the network layer knows lacks its poll function, and has pool
and receive interrupts only with `use_napi`. It rests on `Prepared`: what a pointer names
is as `device_init` left it in the mode of this loading.

Of `SnullFrames` the same module proves `FrameTypeCorrect`, `NothingStaleLeaves` and
`FramesAreAccounted`, for packets and frames of any length and both kinds of reception.
The frames under way are the last of those sent, each a frame of its packet (`OnWire`);
`SkbBuilt` says that the socket buffer around a frame holds that frame and nothing of the
two bytes it is longer. The counts are exact (`Counted`): `rx_bytes` is the number of
octets of all frames handed up, and one more frame adds octets nobody has counted, as
many as it is long (`OctetsGrow`).

`NotesProofs` proves `ScullIsRouted` and `OpenDeviceIsServed` for any number of devices
and programs. The invariant follows the chain: the map leads from a number only to the
device of that number (`MapOwn`), a file keeps what the map said (`FileOwn`), a device
stores only what came through its files (`StoredOwn`). Under it are two lemmas about
`MKDEV`, `MAJOR` and `MINOR`.

Of the ioctl device it proves `CommandsAreUnique` from the round trip of `IOC` and
`Fields`, which holds for all fields in range, and `WrongDeviceIsHarmless`, an action
property.

Of the PCI driver it proves that each table matches exactly the functions its comment
names, whatever is on the bus (`TablesExact`), and `BoundWhileLoaded`,
`AccessedOnlyEnabled` and `RevisionAccepted`.

`DriversProofs` is about the instance the run `drivers` checks. A behaviour of it is one
of the seven specifications with the others at rest (`BehaviourOfEach`), so their type
invariants carry over to `DriversTypeOK`. It adds nothing about the drivers themselves;
the theorems named above are about each specification on its own.

So every invariant and every action property of a passing run is proved for all values of
the constants, under the assumptions named above, and so are both refinements.
Model-checked only are the four liveness properties `CallsReturn`, `ProgramsEnd`,
`SkbsFreed` and `PolledPacketsTaken`: they need fairness and ENABLED, which are out of the
prover's reach. Of each the part that is not scheduling is proved (`CallsComeToReturn`,
`ProgramsComeToTheirEnd`, `TransmissionsComeToTheirEnd`, `PolledPacketsComeUp`): a variant
that the steps with fairness lower and no other step raises. What is left to TLC is that
such a step is enabled and taken.

## Not modelled

`chardev01.c`: overflow of `int item` and of `quantum * qset`; `lseek` (commented
out in the source); several files or calls of one process at once; a device that
is opened while its number is being unregistered (this is in `CharRegistration`).
`rw_file-ops.c`: words longer than the buffer, which `test.c` does not send, and
copies that fault, whose results the driver ignores. `DemoFiles`: what is logged.
snull: transmit statistics, the header functions and changes of the MTU; an interface
taken down while a poll is pending. `SnullModule` stops at the structure and does not
run the traffic of `Snull` on it. `Networking/net_device.c` lists the fields of a
structure. `char_Driver_Tech.c`: `scull_read`, of which the text has only the
declarations, and the vectored calls. ioctl: `access_ok`, `put_user` and capabilities
are described and used by no code; `IOCTL/driver` holds empty files. PCI: suspend and
resume have prototypes only; accesses of two and four bytes to the configuration are
used by no code; the address listings are output of tools. `DemoFiles` leaves out what
is logged. The books are not programs. What the notes otherwise say is prose.

## Plan

Done: every component with code has a model, and every invariant, action property and
refinement a run checks is a theorem. What is left, in order of what it adds:

1. A device whose array size is below the default, where a trim makes the size grow, and
   what overlapping users of the buffer driver can still rely on before they are alone.
2. `Snull` on the structures of `SnullModule`: traffic on an interface that is being
   unregistered.
3. A statement for transfers of the size of an int in `Chardev01`, where `int item` and
   `quantum * qset` may overflow.
