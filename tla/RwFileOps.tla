------------------------------ MODULE RwFileOps ------------------------------
(***************************************************************************)
(* The buffer driver CharDD/rw_file-ops.c with CharDD/test.c, the program   *)
(* written for it, run by one or more processes.  The driver keeps one      *)
(* global pointer: every open overwrites it with a new block, every close   *)
(* frees what it points to, reads and writes copy through it without a lock *)
(* and byte by byte.  The program opens the device, writes a word, reads a  *)
(* whole buffer back, prints it, and closes.                                *)
(***************************************************************************)
EXTENDS Integers

CONSTANTS
  Procs,      \* the processes that run the program
  Blocks,     \* the memory blocks kmalloc has for this driver
  Values,     \* the bytes words are made of
  Junk,       \* a byte of a block nobody has written
  NULL,       \* the null pointer
  mem_size    \* the buffer's size; the program reads as many bytes

ASSUME RwAssumption ==
  /\ NULL \notin Blocks \cup Procs /\ Junk \notin Values
  /\ mem_size \in Nat \ {0}

VARIABLES
  kernel_buffer,  \* the global pointer
  used,           \* the blocks allocated and not freed
  mem,            \* the bytes of each block
  rw_pc,             \* where each process is
  own,            \* the block its open allocated
  frame,          \* the copy in progress: target and bytes left to copy
  word,           \* what it typed: a value and a length
  read_buf,       \* the program's buffer
  alone           \* history: who uses the device now, if no other did since its open

rwVars == <<kernel_buffer, used, mem, rw_pc, own, frame, word, read_buf, alone>>

Cells == 1..mem_size
NoCopy == [ptr |-> NULL, at |-> 1]
NoWord == [val |-> Junk, len |-> 0]
Blank == [i \in Cells |-> Junk]

RwInit ==
  /\ kernel_buffer = NULL /\ used = {}
  /\ mem   = [b \in Blocks |-> Blank]
  /\ rw_pc    = [p \in Procs |-> "start"]
  /\ own   = [p \in Procs |-> NULL]
  /\ frame = [p \in Procs |-> NoCopy]
  /\ word  = [p \in Procs |-> NoWord]
  /\ read_buf = [p \in Procs |-> Blank]
  /\ alone = NULL

-----------------------------------------------------------------------------
RwGoto(p, l) == rw_pc' = [rw_pc EXCEPT ![p] = l]

(* device_open, first half: the block goes into the global, or NULL when     *)
(* kmalloc fails.                                                            *)
OpenAlloc(p) ==
  /\ rw_pc[p] = "start"
  /\ alone' = IF \A q \in Procs : rw_pc[q] = "start" THEN p ELSE NULL
  /\ \/ \E b \in Blocks \ used :
          /\ used' = used \cup {b} /\ mem' = [mem EXCEPT ![b] = Blank]
          /\ kernel_buffer' = b /\ own' = [own EXCEPT ![p] = b]
     \/ /\ kernel_buffer' = NULL
        /\ UNCHANGED <<used, mem, own>>
  /\ RwGoto(p, "opening")
  /\ UNCHANGED <<frame, word, read_buf>>

(* Mutant: a failed allocation goes unnoticed.                              *)
OpenUntested(p) ==
  /\ rw_pc[p] = "opening"
  /\ RwGoto(p, "opened")
  /\ UNCHANGED <<kernel_buffer, used, mem, own, frame, word, read_buf, alone>>

(* Second half: the test of the global, which another open may have changed; *)
(* a build may also test the value it has just stored.                       *)
OpenTest(p) ==
  /\ rw_pc[p] = "opening"
  /\ \E seen \in {own[p], kernel_buffer} :
       \/ /\ seen = NULL
          /\ RwGoto(p, "start") /\ own' = [own EXCEPT ![p] = NULL] /\ alone' = NULL
       \/ seen # NULL /\ RwGoto(p, "opened") /\ UNCHANGED <<own, alone>>
  /\ UNCHANGED <<kernel_buffer, used, mem, frame, word, read_buf>>

(* Where a copy goes is settled when it starts.                              *)
StartCopy(p) == frame' = [frame EXCEPT ![p] = [ptr |-> kernel_buffer, at |-> 1]]
NextCell(p)  == frame' = [frame EXCEPT ![p].at = @ + 1]

(* device_write, called with the word and its length.                        *)
Write(p, val, len) ==
  /\ rw_pc[p] = "opened"
  /\ word' = [word EXCEPT ![p] = [val |-> val, len |-> len]]
  /\ StartCopy(p) /\ RwGoto(p, "writing")
  /\ UNCHANGED <<kernel_buffer, used, mem, own, read_buf, alone>>

(* Mutant: the copy takes one byte more than it was given.                  *)
WriteCellOver(p) ==
  /\ rw_pc[p] = "writing" /\ frame[p].at <= word[p].len + 1
  /\ frame[p].ptr # NULL
  /\ mem' = [mem EXCEPT ![frame[p].ptr][frame[p].at] = word[p].val]
  /\ NextCell(p)
  /\ UNCHANGED <<kernel_buffer, used, rw_pc, own, word, read_buf, alone>>

(* A block that was freed is still memory; through NULL nothing goes on.     *)
WriteCell(p) ==
  /\ rw_pc[p] = "writing" /\ frame[p].at <= word[p].len
  /\ frame[p].ptr # NULL
  /\ mem' = [mem EXCEPT ![frame[p].ptr][frame[p].at] = word[p].val]
  /\ NextCell(p)
  /\ UNCHANGED <<kernel_buffer, used, rw_pc, own, word, read_buf, alone>>

(* Mutant: the copy stops one byte short.                                   *)
WriteDoneEarly(p) ==
  /\ rw_pc[p] = "writing" /\ frame[p].at >= word[p].len
  /\ frame' = [frame EXCEPT ![p] = NoCopy] /\ RwGoto(p, "written")
  /\ UNCHANGED <<kernel_buffer, used, mem, own, word, read_buf, alone>>

WriteDone(p) ==
  /\ rw_pc[p] = "writing" /\ frame[p].at > word[p].len
  /\ frame' = [frame EXCEPT ![p] = NoCopy] /\ RwGoto(p, "written")
  /\ UNCHANGED <<kernel_buffer, used, mem, own, word, read_buf, alone>>

(* device_read copies mem_size bytes, whatever length it was asked for.      *)
Read(p) ==
  /\ rw_pc[p] = "written"
  /\ StartCopy(p) /\ RwGoto(p, "reading")
  /\ UNCHANGED <<kernel_buffer, used, mem, own, word, read_buf, alone>>

ReadCell(p) ==
  /\ rw_pc[p] = "reading" /\ frame[p].at <= mem_size
  /\ frame[p].ptr # NULL
  /\ read_buf' = [read_buf EXCEPT ![p][frame[p].at] = mem[frame[p].ptr][frame[p].at]]
  /\ NextCell(p)
  /\ UNCHANGED <<kernel_buffer, used, mem, rw_pc, own, word, alone>>

ReadDone(p) ==
  /\ rw_pc[p] = "reading" /\ frame[p].at > mem_size
  /\ frame' = [frame EXCEPT ![p] = NoCopy] /\ RwGoto(p, "print")
  /\ UNCHANGED <<kernel_buffer, used, mem, own, word, read_buf, alone>>

(* Mutant: the block is not freed.                                           *)
ReleaseKeeps(p) ==
  /\ rw_pc[p] \in {"opened", "written", "print"}
  /\ RwGoto(p, "start")
  /\ own' = [own EXCEPT ![p] = NULL]
  /\ word' = [word EXCEPT ![p] = NoWord]
  /\ read_buf' = [read_buf EXCEPT ![p] = Blank]
  /\ alone' = NULL
  /\ UNCHANGED <<kernel_buffer, used, mem, frame>>

(* device_release, at the program's close or at its death: kfree takes NULL  *)
(* and allocated blocks; freeing a block twice is undefined.                 *)
Release(p) ==
  /\ rw_pc[p] \in {"opened", "written", "print"}
  /\ kernel_buffer \in used \cup {NULL}
  /\ used' = used \ {kernel_buffer}
  /\ RwGoto(p, "start")
  /\ own' = [own EXCEPT ![p] = NULL]
  /\ word' = [word EXCEPT ![p] = NoWord]
  /\ read_buf' = [read_buf EXCEPT ![p] = Blank]
  /\ alone' = NULL
  /\ UNCHANGED <<kernel_buffer, mem, frame>>

-----------------------------------------------------------------------------
RwNext ==
  \E p \in Procs :
    \/ OpenAlloc(p) \/ OpenTest(p)
    \/ \E val \in Values, len \in Cells : Write(p, val, len)
    \/ WriteCell(p) \/ WriteDone(p)
    \/ Read(p) \/ ReadCell(p) \/ ReadDone(p)
    \/ Release(p)

RwSpec == RwInit /\ [][RwNext]_rwVars

-----------------------------------------------------------------------------
RwTypeOK ==
  /\ kernel_buffer \in Blocks \cup {NULL}
  /\ used \subseteq Blocks
  /\ mem \in [Blocks -> [Cells -> Values \cup {Junk}]]
  /\ rw_pc \in [Procs -> {"start", "opening", "opened", "writing", "written", "reading", "print"}]
  /\ own \in [Procs -> Blocks \cup {NULL}]
  /\ frame \in [Procs -> [ptr : Blocks \cup {NULL}, at : 1..mem_size + 1]]
  /\ word \in [Procs -> [val : Values \cup {Junk}, len : 0..mem_size]]
  /\ read_buf \in [Procs -> [Cells -> Values \cup {Junk}]]
  /\ alone \in Procs \cup {NULL}

(* Overlapped opens can free a block under a copy, leave blocks behind and    *)
(* a dangling pointer in the global, for there is no lock; but they harm no  *)
(* later use.  Whatever went before, the copies of a process nobody overlaps *)
(* run through an allocated block, and its close finds one to free.          *)
AccessValid ==
  alone # NULL =>
    /\ rw_pc[alone] \in {"writing", "reading"} => frame[alone].ptr \in used
    /\ rw_pc[alone] \in {"opened", "written", "print"} => kernel_buffer \in used

(* The blocks allocated that no process has and no close will find.          *)
Unowned == used \ {own[p] : p \in Procs}

(* A block is lost only when its process was overlapped: never by a failed   *)
(* allocation, and never by a process that had the device for itself, even   *)
(* if the global was left dangling before it came.                           *)
NothingLeaked ==
  [][\A b \in Unowned' \ Unowned : \E p \in Procs : own[p] = b /\ p # alone]_rwVars

(* "Data = %s" (test.c): the program reads back the word it wrote.          *)
ReadBack ==
  \A p \in Procs : rw_pc[p] = "print" =>
    \A i \in 1..word[p].len : read_buf[p][i] = word[p].val

(* It does when nobody overlapped it, whatever earlier overlaps left in the  *)
(* global, in the blocks and of them.                                        *)
AloneReadsBack ==
  alone # NULL /\ rw_pc[alone] = "print" =>
    \A i \in 1..word[alone].len : read_buf[alone][i] = word[alone].val
=============================================================================
