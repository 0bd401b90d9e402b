--------------------------- MODULE Chardev01Proofs ----------------------------
(* Theorems about Chardev01, for every number of processes, every length    *)
(* and every content of the struct device_dev their assumptions allow.      *)
EXTENDS Chardev01, TLAPS

(* Where an offset lies when the item size is not zero: the array index is  *)
(* below qset and the offset in the quantum below quantum.                  *)
LEMMA Geometry ==
  ASSUME NEW f, f.quantum \in Nat, f.qset \in Nat, ItemSize(f) > 0, NEW pos \in Nat
  PROVE  /\ Item(f, pos) \in Nat
         /\ SPos(f, pos) \in 0..f.qset - 1
         /\ QPos(f, pos) \in 0..f.quantum - 1
         /\ f.quantum > 0
<1> DEFINE q == f.quantum  s == f.qset  r == pos % (q * s)
<1>1. q \in Nat /\ s \in Nat /\ q * s > 0
  BY DEF ItemSize
<1>2. q > 0 /\ s > 0
  BY <1>1, SMT
<1>3. q * s \in Nat \ {0}
  BY <1>1, SMT
<1> HIDE DEF q, s
<1>4. r \in 0..(q * s - 1) /\ pos \div (q * s) \in Nat
  BY <1>3, SMT
<1>5. r % q \in 0..q - 1 /\ r \div q \in Nat /\ r = q * (r \div q) + (r % q)
  BY <1>1, <1>2, <1>4, SMT
<1>6. r \div q < s
  <2> DEFINE d == r \div q
  <2>1. d \in Nat /\ q * d <= r /\ r < q * s
    BY <1>1, <1>4, <1>5, SMT
  <2>2. SUFFICES ASSUME d >= s PROVE FALSE
    BY <1>1, <2>1, SMT
  <2> HIDE DEF d
  <2>3. q * d >= q * s
    BY <1>1, <1>2, <2>1, <2>2, SMT
  <2> QED BY <1>1, <1>4, <2>1, <2>3, SMT
<1> QED BY <1>1, <1>2, <1>4, <1>5, <1>6, SMTT(30) DEF Item, SPos, QPos, ItemSize, q, s


(* An actor in the middle of a seek that is not undefined has an item size.  *)
LEMMA SeekGeometry ==
  ASSUME TypeOK, NEW p \in Procs, Seeking(p), ~Undefined(p)
  PROVE  /\ MyItem(p) \in Nat
         /\ MySlot(p) \in Nat \X Nat
         /\ MySlot(p)[2] \in 0..frame[p].qset - 1
         /\ MyQPos(p) \in 0..frame[p].quantum - 1
         /\ Clip(frame[p], file[p].pos) \in 0..frame[p].len
         /\ MyQPos(p) + Clip(frame[p], file[p].pos) <= frame[p].quantum
<1> DEFINE f == frame[p]  pos == file[p].pos
<1>1. f.quantum \in Nat /\ f.qset \in Nat /\ f.len \in Nat /\ pos \in Nat
  BY DEF TypeOK
<1>2. ItemSize(f) > 0
  <2>1. ItemSize(f) # 0
    BY DEF Undefined
  <2>2. ItemSize(f) \in Nat
    BY <1>1, SMT DEF ItemSize
  <2> QED BY <2>1, <2>2
<1> HIDE DEF f, pos
<1>3. /\ Item(f, pos) \in Nat
      /\ SPos(f, pos) \in 0..f.qset - 1
      /\ QPos(f, pos) \in 0..f.quantum - 1
  BY <1>1, <1>2, Geometry
<1>4. SPos(f, pos) \in Nat
  BY <1>1, <1>3
<1>5. Clip(f, pos) \in 0..f.len /\ QPos(f, pos) + Clip(f, pos) <= f.quantum
  BY <1>1, <1>3 DEF Clip, Least
<1> QED
  BY <1>3, <1>4, <1>5 DEF MyItem, MySlot, MyQPos, Slot, f, pos

LEMMA InitTypeOK == Init => TypeOK
<1> SUFFICES ASSUME Init PROVE TypeOK
  OBVIOUS
<1>1. dev \in ContentType
  BY ChardevAssumption DEF Init
<1>2. NoFrame \in [op : {"none", "open", "read", "write"}, quantum : Nat,
                   qset : Nat, len : Nat, val : Bytes, ret : Int]
  BY DEF NoFrame, Bytes
<1>3. Closed \in [mode : Modes \cup {"closed"}, pos : Nat]
  BY DEF Closed
<1>4. "user" \in Labels
  BY DEF Labels
<1>5. DOMAIN Empty = {}
  BY DEF Empty
<1> QED
  BY <1>1, <1>2, <1>3, <1>4, <1>5 DEF Init, TypeOK

FrameType == [op : {"none", "open", "read", "write"}, quantum : Nat,
              qset : Nat, len : Nat, val : Bytes, ret : Int]
FileType == [mode : Modes \cup {"closed"}, pos : Nat]

LEMMA StepTypeOK == TypeOK /\ [Next]_vars => TypeOK'
<1> SUFFICES ASSUME TypeOK, [Next]_vars PROVE TypeOK'
  OBVIOUS
<1> USE ChardevAssumption
<1>0. CASE UNCHANGED vars
  BY <1>0 DEF TypeOK, vars, storage
<1>1. SUFFICES ASSUME NEW p \in Procs,
                      Call(p) \/ Down(p) \/ Interrupted(p) \/ Step(p) \/ Oops(p)
               PROVE  TypeOK'
  BY <1>0 DEF Next
<1>t. /\ dev \in ContentType /\ list \in Nat
      /\ DOMAIN arrays \subseteq Nat /\ \A i \in DOMAIN arrays : arrays[i] \in Nat
      /\ DOMAIN quanta \subseteq Nat \X Nat
      /\ file \in [Procs -> FileType]
      /\ pc \in [Procs -> Labels]
      /\ frame \in [Procs -> FrameType]
  BY DEF TypeOK, FileType, FrameType
<1>n. NoFrame \in FrameType /\ Closed \in FileType
  BY DEF NoFrame, FrameType, Bytes, Closed, FileType
<1>r. ASSUME NEW l \in Labels, NEW g \in FrameType, Enter(p, l, g)
      PROVE  pc' \in [Procs -> Labels] /\ frame' \in [Procs -> FrameType]
  BY <1>r, <1>t DEF Enter, Goto
<1>s. ASSUME NEW r \in Int, Return(p, r)
      PROVE  pc' \in [Procs -> Labels] /\ frame' \in [Procs -> FrameType]
  BY <1>s, <1>t DEF Return, Goto, Labels, Critical, FrameType
<1>q. SUFFICES /\ dev' \in ContentType /\ list' \in Nat
               /\ DOMAIN arrays' \subseteq Nat /\ \A i \in DOMAIN arrays' : arrays'[i] \in Nat
               /\ DOMAIN quanta' \subseteq Nat \X Nat
               /\ file' \in [Procs -> FileType]
               /\ pc' \in [Procs -> Labels]
               /\ frame' \in [Procs -> FrameType]
  BY DEF TypeOK, FileType, FrameType
<1>2. CASE \E mode \in Modes : Open(p, mode)
  <2>0. PICK mode \in Modes : Open(p, mode)
    BY <1>2
  <2>1. [mode |-> mode, pos |-> 0] \in FileType
    BY DEF FileType
  <2>2. [NoFrame EXCEPT !.op = "open"] \in FrameType
    BY <1>n DEF FrameType
  <2>3. pc' \in [Procs -> Labels] /\ frame' \in [Procs -> FrameType]
    <3>1. CASE mode = "O_WRONLY"
      BY <2>0, <1>r, <2>2, <3>1 DEF Open, Labels, AfterDown
    <3>2. CASE mode # "O_WRONLY"
      BY <2>0, <1>t, <3>2 DEF Open
    <3> QED BY <3>1, <3>2
  <2> QED BY <2>0, <1>t, <1>q, <2>1, <2>3 DEF Open, storage
<1>3. CASE Release(p)
  BY <1>3, <1>t, <1>n, <1>q DEF Release, storage
<1>4. ASSUME NEW op \in {"read", "write"}, NEW len \in Lens, NEW val \in Bytes, NEW r \in Int
      PROVE  Locals(op, len, val, r) \in FrameType
  BY <1>t DEF Locals, FrameType, ContentType
<1>5. CASE \E len \in Lens : ReadEnter(p, len)
  <2>0. PICK len \in Lens : ReadEnter(p, len)
    BY <1>5
  <2>1. "read_down" \in Labels /\ Junk \in Bytes
    BY DEF Labels, AfterDown, Bytes
  <2>3. Locals("read", len, Junk, 0) \in FrameType
    BY <2>1, <1>4
  <2>4. Enter(p, "read_down", Locals("read", len, Junk, 0))
    BY <2>0 DEF ReadEnter
  <2>2. pc' \in [Procs -> Labels] /\ frame' \in [Procs -> FrameType]
    BY <2>1, <2>3, <2>4, <1>r
  <2> QED BY <2>0, <1>t, <1>q, <2>2 DEF ReadEnter, storage
<1>6. CASE \E len \in Lens, val \in Values : WriteEnter(p, len, val)
  <2>0. PICK len \in Lens, val \in Values : WriteEnter(p, len, val)
    BY <1>6
  <2>1. "write_down" \in Labels /\ val \in Bytes /\ -ENOMEM \in Int
    BY DEF Labels, AfterDown, Bytes, ENOMEM
  <2>3. Locals("write", len, val, -ENOMEM) \in FrameType
    BY <2>1, <1>4
  <2>4. Enter(p, "write_down", Locals("write", len, val, -ENOMEM))
    BY <2>0 DEF WriteEnter
  <2>2. pc' \in [Procs -> Labels] /\ frame' \in [Procs -> FrameType]
    BY <2>1, <2>3, <2>4, <1>r
  <2> QED BY <2>0, <1>t, <1>q, <2>2 DEF WriteEnter, storage
<1>7. CASE Down(p)
  <2>1. AfterDown[pc[p]] \in Labels
    BY <1>7 DEF Down, AfterDown, Labels, Critical
  <2>2. dev' \in ContentType
    BY <1>7, <1>t DEF Down, ContentType
  <2> QED BY <1>7, <1>t, <1>q, <2>1, <2>2 DEF Down, Goto, storage
<1>8. CASE Interrupted(p)
  BY <1>8, <1>t, <1>n, <1>r, <1>q DEF Interrupted, storage, Labels
<1>9. CASE Oops(p)
  BY <1>9, <1>t, <1>q DEF Oops, storage, Labels
<1>10. CASE Up(p)
  <2>1. dev' \in ContentType
    BY <1>10, <1>t DEF Up, ContentType
  <2> QED BY <1>10, <1>t, <1>n, <1>r, <1>q, <2>1 DEF Up, storage, Labels
<1>11. CASE Trim(p)
  <2>1. dev' \in ContentType
    BY <1>11, <1>t DEF Trim, ContentType
  <2>2. DOMAIN Empty = {}
    BY DEF Empty
  <2> QED BY <1>11, <1>t, <1>s, <1>q, <2>1, <2>2 DEF Trim
<1>12. CASE ReadEof(p)
  BY <1>12, <1>t, <1>s, <1>q DEF ReadEof, storage
<1>13. ASSUME Seeking(p), ~Undefined(p) PROVE
         /\ Follow(MyItem(p)) => list' \in Nat
         /\ FollowFails(MyItem(p)) => list' \in Nat
         /\ frame[p].len \in Nat
         /\ Clip(frame[p], file[p].pos) \in Nat
         /\ MyItem(p) \in Nat /\ MySlot(p) \in Nat \X Nat
  <2>1. frame[p].len \in Nat
    BY <1>t DEF FrameType
  <2> QED BY <1>13, <1>t, <2>1, SeekGeometry DEF Follow, FollowFails, Greatest
<1>14. CASE ReadHole(p)
  <2>1. Seeking(p) /\ ~Undefined(p)
    BY <1>14 DEF ReadHole, Seeking
  <2> QED BY <1>14, <1>t, <1>s, <1>q, <1>13, <2>1 DEF ReadHole
<1>15. CASE ReadFound(p)
  <2>1. Seeking(p) /\ ~Undefined(p)
    BY <1>15 DEF ReadFound, Seeking
  <2>2. frame' \in [Procs -> FrameType]
    BY <1>15, <1>t, <1>13, <2>1 DEF ReadFound, FrameType
  <2>3. pc' \in [Procs -> Labels]
    BY <1>15, <1>t DEF ReadFound, Goto, Labels, Critical
  <2> QED BY <1>15, <1>t, <1>q, <1>13, <2>1, <2>2, <2>3 DEF ReadFound
<1>16. CASE ReadCopy(p)
  <2>1. frame[p].len \in Nat /\ frame[p].len \in Int /\ -EFAULT \in Int
    BY <1>t DEF FrameType, EFAULT
  <2>3. file' = [file EXCEPT ![p].pos = @ + frame[p].len] \/ file' = file
    BY <1>16 DEF ReadCopy
  <2>2. file' \in [Procs -> FileType]
    BY <1>t, <2>1, <2>3 DEF FileType
  <2> QED BY <1>16, <1>t, <1>s, <1>q, <2>1, <2>2 DEF ReadCopy, storage
<1>17. ASSUME Seeking(p), ~Undefined(p)
       PROVE  /\ DOMAIN WithArray(p) \subseteq Nat
              /\ \A i \in DOMAIN WithArray(p) : WithArray(p)[i] \in Nat
  <2>1. frame[p].qset \in Nat
    BY <1>t DEF FrameType
  <2> QED BY <1>17, <1>t, <1>13, <2>1 DEF WithArray, Put
<1>18. CASE WriteNoMem(p)
  <2>1. Seeking(p) /\ ~Undefined(p)
    BY <1>18 DEF WriteNoMem, Seeking
  <2>2. pc' \in [Procs -> Labels]
    BY <1>18, <1>t DEF WriteNoMem, Goto, Labels, Critical
  <2> QED BY <1>18, <1>t, <1>q, <1>13, <1>17, <2>1, <2>2 DEF WriteNoMem
<1>19. CASE WriteFound(p)
  <2>1. Seeking(p) /\ ~Undefined(p)
    BY <1>19 DEF WriteFound, Seeking
  <2>2. frame' \in [Procs -> FrameType]
    <3>1. frame' = [frame EXCEPT ![p].len = Clip(frame[p], file[p].pos)]
      BY <1>19 DEF WriteFound
    <3>2. Clip(frame[p], file[p].pos) \in Nat
      BY <1>13, <2>1
    <3> QED BY <1>t, <3>1, <3>2 DEF FrameType
  <2>3. pc' \in [Procs -> Labels]
    BY <1>19, <1>t DEF WriteFound, Goto, Labels, Critical
  <2>4. DOMAIN quanta' \subseteq Nat \X Nat
    BY <1>19, <1>t, <1>13, <2>1 DEF WriteFound, Put
  <2> QED BY <1>19, <1>t, <1>q, <1>13, <1>17, <2>1, <2>2, <2>3, <2>4 DEF WriteFound
<1>20. CASE WriteCopy(p)
  <2>1. frame[p].len \in Nat /\ frame[p].len \in Int
    BY <1>t DEF FrameType
  <2>2. file' \in [Procs -> FileType]
    BY <1>20, <1>t, <2>1 DEF WriteCopy, FileType
  <2>3. dev' \in ContentType
    BY <1>20, <1>t, <2>1 DEF WriteCopy, FileType, ContentType, Greatest
  <2>4. DOMAIN quanta' = DOMAIN quanta
    BY <1>20 DEF WriteCopy
  <2> QED BY <1>20, <1>t, <1>s, <1>q, <2>1, <2>2, <2>3, <2>4 DEF WriteCopy
<1>21. CASE WriteFault(p)
  <2>1. -EFAULT \in Int
    BY DEF EFAULT
  <2>2. DOMAIN quanta' = DOMAIN quanta
    BY <1>21 DEF WriteFault
  <2> QED BY <1>21, <1>t, <1>s, <1>q, <2>1, <2>2 DEF WriteFault
<1> QED
  BY <1>1, <1>2, <1>3, <1>5, <1>6, <1>7, <1>8, <1>9, <1>10, <1>11, <1>12, <1>14, <1>15,
     <1>16, <1>18, <1>19, <1>20, <1>21 DEF Call, Step

(* The variables of the driver keep their types, whatever the contents of   *)
(* the struct device_dev it starts from.                                    *)
THEOREM TypeCorrect == Spec => []TypeOK
  BY InitTypeOK, StepTypeOK, PTL DEF Spec
-----------------------------------------------------------------------------
(* Mutual exclusion.  A step takes the semaphore, gives it back, or leaves   *)
(* the count and those who hold it alone.                                    *)
Takes(p) == /\ dev.sem > 0 /\ dev'.sem = dev.sem - 1
            /\ ~Holds(p) /\ Holds(p)'
Gives(p) == /\ dev'.sem = dev.sem + 1
            /\ Holds(p) /\ ~Holds(p)'
Keeps(p) == dev'.sem = dev.sem /\ Holds(p)' = Holds(p)

ActsOn(p) == Call(p) \/ Down(p) \/ Interrupted(p) \/ Step(p) \/ Oops(p)

LEMMA OthersUntouched ==
  ASSUME TypeOK, NEW p \in Procs, NEW q \in Procs, q # p, ActsOn(p)
  PROVE  pc'[q] = pc[q] /\ frame'[q] = frame[q] /\ file'[q] = file[q]
<1> USE DEF TypeOK, Enter, Return, Goto
<1>1. CASE \E mode \in Modes : Open(p, mode)
  BY <1>1 DEF Open
<1>2. CASE Release(p) \/ (\E len \in Lens : ReadEnter(p, len))
           \/ (\E len \in Lens, val \in Values : WriteEnter(p, len, val))
  BY <1>2 DEF Release, ReadEnter, WriteEnter
<1>3. CASE Down(p) \/ Interrupted(p) \/ Oops(p) \/ Up(p) \/ Trim(p)
  BY <1>3 DEF Down, Interrupted, Oops, Up, Trim
<1>4. CASE ReadEof(p) \/ ReadHole(p) \/ ReadFound(p) \/ ReadCopy(p)
  BY <1>4 DEF ReadEof, ReadHole, ReadFound, ReadCopy
<1>5. CASE WriteNoMem(p) \/ WriteFound(p) \/ WriteCopy(p) \/ WriteFault(p)
  BY <1>5 DEF WriteNoMem, WriteFound, WriteCopy, WriteFault
<1> QED BY <1>1, <1>2, <1>3, <1>4, <1>5 DEF ActsOn, Call, Step

LEMMA SemaphoreStep ==
  ASSUME TypeOK, dev.semInit, NEW p \in Procs, ActsOn(p)
  PROVE  /\ Takes(p) \/ Gives(p) \/ Keeps(p)
         /\ dev'.semInit
<1> USE DEF Holds, Critical
<1>t. pc \in [Procs -> Labels] /\ dev \in ContentType
  BY DEF TypeOK
<1>1. CASE \E mode \in Modes : Open(p, mode)
  BY <1>1, <1>t DEF Open, Keeps, Enter, Goto
<1>2. CASE Release(p) \/ (\E len \in Lens : ReadEnter(p, len))
           \/ (\E len \in Lens, val \in Values : WriteEnter(p, len, val))
  BY <1>2, <1>t DEF Release, ReadEnter, WriteEnter, Keeps, Enter, Goto
<1>3. CASE Down(p)
  BY <1>3, <1>t DEF Down, AfterDown, Takes, Goto, ContentType
<1>4. CASE Interrupted(p)
  BY <1>4, <1>t DEF Interrupted, AfterDown, Keeps, Enter, Goto
<1>5. CASE Oops(p)
  <2>1. Holds(p)
    BY <1>5 DEF Oops, Undefined, Seeking
  <2> QED BY <1>5, <1>t, <2>1 DEF Oops, Keeps
<1>6. CASE Up(p)
  BY <1>6, <1>t DEF Up, Gives, Enter, Goto, ContentType
<1>7. CASE Trim(p)
  BY <1>7, <1>t DEF Trim, Keeps, Return, Goto, ContentType
<1>8. CASE ReadEof(p) \/ ReadHole(p) \/ ReadFound(p) \/ ReadCopy(p)
  BY <1>8, <1>t DEF ReadEof, ReadHole, ReadFound, ReadCopy, Keeps, Return, Goto
<1>9. CASE WriteNoMem(p) \/ WriteFound(p) \/ WriteFault(p)
  BY <1>9, <1>t DEF WriteNoMem, WriteFound, WriteFault, Keeps, Return, Goto
<1>10. CASE WriteCopy(p)
  BY <1>10, <1>t DEF WriteCopy, Keeps, Return, Goto, ContentType
<1> QED
  BY <1>1, <1>2, <1>3, <1>4, <1>5, <1>6, <1>7, <1>8, <1>9, <1>10 DEF ActsOn, Call, Step

(* The strengthening: the wait list stays usable.                            *)
SemInv == TypeOK /\ dev.semInit /\ MutualExclusion

LEMMA StepSemInv == SemInv /\ [Next]_vars => SemInv'
<1> SUFFICES ASSUME SemInv, [Next]_vars PROVE SemInv'
  OBVIOUS
<1>0. TypeOK /\ TypeOK'
  BY StepTypeOK DEF SemInv
<1>1. CASE UNCHANGED vars
  BY <1>1, <1>0 DEF SemInv, MutualExclusion, Holds, vars
<1>2. CASE \E p \in Procs : ActsOn(p)
  <2>1. PICK p \in Procs : ActsOn(p)
    BY <1>2
  <2>2. \A q \in Procs : q # p => Holds(q)' = Holds(q)
    BY <2>1, <1>0, OthersUntouched DEF Holds
  <2>3. (Takes(p) \/ Gives(p) \/ Keeps(p)) /\ dev'.semInit
    BY <2>1, <1>0, SemaphoreStep DEF SemInv
  <2>4. CASE Takes(p)
    <3>1. \A q \in Procs : ~Holds(q)
      BY <2>4 DEF SemInv, MutualExclusion, Takes
    <3>2. dev.sem = 1
      BY <3>1 DEF SemInv, MutualExclusion
    <3> QED BY <1>0, <2>2, <2>3, <2>4, <3>1, <3>2 DEF SemInv, MutualExclusion, Takes
  <2>5. CASE Gives(p)
    <3>1. dev.sem = 0 /\ \A q \in Procs : Holds(q) => q = p
      BY <2>5 DEF SemInv, MutualExclusion, Gives
    <3> QED BY <1>0, <2>2, <2>3, <2>5, <3>1 DEF SemInv, MutualExclusion, Gives
  <2>6. CASE Keeps(p)
    <3>1. \A q \in Procs : Holds(q)' = Holds(q)
      BY <2>2, <2>6 DEF Keeps
    <3> QED BY <1>0, <2>3, <2>6, <3>1 DEF SemInv, MutualExclusion, Keeps
  <2> QED BY <2>3, <2>4, <2>5, <2>6
<1> QED BY <1>1, <1>2 DEF Next, ActsOn

LEMMA InitSemInv ==
  ASSUME \A c \in Contents : Usable(c)
  PROVE  Init => SemInv
BY InitTypeOK DEF Init, SemInv, MutualExclusion, Holds, Critical, Usable

(* The semaphore is a mutual exclusion semaphore for every set of processes  *)
(* and whatever sizes the device holds, if it was initialised.               *)
THEOREM MutualExclusionHolds ==
  ASSUME \A c \in Contents : Usable(c)
  PROVE  Spec => []MutualExclusion
<1>1. Init => SemInv
  BY InitSemInv
<1>2. SemInv => MutualExclusion
  BY DEF SemInv
<1> QED BY <1>1, <1>2, StepSemInv, PTL DEF Spec
-----------------------------------------------------------------------------
(* Storage.  When the sizes are positive and the array size is the one a     *)
(* trim sets, the copies of quantum and qset a call took before it waited    *)
(* for the semaphore are still the device's.                                 *)
Transferring(p) == frame[p].op \in {"read", "write"}
FramesCurrent ==
  \A p \in Procs :
    /\ pc[p] \in {"read_down", "read_seek", "read_copy", "write_down", "write_seek", "write_copy"}
         => Transferring(p)
    /\ Transferring(p) => frame[p].quantum = dev.quantum /\ frame[p].qset = dev.qset

SizesFixed == dev.quantum > 0 /\ dev.qset > 0 /\ dev.qset = DEVICE_QSET

QuantaWhole == \A s \in DOMAIN quanta : DOMAIN quanta[s] = 0..dev.quantum - 1

(* What TargetLive says of one process.                                      *)
Live(p) ==
  pc[p] \in {"read_copy", "write_copy"} =>
    /\ MyItem(p) < list /\ MySlot(p) \in DOMAIN quanta
    /\ \A i \in 0..frame[p].len - 1 : MyQPos(p) + i \in DOMAIN quanta[MySlot(p)]

StorageInv ==
  /\ SemInv /\ SizesFixed /\ FramesCurrent
  /\ ArraySizes /\ QuantaWhole /\ TargetLive /\ NoOops

(* Only a process that holds the semaphore touches the storage.              *)
LEMMA StorageGuarded ==
  ASSUME NEW p \in Procs, ActsOn(p), ~Holds(p)
  PROVE  UNCHANGED storage
<1> USE DEF Holds, Critical
<1>1. CASE Call(p) \/ Down(p) \/ Interrupted(p) \/ Oops(p)
  BY <1>1 DEF Call, Open, Release, ReadEnter, WriteEnter, Down, Interrupted, Oops
<1>2. CASE Step(p)
  BY <1>2 DEF Step, Trim, ReadEof, ReadHole, ReadFound, ReadCopy, WriteNoMem, WriteFound,
              WriteCopy, WriteFault, Up
<1> QED BY <1>1, <1>2 DEF ActsOn

(* quantum never changes, and qset only to DEVICE_QSET.                      *)
LEMMA SizesStay ==
  ASSUME TypeOK, SizesFixed, NEW p \in Procs, ActsOn(p)
  PROVE  dev'.quantum = dev.quantum /\ dev'.qset = dev.qset
<1> USE DEF SizesFixed
<1>t. dev \in ContentType
  BY DEF TypeOK
<1>1. CASE Call(p) \/ Down(p) \/ Interrupted(p) \/ Oops(p)
  BY <1>1, <1>t DEF Call, Open, Release, ReadEnter, WriteEnter, Down, Interrupted, Oops, ContentType
<1>2. CASE Step(p)
  BY <1>2, <1>t DEF Step, Trim, ReadEof, ReadHole, ReadFound, ReadCopy, WriteNoMem, WriteFound,
              WriteCopy, WriteFault, Up, ContentType
<1> QED BY <1>1, <1>2 DEF ActsOn

LEMMA FramesStep ==
  ASSUME TypeOK, SizesFixed, FramesCurrent, NEW p \in Procs, ActsOn(p)
  PROVE  FramesCurrent'
<1>t. pc \in [Procs -> Labels] /\ frame \in [Procs -> FrameType]
  BY DEF TypeOK, FrameType
<1>s. dev'.quantum = dev.quantum /\ dev'.qset = dev.qset
  BY SizesStay
<1> DEFINE Current(q) ==
      /\ pc[q] \in {"read_down", "read_seek", "read_copy", "write_down", "write_seek", "write_copy"}
           => Transferring(q)
      /\ Transferring(q) => frame[q].quantum = dev.quantum /\ frame[q].qset = dev.qset
<1>o. \A q \in Procs : q # p => Current(q)'
  BY OthersUntouched, <1>s DEF FramesCurrent, Transferring
<1>q. SUFFICES Current(p)'
  BY <1>o DEF FramesCurrent
<1> USE <1>t, <1>s DEF FramesCurrent, Transferring, Enter, Goto, Return, NoFrame
<1>1. CASE \E mode \in Modes : Open(p, mode)
  BY <1>1 DEF Open, FrameType
<1>2. CASE Release(p) \/ Oops(p)
  BY <1>2 DEF Release, Oops
<1>3. CASE (\E len \in Lens : ReadEnter(p, len))
           \/ (\E len \in Lens, val \in Values : WriteEnter(p, len, val))
  BY <1>3 DEF ReadEnter, WriteEnter, Locals
<1>4. CASE Down(p) \/ Interrupted(p) \/ Up(p)
  BY <1>4 DEF Down, Interrupted, Up, AfterDown
<1>5. CASE Trim(p) \/ ReadEof(p) \/ ReadHole(p) \/ ReadFound(p) \/ ReadCopy(p)
  BY <1>5 DEF Trim, ReadEof, ReadHole, ReadFound, ReadCopy, FrameType
<1>6. CASE WriteNoMem(p) \/ WriteFound(p) \/ WriteCopy(p) \/ WriteFault(p)
  BY <1>6 DEF WriteNoMem, WriteFound, WriteCopy, WriteFault, FrameType
<1> QED BY <1>1, <1>2, <1>3, <1>4, <1>5, <1>6 DEF ActsOn, Call, Step

(* Under the invariant no step of a process is undefined.                    *)
LEMMA NothingUndefined ==
  ASSUME StorageInv, NEW p \in Procs
  PROVE  ~Undefined(p)
<1>t. /\ TypeOK /\ dev.semInit /\ dev \in ContentType /\ frame[p] \in FrameType
      /\ file[p].pos \in Nat
  BY DEF StorageInv, SemInv, TypeOK, FrameType
<1>1. ASSUME Seeking(p) PROVE ItemSize(frame[p]) > 0
  <2>1. Transferring(p)
    BY <1>1 DEF StorageInv, FramesCurrent, Seeking
  <2>2. frame[p].quantum = dev.quantum /\ frame[p].qset = dev.qset
    BY <2>1 DEF StorageInv, FramesCurrent
  <2>3. dev.quantum \in Nat \ {0} /\ dev.qset \in Nat \ {0}
    BY <1>t DEF StorageInv, SizesFixed, ContentType
  <2>4. dev.quantum * dev.qset > 0
    BY <2>3, SMT
  <2> QED BY <2>2, <2>4 DEF ItemSize
<1>2. ASSUME Seeking(p) PROVE ~Beyond(p)
  <2>1. SPos(frame[p], file[p].pos) \in 0..frame[p].qset - 1
    <3>1. frame[p].quantum \in Nat /\ frame[p].qset \in Nat
      BY <1>t DEF FrameType
    <3> QED BY <1>1, <1>2, <1>t, <3>1, Geometry
  <2>2. frame[p].qset = dev.qset
    BY <1>2 DEF StorageInv, FramesCurrent, Seeking
  <2>3. MyItem(p) \in DOMAIN arrays => arrays[MyItem(p)] = dev.qset
    BY DEF StorageInv, ArraySizes
  <2>4. dev.qset \in Nat /\ MySlot(p)[2] = SPos(frame[p], file[p].pos)
    BY <1>t DEF ContentType, MySlot, Slot
  <2> QED BY <2>1, <2>2, <2>3, <2>4 DEF Beyond
<1>3. \A i \in DOMAIN arrays : ~(arrays[i] < dev.qset)
  <2>1. dev.qset \in Nat
    BY <1>t DEF ContentType
  <2> QED BY <2>1 DEF StorageInv, ArraySizes
<1> QED BY <1>t, <1>1, <1>2, <1>3 DEF Undefined
(* What a process that seeks knows under the invariant: where its target     *)
(* lies, and what WithArray makes of the arrays.                             *)
LEMMA SeekFacts ==
  ASSUME StorageInv, NEW p \in Procs, Seeking(p)
  PROVE  /\ MyItem(p) \in Nat /\ list \in Nat
         /\ MySlot(p)[1] = MyItem(p) /\ MySlot(p)[2] \in 0..dev.qset - 1
         /\ MyQPos(p) \in 0..dev.quantum - 1
         /\ Clip(frame[p], file[p].pos) \in Nat
         /\ MyQPos(p) + Clip(frame[p], file[p].pos) <= dev.quantum
         /\ dev.qset \in Nat /\ dev.quantum \in Nat
         /\ DOMAIN WithArray(p) = DOMAIN arrays \cup {MyItem(p)}
         /\ \A i \in DOMAIN WithArray(p) : WithArray(p)[i] = dev.qset
<1>1. TypeOK /\ ~Undefined(p)
  BY NothingUndefined DEF StorageInv, SemInv
<1>2. frame[p].quantum = dev.quantum /\ frame[p].qset = dev.qset
  BY DEF StorageInv, FramesCurrent, Seeking
<1>3. dev.qset \in Nat /\ dev.quantum \in Nat /\ list \in Nat /\ frame[p].len \in Nat
  BY <1>1 DEF TypeOK, ContentType
<1>4. MySlot(p)[1] = MyItem(p)
  BY DEF MySlot, Slot, MyItem
<1>5. /\ DOMAIN WithArray(p) = DOMAIN arrays \cup {MyItem(p)}
      /\ \A i \in DOMAIN WithArray(p) : WithArray(p)[i] = dev.qset
  BY <1>2 DEF WithArray, Put, StorageInv, ArraySizes
<1> QED BY <1>1, <1>2, <1>3, <1>4, <1>5, SeekGeometry

(* An item the list reaches stays in it, and the one sought is reached.      *)
LEMMA FollowGrows ==
  ASSUME NEW n \in Nat, list \in Nat, Follow(n) \/ FollowFails(n)
  PROVE  list' \in Nat /\ list' >= list /\ (Follow(n) => n < list')
BY DEF Follow, FollowFails, Greatest

LEMMA StorageStep ==
  ASSUME StorageInv, NEW p \in Procs, ActsOn(p)
  PROVE  ArraySizes' /\ QuantaWhole' /\ Live(p)'
<1>t. /\ TypeOK /\ pc \in [Procs -> Labels] /\ frame \in [Procs -> FrameType]
      /\ file \in [Procs -> FileType]
      /\ ArraySizes /\ QuantaWhole /\ Live(p)
  BY DEF StorageInv, SemInv, TypeOK, FrameType, FileType, TargetLive, Live
<1>s. dev'.quantum = dev.quantum /\ dev'.qset = dev.qset
  BY <1>t, SizesStay DEF StorageInv
<1> DEFINE Copying(q) == pc[q] \in {"read_copy", "write_copy"}
<1>k. ASSUME UNCHANGED storage, ~Copying(p)' PROVE ArraySizes' /\ QuantaWhole' /\ Live(p)'
  BY <1>k, <1>t, <1>s DEF storage, ArraySizes, QuantaWhole, Live
<1>g. ASSUME UNCHANGED <<arrays, quanta>>, list' >= list, list \in Nat, list' \in Nat
      PROVE  ArraySizes' /\ QuantaWhole'
  BY <1>g, <1>t, <1>s DEF ArraySizes, QuantaWhole, TypeOK
<1>c. ASSUME MySlot(p) \in DOMAIN quanta', QuantaWhole', ArraySizes', MySlot(p)' = MySlot(p),
             MyQPos(p)' = MyQPos(p), MyItem(p)' = MyItem(p), MySlot(p)[1] = MyItem(p),
             MyQPos(p) \in Nat, frame'[p].len \in Nat, dev.quantum \in Nat,
             MyQPos(p) + frame'[p].len <= dev.quantum
      PROVE  Live(p)'
  BY <1>c, <1>s DEF Live, QuantaWhole, ArraySizes
<1>1. CASE Call(p)
  <2>1. UNCHANGED storage /\ ~Copying(p)'
    BY <1>1, <1>t DEF Call, Open, Release, ReadEnter, WriteEnter, Enter, Goto
  <2> QED BY <2>1, <1>k
<1>2. CASE Down(p) \/ Interrupted(p) \/ Oops(p)
  <2>1. UNCHANGED storage /\ ~Copying(p)'
    BY <1>2, <1>t DEF Down, Interrupted, Oops, Enter, Goto, AfterDown
  <2> QED BY <2>1, <1>k
<1>3. CASE ReadEof(p) \/ ReadCopy(p) \/ Up(p)
  <2>1. UNCHANGED storage /\ ~Copying(p)'
    BY <1>3, <1>t DEF ReadEof, ReadCopy, Up, Return, Enter, Goto
  <2> QED BY <2>1, <1>k
<1>4. CASE Trim(p)
  BY <1>4, <1>t DEF Trim, Empty, Return, Goto, ArraySizes, QuantaWhole, Live
<1>5. CASE ReadHole(p)
  <2>1. Seeking(p)
    BY <1>5 DEF ReadHole, Seeking
  <2>2. ArraySizes' /\ QuantaWhole'
    BY <1>5, <2>1, SeekFacts, FollowGrows, <1>g DEF ReadHole
  <2>3. ~Copying(p)'
    BY <1>5, <1>t DEF ReadHole, Return, Goto
  <2> QED BY <2>2, <2>3 DEF Live
<1>p. ASSUME frame' = [frame EXCEPT ![p].len = Clip(frame[p], file[p].pos)],
             UNCHANGED file, Seeking(p)
      PROVE  /\ MySlot(p)' = MySlot(p) /\ MyQPos(p)' = MyQPos(p) /\ MyItem(p)' = MyItem(p)
             /\ frame'[p].len = Clip(frame[p], file[p].pos)
  BY <1>p, <1>t DEF MySlot, MyQPos, MyItem, Slot, SPos, QPos, Item, ItemSize, FrameType
<1>l. ASSUME frame' = [frame EXCEPT ![p].len = Clip(frame[p], file[p].pos)],
             UNCHANGED file, Seeking(p),
             MySlot(p) \in DOMAIN quanta', QuantaWhole', ArraySizes'
      PROVE  Live(p)'
  <2>1. /\ MySlot(p)' = MySlot(p) /\ MyQPos(p)' = MyQPos(p) /\ MyItem(p)' = MyItem(p)
        /\ frame'[p].len = Clip(frame[p], file[p].pos)
    BY <1>l, <1>p
  <2>3. /\ MySlot(p)[1] = MyItem(p) /\ MyQPos(p) \in 0..dev.quantum - 1 /\ dev.quantum \in Nat
        /\ Clip(frame[p], file[p].pos) \in Nat
        /\ MyQPos(p) + Clip(frame[p], file[p].pos) <= dev.quantum
    BY <1>l, SeekFacts
  <2>2. /\ MySlot(p)[1] = MyItem(p) /\ MyQPos(p) \in Nat /\ dev.quantum \in Nat
        /\ frame'[p].len \in Nat /\ MyQPos(p) + frame'[p].len <= dev.quantum
    BY <2>1, <2>3
  <2> QED BY <1>l, <2>1, <2>2, <1>c
<1>6. CASE ReadFound(p)
  <2>1. Seeking(p)
    BY <1>6 DEF ReadFound, Seeking
  <2>2. ArraySizes' /\ QuantaWhole'
    BY <1>6, <2>1, SeekFacts, FollowGrows, <1>g DEF ReadFound
  <2>3. MySlot(p) \in DOMAIN quanta'
    BY <1>6 DEF ReadFound
  <2> QED BY <1>6, <2>1, <2>2, <2>3, <1>l DEF ReadFound
<1>7. ASSUME Seeking(p), arrays' = WithArray(p), Follow(MyItem(p))
      PROVE  /\ \A i \in DOMAIN arrays' : i < list' /\ arrays'[i] = dev.qset
             /\ MyItem(p) \in DOMAIN arrays' /\ DOMAIN arrays \subseteq DOMAIN arrays'
  <2>1. list' \in Nat /\ list' >= list /\ MyItem(p) < list'
    BY <1>7, SeekFacts, FollowGrows
  <2>2. \A i \in DOMAIN arrays : i \in Nat /\ i < list
    BY <1>t DEF ArraySizes, TypeOK
  <2>3. /\ DOMAIN arrays' = DOMAIN arrays \cup {MyItem(p)}
        /\ \A i \in DOMAIN arrays' : arrays'[i] = dev.qset
    BY <1>7, SeekFacts
  <2>4. list \in Nat
    BY <1>t DEF TypeOK
  <2>5. \A i \in DOMAIN arrays : i < list'
    BY <2>1, <2>2, <2>4
  <2> QED BY <2>1, <2>3, <2>5
<1>8. CASE WriteNoMem(p)
  <2>1. Seeking(p) /\ ~Copying(p)' /\ quanta' = quanta
    BY <1>8, <1>t DEF WriteNoMem, Seeking, Goto
  <2>2. CASE arrays' = arrays
    BY <1>8, <2>1, <2>2, SeekFacts, FollowGrows, <1>g DEF WriteNoMem, Live
  <2>3. CASE arrays' # arrays
    <3>1. arrays' = WithArray(p) /\ Follow(MyItem(p))
      BY <1>8, <2>3 DEF WriteNoMem
    <3>2. ArraySizes'
      BY <2>1, <3>1, <1>7, <1>s, <1>t, SeekFacts DEF ArraySizes
    <3> QED BY <2>1, <3>2, <1>s, <1>t DEF QuantaWhole, Live
  <2> QED BY <2>2, <2>3
<1>9. CASE WriteFound(p)
  <2>1. Seeking(p) /\ arrays' = WithArray(p) /\ Follow(MyItem(p))
    BY <1>9 DEF WriteFound, Seeking
  <2>2. frame[p].quantum = dev.quantum
    BY <2>1 DEF StorageInv, FramesCurrent, Seeking
  <2>3. /\ DOMAIN quanta' = DOMAIN quanta \cup {MySlot(p)}
        /\ \A s \in DOMAIN quanta' : DOMAIN quanta'[s] = 0..dev.quantum - 1
    BY <1>9, <1>t, <2>2 DEF WriteFound, Put, QuantaWhole
  <2>9. MySlot(p)[1] = MyItem(p) /\ MySlot(p)[2] \in 0..dev.qset - 1 /\ dev.qset \in Nat
    BY <2>1, SeekFacts
  <2>6. MySlot(p)[1] = MyItem(p) /\ MySlot(p)[2] < dev.qset
    BY <2>9
  <2>7. /\ \A i \in DOMAIN arrays' : i < list' /\ arrays'[i] = dev.qset
        /\ MyItem(p) \in DOMAIN arrays' /\ DOMAIN arrays \subseteq DOMAIN arrays'
    BY <2>1, <1>7
  <2>8. \A s \in DOMAIN quanta : s[1] \in DOMAIN arrays /\ s[2] < dev.qset
    BY <1>t DEF ArraySizes
  <2>4. ArraySizes'
    BY <2>3, <2>6, <2>7, <2>8, <1>s DEF ArraySizes
  <2>5. QuantaWhole'
    BY <2>3, <1>s DEF QuantaWhole
  <2> QED BY <1>9, <2>1, <2>3, <2>4, <2>5, <1>l DEF WriteFound
<1>10. CASE WriteCopy(p) \/ WriteFault(p)
  <2>1. list' = list /\ arrays' = arrays /\ ~Copying(p)'
    BY <1>10, <1>t DEF WriteCopy, WriteFault, Return, Goto
  <2>2. /\ DOMAIN quanta' = DOMAIN quanta
        /\ \A s \in DOMAIN quanta : DOMAIN quanta'[s] = DOMAIN quanta[s]
    BY <1>10 DEF WriteCopy, WriteFault, Filled, Padded, Target
  <2> QED BY <2>1, <2>2, <1>s, <1>t DEF ArraySizes, QuantaWhole, Live
<1> QED
  BY <1>1, <1>2, <1>3, <1>4, <1>5, <1>6, <1>8, <1>9, <1>10 DEF ActsOn, Step
LEMMA StepStorageInv == StorageInv /\ [Next]_vars => StorageInv'
<1> SUFFICES ASSUME StorageInv, [Next]_vars PROVE StorageInv'
  OBVIOUS
<1>0. SemInv' /\ TypeOK /\ SemInv
  BY StepSemInv DEF StorageInv, SemInv
<1>1. CASE UNCHANGED vars
  <2>1. SizesFixed' /\ FramesCurrent' /\ QuantaWhole'
    BY <1>1 DEF StorageInv, SizesFixed, FramesCurrent, Transferring, QuantaWhole, vars, storage
  <2>2. ArraySizes' /\ NoOops'
    BY <1>1 DEF StorageInv, ArraySizes, NoOops, vars, storage
  <2>3. TargetLive'
    BY <1>1 DEF StorageInv, TargetLive, MySlot, MyQPos, MyItem, vars, storage
  <2> QED BY <1>0, <2>1, <2>2, <2>3 DEF StorageInv
<1>2. CASE \E p \in Procs : ActsOn(p)
  <2>1. PICK p \in Procs : ActsOn(p)
    BY <1>2
  <2>2. SizesFixed'
    BY <2>1, <1>0, SizesStay DEF StorageInv, SizesFixed
  <2>3. FramesCurrent'
    BY <2>1, <1>0, FramesStep DEF StorageInv
  <2>4. ArraySizes' /\ QuantaWhole' /\ Live(p)'
    BY <2>1, StorageStep
  <2>5. ASSUME NEW q \in Procs, q # p PROVE Live(q)'
    <3>1. pc'[q] = pc[q] /\ frame'[q] = frame[q] /\ file'[q] = file[q]
      BY <2>1, <2>5, <1>0, OthersUntouched
    <3>2. Live(q)
      BY DEF StorageInv, TargetLive, Live
    <3>3. CASE pc[q] \in {"read_copy", "write_copy"}
      <4>1. ~Holds(p)
        BY <3>3, <2>5, <1>0 DEF SemInv, MutualExclusion, Holds, Critical
      <4>2. UNCHANGED storage
        BY <2>1, <4>1, StorageGuarded
      <4> QED BY <3>1, <3>2, <4>2 DEF Live, MySlot, MyQPos, MyItem, storage
    <3>4. CASE pc[q] \notin {"read_copy", "write_copy"}
      BY <3>1, <3>4 DEF Live
    <3> QED BY <3>3, <3>4
  <2>6. TargetLive'
    BY <2>4, <2>5 DEF TargetLive, Live
  <2>7. NoOops'
    <3>1. ~Oops(p)
      BY NothingUndefined DEF Oops
    <3>2. pc'[p] # "oops"
      BY <2>1, <3>1, <1>0 DEF ActsOn, Call, Step, Open, Release, ReadEnter, WriteEnter, Down,
         AfterDown, Interrupted, Trim, ReadEof, ReadHole, ReadFound, ReadCopy, WriteNoMem,
         WriteFound, WriteCopy, WriteFault, Up, Enter, Goto, Return, TypeOK, StorageInv, NoOops
    <3>3. \A q \in Procs : q # p => pc'[q] = pc[q]
      BY <2>1, <1>0, OthersUntouched
    <3> QED BY <3>2, <3>3 DEF NoOops, StorageInv
  <2> QED BY <1>0, <2>2, <2>3, <2>4, <2>6, <2>7 DEF StorageInv
<1> QED BY <1>1, <1>2 DEF Next, ActsOn

(* A device that was set up with the array size a trim sets.                 *)
Ready == \A c \in Contents : Configured(c) /\ c.qset = DEVICE_QSET

LEMMA InitStorageInv ==
  ASSUME Ready
  PROVE  Init => StorageInv
<1> SUFFICES ASSUME Init PROVE StorageInv
  OBVIOUS
<1>1. SemInv
  BY InitSemInv DEF Ready, Configured
<1>2. SizesFixed
  BY DEF Init, Ready, Configured, SizesFixed
<1>3. FramesCurrent
  BY DEF Init, FramesCurrent, Transferring, NoFrame
<1>4. ArraySizes /\ QuantaWhole
  BY DEF Init, Empty, ArraySizes, QuantaWhole
<1>5. TargetLive /\ NoOops
  BY DEF Init, TargetLive, NoOops
<1> QED BY <1>1, <1>2, <1>3, <1>4, <1>5 DEF StorageInv

LEMMA StorageInvariant ==
  ASSUME Ready
  PROVE  Spec => []StorageInv
BY InitStorageInv, StepStorageInv, PTL DEF Spec

(* Every allocated array has dev->qset pointers, although writes size them   *)
(* by a copy of qset taken before the semaphore.                             *)
THEOREM ArraySizesHold ==
  ASSUME Ready
  PROVE  Spec => []ArraySizes
<1>1. StorageInv => ArraySizes
  BY DEF StorageInv
<1> QED BY <1>1, StorageInvariant, PTL

(* The quantum a transfer found is allocated and large enough when it copies. *)
THEOREM TargetStaysLive ==
  ASSUME Ready
  PROVE  Spec => []TargetLive
<1>1. StorageInv => TargetLive
  BY DEF StorageInv
<1> QED BY <1>1, StorageInvariant, PTL

(* No call of a device that was set up meets undefined behaviour.            *)
THEOREM NoOopsHappens ==
  ASSUME Ready
  PROVE  Spec => []NoOops
<1>1. StorageInv => NoOops
  BY DEF StorageInv
<1> QED BY <1>1, StorageInvariant, PTL
-----------------------------------------------------------------------------
(* Seen from outside.  An offset is one byte of one quantum, and offsets that *)
(* follow each other in a quantum follow each other.                         *)
LEMMA Products ==
  ASSUME NEW q \in Nat, NEW d \in Nat, NEW s \in Nat
  PROVE  /\ q * d \in Nat
         /\ d + 1 <= s => q * d + q <= q * s
<1>1. q * d \in Nat /\ q * s \in Nat
  BY SMT
<1>2. ASSUME d + 1 <= s PROVE q * d + q <= q * s
  <2>1. q * (s - d - 1) \in Nat
    BY <1>2, SMT
  <2>2. q * s = q * d + q + q * (s - d - 1)
    BY <1>2, SMT
  <2> QED BY <1>1, <2>1, <2>2
<1> QED BY <1>1, <1>2

LEMMA Division ==
  ASSUME NEW b \in Nat \ {0}, NEW k \in Nat, NEW r \in Nat, r < b
  PROVE  (b * k + r) \div b = k /\ (b * k + r) % b = r
  OBVIOUS

LEMMA DivMod ==
  ASSUME NEW b \in Nat \ {0}, NEW a \in Nat
  PROVE  /\ a \div b \in Nat /\ a % b \in Nat /\ a % b < b
         /\ a = b * (a \div b) + (a % b)
  OBVIOUS

Sized(f) == f.quantum \in Nat \ {0} /\ f.qset \in Nat \ {0}

LEMMA Place ==
  ASSUME NEW f, Sized(f), NEW a \in Nat
  PROVE  /\ ItemSize(f) \in Nat \ {0}
         /\ Item(f, a) \in Nat /\ SPos(f, a) \in Nat /\ SPos(f, a) < f.qset
         /\ QPos(f, a) \in Nat /\ QPos(f, a) < f.quantum
         /\ a % ItemSize(f) = f.quantum * SPos(f, a) + QPos(f, a)
         /\ a = ItemSize(f) * Item(f, a) + (a % ItemSize(f))
<1>1. f.quantum \in Nat \ {0} /\ f.qset \in Nat \ {0}
  BY DEF Sized
<1>2. f.quantum * f.qset \in Nat \ {0}
  BY <1>1, SMT
<1>3. ItemSize(f) \in Nat \ {0} /\ ItemSize(f) > 0
  BY <1>2 DEF ItemSize
<1>4. /\ Item(f, a) \in Nat /\ SPos(f, a) \in 0..f.qset - 1 /\ QPos(f, a) \in 0..f.quantum - 1
  BY <1>1, <1>3, Geometry
<1>5. a % ItemSize(f) \in Nat /\ a = ItemSize(f) * Item(f, a) + (a % ItemSize(f))
  BY <1>3, DivMod DEF Item
<1>6. a % ItemSize(f) = f.quantum * SPos(f, a) + QPos(f, a)
  BY <1>1, <1>5, DivMod DEF SPos, QPos
<1> QED BY <1>1, <1>3, <1>4, <1>5, <1>6

LEMMA SameQuantum ==
  ASSUME NEW f, Sized(f), NEW a \in Nat, NEW b \in Nat, Slot(f, a) = Slot(f, b)
  PROVE  b - a = QPos(f, b) - QPos(f, a)
<1>1. Item(f, a) = Item(f, b) /\ SPos(f, a) = SPos(f, b)
  BY DEF Slot
<1> DEFINE x == ItemSize(f) * Item(f, a)  y == f.quantum * SPos(f, a)
<1>2. a = x + (y + QPos(f, a)) /\ b = x + (y + QPos(f, b))
  BY <1>1, Place
<1>3. x \in Nat /\ y \in Nat /\ QPos(f, a) \in Nat /\ QPos(f, b) \in Nat
  BY Place, Products DEF Sized
<1> HIDE DEF x, y
<1> QED BY <1>2, <1>3

LEMMA NextBytes ==
  ASSUME NEW f, Sized(f), NEW a \in Nat, NEW k \in Nat, QPos(f, a) + k < f.quantum
  PROVE  Slot(f, a + k) = Slot(f, a) /\ QPos(f, a + k) = QPos(f, a) + k
<1> DEFINE I == ItemSize(f)  i == Item(f, a)  q == f.quantum  d == SPos(f, a)  e == QPos(f, a)
           r == q * d + (e + k)
<1>1. /\ I \in Nat \ {0} /\ i \in Nat /\ q \in Nat \ {0} /\ d \in Nat /\ e \in Nat
      /\ f.qset \in Nat /\ d + 1 <= f.qset
      /\ a % I = q * d + e /\ a = I * i + (a % I) /\ I = q * f.qset
  BY Place DEF Sized, ItemSize
<1>2. q * d \in Nat /\ I * i \in Nat
  BY <1>1, Products
<1>3. r \in Nat /\ a + k = I * i + r
  <2> DEFINE u == q * d  v == I * i
  <2>1. u \in Nat /\ v \in Nat /\ e \in Nat /\ a = v + (u + e)
    BY <1>1, <1>2
  <2> HIDE DEF u, v, e
  <2>2. u + (e + k) \in Nat /\ a + k = v + (u + (e + k))
    BY <2>1
  <2> QED BY <2>2 DEF u, v
<1>4. r < I
  <2>1. q * d + q <= q * f.qset /\ q * f.qset \in Nat
    <3> HIDE DEF q, d
    <3> QED BY <1>1, Products
  <2> QED BY <1>1, <1>2, <1>3, <2>1
<1>5. (I * i + r) \div I = i /\ (I * i + r) % I = r
  <2>1. I \in Nat \ {0} /\ i \in Nat /\ r \in Nat /\ r < I
    BY <1>1, <1>3, <1>4
  <2> HIDE DEF I, i, r
  <2> QED BY <2>1, Division
<1>6. e + k \in Nat /\ e + k < q
  BY <1>1
<1>7. r \div q = d /\ r % q = e + k
  <2> HIDE DEF q, d, e
  <2> QED BY <1>1, <1>6, Division
<1>8. Item(f, a + k) = i /\ (a + k) % I = r
  BY <1>3, <1>5 DEF Item
<1>9. SPos(f, a + k) = d /\ QPos(f, a + k) = e + k
  BY <1>7, <1>8 DEF SPos, QPos
<1> QED BY <1>8, <1>9 DEF Slot

(* A run of offsets that stays in a quantum is a run of its bytes.           *)
LEMMA RunInQuantum ==
  ASSUME NEW f, Sized(f), NEW a \in Nat, NEW o \in Nat, NEW m \in Nat, NEW n \in Nat,
         QPos(f, a) + n <= f.quantum
  PROVE  o \in a + m..a + n - 1 <=>
           Slot(f, o) = Slot(f, a) /\ QPos(f, o) \in QPos(f, a) + m..QPos(f, a) + n - 1
<1>1. QPos(f, a) \in Nat /\ QPos(f, o) \in Nat /\ f.quantum \in Nat
  BY Place DEF Sized
<1>2. ASSUME o \in a + m..a + n - 1
      PROVE  Slot(f, o) = Slot(f, a) /\ QPos(f, o) \in QPos(f, a) + m..QPos(f, a) + n - 1
  <2> DEFINE k == o - a
  <2>1. k \in Nat /\ m <= k /\ k <= n - 1 /\ o = a + k
    BY <1>2
  <2> HIDE DEF k
  <2>2. QPos(f, a) + k < f.quantum
    BY <1>1, <2>1
  <2>3. Slot(f, a + k) = Slot(f, a) /\ QPos(f, a + k) = QPos(f, a) + k
    BY <2>1, <2>2, NextBytes
  <2> QED BY <1>1, <2>1, <2>3
<1>3. ASSUME Slot(f, o) = Slot(f, a), QPos(f, o) \in QPos(f, a) + m..QPos(f, a) + n - 1
      PROVE  o \in a + m..a + n - 1
  BY <1>1, <1>3, SameQuantum
<1> QED BY <1>2, <1>3

-----------------------------------------------------------------------------
(* What a process in a call was checked for when it came in, and that memory *)
(* holds bytes.                                                              *)
Reading == {"read_down", "read_seek", "read_copy"}
Writing == {"write_down", "write_seek", "write_copy"}
CallWell(p) ==
  /\ pc[p] \in Reading => file[p].mode \in {"O_RDONLY", "O_RDWR"}
  /\ pc[p] \in Writing => file[p].mode \in {"O_WRONLY", "O_RDWR"} /\ frame[p].val \in Values
  /\ pc[p] \in Reading \cup Writing => file[p].pos + frame[p].len <= MaxPos
  /\ Opening(p) => file[p] = [mode |-> "O_WRONLY", pos |-> 0]
  /\ pc[p] = "read_copy" => file[p].pos < dev.size
CallsWell == \A p \in Procs : CallWell(p)

BytesStored == \A s \in DOMAIN quanta : \A j \in DOMAIN quanta[s] : quanta[s][j] \in Bytes

SharedInv == StorageInv /\ CallsWell /\ BytesStored

LEMMA SharedInit ==
  ASSUME Ready
  PROVE  Init => SharedInv
BY InitStorageInv
   DEF Init, SharedInv, CallsWell, CallWell, BytesStored, Empty, Reading, Writing, Opening

(* The size only changes while the semaphore is held.                        *)
LEMMA SizeGuarded ==
  ASSUME TypeOK, NEW p \in Procs, ActsOn(p), ~Holds(p)
  PROVE  dev'.size = dev.size
<1> USE DEF Holds, Critical
<1>t. dev \in ContentType
  BY DEF TypeOK
<1>1. CASE Call(p) \/ Down(p) \/ Interrupted(p) \/ Oops(p)
  BY <1>1, <1>t DEF Call, Open, Release, ReadEnter, WriteEnter, Down, Interrupted, Oops, ContentType
<1>2. CASE Step(p)
  BY <1>2 DEF Step, Trim, ReadEof, ReadHole, ReadFound, ReadCopy, WriteNoMem, WriteFound,
              WriteCopy, WriteFault, Up
<1> QED BY <1>1, <1>2 DEF ActsOn

(* Under the invariant, where a seeking or copying process's target lies by  *)
(* the device's own sizes.                                                   *)
LEMMA InTransfer ==
  ASSUME StorageInv, NEW p \in Procs, pc[p] \in Reading \cup Writing
  PROVE  /\ Sized(dev) /\ file[p].pos \in Nat /\ frame[p].len \in Nat
         /\ MySlot(p) = Slot(dev, file[p].pos) /\ MyQPos(p) = QPos(dev, file[p].pos)
         /\ MyQPos(p) \in Nat
<1>1. TypeOK /\ SizesFixed /\ FramesCurrent
  BY DEF StorageInv, SemInv
<1>2. Sized(dev)
  BY <1>1 DEF TypeOK, ContentType, SizesFixed, Sized
<1>3. file[p].pos \in Nat /\ frame[p].len \in Nat
  BY <1>1 DEF TypeOK
<1>4. frame[p].quantum = dev.quantum /\ frame[p].qset = dev.qset
  BY <1>1 DEF FramesCurrent, Reading, Writing
<1>5. MySlot(p) = Slot(dev, file[p].pos) /\ MyQPos(p) = QPos(dev, file[p].pos)
  BY <1>4 DEF MySlot, MyQPos, Slot, Item, SPos, QPos, ItemSize
<1> QED BY <1>2, <1>3, <1>5, Place

LEMMA CallWellStep ==
  ASSUME SharedInv, NEW p \in Procs, ActsOn(p)
  PROVE  CallWell(p)'
<1>t. /\ TypeOK /\ pc \in [Procs -> Labels] /\ frame \in [Procs -> FrameType]
      /\ file \in [Procs -> FileType] /\ dev \in ContentType /\ CallWell(p) /\ MaxPos \in Nat
  BY ChardevAssumption DEF SharedInv, StorageInv, SemInv, TypeOK, FrameType, FileType, CallsWell
<1> USE <1>t DEF CallWell, Reading, Writing, Opening, Enter, Goto, Return
<1>1. ASSUME NEW mode \in Modes, Open(p, mode) PROVE CallWell(p)'
  BY <1>1 DEF Open
<1>2. CASE Release(p)
  BY <1>2 DEF Release
<1>3. ASSUME NEW len \in Lens, ReadEnter(p, len) PROVE CallWell(p)'
  BY <1>3 DEF ReadEnter, Locals
<1>4. ASSUME NEW len \in Lens, NEW val \in Values, WriteEnter(p, len, val) PROVE CallWell(p)'
  BY <1>4 DEF WriteEnter, Locals
<1>5. CASE Down(p)
  BY <1>5 DEF Down, AfterDown
<1>6. CASE Interrupted(p) \/ Oops(p) \/ Up(p) \/ Trim(p) \/ ReadEof(p) \/ ReadHole(p)
  BY <1>6 DEF Interrupted, Oops, Up, Trim, ReadEof, ReadHole
<1>7. CASE ReadCopy(p) \/ WriteNoMem(p) \/ WriteCopy(p) \/ WriteFault(p)
  BY <1>7 DEF ReadCopy, WriteNoMem, WriteCopy, WriteFault
<1>8. ASSUME Seeking(p), frame' = [frame EXCEPT ![p].len = Clip(frame[p], file[p].pos)]
      PROVE  /\ frame'[p].val = frame[p].val /\ frame'[p].len <= frame[p].len
             /\ frame'[p].len \in Nat
  <2>1. Clip(frame[p], file[p].pos) \in 0..frame[p].len
    BY <1>8, NothingUndefined, SeekGeometry DEF SharedInv
  <2> QED BY <1>8, <2>1 DEF FrameType
<1>9. CASE ReadFound(p)
  BY <1>8, <1>9 DEF ReadFound, Seeking, FrameType, FileType
<1>10. CASE WriteFound(p)
  BY <1>8, <1>10 DEF WriteFound, Seeking, FrameType, FileType
<1> QED
  BY <1>1, <1>2, <1>3, <1>4, <1>5, <1>6, <1>7, <1>9, <1>10 DEF ActsOn, Call, Step

LEMMA BytesStep ==
  ASSUME SharedInv, NEW p \in Procs, ActsOn(p)
  PROVE  BytesStored'
<1>0. BytesStored /\ CallWell(p)
  BY DEF SharedInv, CallsWell
<1>1. CASE quanta' = quanta
  BY <1>0, <1>1 DEF BytesStored
<1>2. CASE Trim(p)
  BY <1>2 DEF Trim, Empty, BytesStored
<1>3. CASE WriteFound(p)
  BY <1>0, <1>3 DEF WriteFound, Put, BytesStored, Bytes
<1>4. ASSUME NEW n, NEW t \in {Filled(p, n), Padded(p, n)}, pc[p] = "write_copy",
             quanta' = [quanta EXCEPT ![MySlot(p)] = t]
      PROVE  BytesStored'
  <2>1. frame[p].val \in Bytes /\ MySlot(p) \in DOMAIN quanta
    BY <1>0, <1>4 DEF CallWell, Writing, Bytes, SharedInv, StorageInv, TargetLive
  <2>2. DOMAIN t = DOMAIN Target(p) /\ \A j \in DOMAIN t : t[j] \in Bytes
    BY <1>0, <1>4, <2>1 DEF Filled, Padded, Target, BytesStored, Bytes
  <2> QED BY <1>0, <1>4, <2>1, <2>2 DEF BytesStored
<1>5. CASE WriteCopy(p) \/ WriteFault(p)
  BY <1>4, <1>5 DEF WriteCopy, WriteFault
<1> QED
  BY <1>1, <1>2, <1>3, <1>5 DEF ActsOn, Call, Open, Release, ReadEnter, WriteEnter, Down,
     Interrupted, Oops, Step, ReadEof, ReadHole, ReadFound, ReadCopy, WriteNoMem, Up, storage

LEMMA SharedStep == SharedInv /\ [Next]_vars => SharedInv'
<1> SUFFICES ASSUME SharedInv, [Next]_vars PROVE SharedInv'
  OBVIOUS
<1>1. StorageInv' /\ TypeOK
  BY StepStorageInv DEF SharedInv, StorageInv, SemInv
<1>2. CASE UNCHANGED vars
  <2>1. CallsWell'
    BY <1>2 DEF SharedInv, CallsWell, CallWell, Opening, vars
  <2>2. BytesStored'
    BY <1>2 DEF SharedInv, BytesStored, vars, storage
  <2> QED BY <1>1, <2>1, <2>2 DEF SharedInv
<1>3. ASSUME NEW p \in Procs, ActsOn(p) PROVE SharedInv'
  <2>1. BytesStored' /\ CallWell(p)'
    BY <1>3, BytesStep, CallWellStep
  <2>2. ASSUME NEW q \in Procs, q # p PROVE CallWell(q)'
    <3>1. pc'[q] = pc[q] /\ frame'[q] = frame[q] /\ file'[q] = file[q]
      BY <1>1, <1>3, <2>2, OthersUntouched
    <3>2. CASE pc[q] = "read_copy"
      <4>1. ~Holds(p)
        BY <2>2, <3>2 DEF SharedInv, StorageInv, SemInv, MutualExclusion, Holds, Critical
      <4>2. dev'.size = dev.size
        BY <1>1, <1>3, <4>1, SizeGuarded
      <4> QED BY <3>1, <4>2 DEF SharedInv, CallsWell, CallWell, Opening
    <3>3. CASE pc[q] # "read_copy"
      BY <3>1, <3>3 DEF SharedInv, CallsWell, CallWell, Opening
    <3> QED BY <3>2, <3>3
  <2> QED BY <1>1, <2>1, <2>2 DEF SharedInv, CallsWell
<1> QED BY <1>2, <1>3 DEF Next, ActsOn

-----------------------------------------------------------------------------
(* What an abstract observer sees change.                                    *)
LEMMA SizesAlways ==
  ASSUME SharedInv, NEW p \in Procs, ActsOn(p)
  PROVE  dev'.quantum = dev.quantum /\ dev'.qset = dev.qset
BY SizesStay DEF SharedInv, StorageInv, SemInv

LEMMA PlacesStay ==
  ASSUME dev'.quantum = dev.quantum, dev'.qset = dev.qset, NEW o
  PROVE  Slot(dev, o)' = Slot(dev, o) /\ QPos(dev, o)' = QPos(dev, o)
BY DEF Slot, Item, SPos, QPos, ItemSize

LEMMA BytesStay ==
  ASSUME dev'.quantum = dev.quantum, dev'.qset = dev.qset, quanta' = quanta
  PROVE  StoredBytes' = StoredBytes
<1>1. ASSUME NEW o PROVE ByteAt(o)' = ByteAt(o)
  BY PlacesStay DEF ByteAt
<1> QED BY <1>1 DEF StoredBytes

(* A transfer stays inside its quantum.                                      *)
LEMMA TransferFits ==
  ASSUME StorageInv, NEW p \in Procs, pc[p] \in {"read_copy", "write_copy"}
  PROVE  /\ MySlot(p) \in DOMAIN quanta /\ DOMAIN quanta[MySlot(p)] = 0..dev.quantum - 1
         /\ MyQPos(p) + frame[p].len <= dev.quantum
<1>1. /\ Sized(dev) /\ file[p].pos \in Nat /\ frame[p].len \in Nat
      /\ MyQPos(p) = QPos(dev, file[p].pos) /\ MyQPos(p) \in Nat
  BY InTransfer DEF Reading, Writing
<1>2. /\ MySlot(p) \in DOMAIN quanta /\ DOMAIN quanta[MySlot(p)] = 0..dev.quantum - 1
      /\ \A i \in 0..frame[p].len - 1 : MyQPos(p) + i \in DOMAIN quanta[MySlot(p)]
  BY DEF StorageInv, TargetLive, QuantaWhole
<1>3. MyQPos(p) < dev.quantum /\ dev.quantum \in Nat
  BY <1>1, Place DEF Sized
<1>4. CASE frame[p].len = 0
  BY <1>1, <1>2, <1>3, <1>4
<1>5. CASE frame[p].len > 0
  <2>1. frame[p].len - 1 \in 0..frame[p].len - 1
    BY <1>1, <1>5
  <2>2. MyQPos(p) + (frame[p].len - 1) \in 0..dev.quantum - 1
    BY <1>2, <2>1
  <2> QED BY <1>1, <1>2, <1>3, <2>2
<1> QED BY <1>1, <1>4, <1>5

(* What a copy stores, by offsets.                                           *)
LEMMA CopyStores ==
  ASSUME StorageInv, NEW p \in Procs, pc[p] = "write_copy", NEW n \in 0..frame[p].len,
         NEW padded \in BOOLEAN, dev'.quantum = dev.quantum, dev'.qset = dev.qset,
         quanta' = [quanta EXCEPT ![MySlot(p)] = IF padded THEN Padded(p, n) ELSE Filled(p, n)],
         NEW o \in Nat
  PROVE  ByteAt(o)' =
           LET from == file[p].pos
           IN  IF o \in from..from + n - 1 THEN frame[p].val
               ELSE IF padded /\ o \in from + n..from + frame[p].len - 1 THEN Junk
               ELSE ByteAt(o)
<1> DEFINE from == file[p].pos  len == frame[p].len  s == Slot(dev, o)  j == QPos(dev, o)
           t == IF padded THEN Padded(p, n) ELSE Filled(p, n)
<1>1. /\ Sized(dev) /\ from \in Nat /\ len \in Nat
      /\ MySlot(p) = Slot(dev, from) /\ MyQPos(p) = QPos(dev, from) /\ MyQPos(p) \in Nat
  BY InTransfer DEF Writing
<1>2. /\ MySlot(p) \in DOMAIN quanta /\ DOMAIN quanta[MySlot(p)] = 0..dev.quantum - 1
      /\ MyQPos(p) + len <= dev.quantum
  BY TransferFits
<1>3. j \in 0..dev.quantum - 1 /\ n \in Nat /\ n <= len
  <2>1. j \in Nat /\ j < dev.quantum /\ dev.quantum \in Nat
    BY <1>1, Place DEF Sized
  <2>2. n \in Nat /\ n <= len
    BY <1>1
  <2> QED BY <2>1, <2>2
<1>4. MyQPos(p) + n <= dev.quantum
  BY <1>1, <1>2, <1>3 DEF Sized
<1>5. /\ o \in from..from + n - 1 <=> s = MySlot(p) /\ j \in Span(p, 0, n)
      /\ o \in from + n..from + len - 1 <=> s = MySlot(p) /\ j \in Span(p, n, len)
  <2>1. o \in from + 0..from + n - 1 <=>
          s = Slot(dev, from) /\ j \in QPos(dev, from) + 0..QPos(dev, from) + n - 1
    BY <1>1, <1>3, <1>4, RunInQuantum
  <2>2. o \in from + n..from + len - 1 <=>
          s = Slot(dev, from) /\ j \in QPos(dev, from) + n..QPos(dev, from) + len - 1
    BY <1>1, <1>2, <1>3, RunInQuantum
  <2>3. from + 0 = from
    BY <1>1
  <2> QED BY <1>1, <2>1, <2>2, <2>3 DEF Span
<1>6. ByteAt(o)' = IF s \in DOMAIN quanta' THEN quanta'[s][j] ELSE Junk
  BY PlacesStay DEF ByteAt
<1>7. DOMAIN quanta' = DOMAIN quanta /\ quanta'[s] = IF s = MySlot(p) THEN t ELSE quanta[s]
  BY <1>2, <1>6
<1>8. CASE s # MySlot(p)
  BY <1>5, <1>6, <1>7, <1>8 DEF ByteAt
<1>9. CASE s = MySlot(p)
  <2>1. ByteAt(o) = Target(p)[j] /\ j \in DOMAIN Target(p)
    BY <1>2, <1>3, <1>9 DEF ByteAt, Target
  <2>2. ByteAt(o)' = t[j]
    BY <1>2, <1>6, <1>7, <1>9
  <2>3. Filled(p, n)[j] = IF j \in Span(p, 0, n) THEN frame[p].val ELSE Target(p)[j]
    BY <2>1 DEF Filled
  <2>4. Padded(p, n)[j] = IF j \in Span(p, n, len) THEN Junk ELSE Filled(p, n)[j]
    BY <2>1 DEF Padded
  <2>5. ~(j \in Span(p, 0, n) /\ j \in Span(p, n, len))
    BY <1>1, <1>3 DEF Span
  <2> QED BY <1>5, <1>9, <2>1, <2>2, <2>3, <2>4, <2>5
<1> QED BY <1>8, <1>9

(* A step that neither stores nor opens anything is not seen.                *)
LEMMA NotSeen ==
  ASSUME dev'.quantum = dev.quantum, dev'.qset = dev.qset, dev'.size = dev.size,
         quanta' = quanta, OpenFiles' = OpenFiles, got' = got
  PROVE  UNCHANGED Shared!vars
BY BytesStay DEF Shared!vars

LEMMA FilesSeen ==
  ASSUME TypeOK, NEW p \in Procs, ActsOn(p)
  PROVE  OpenFiles' = [OpenFiles EXCEPT ![p] = IF Opening(p)' THEN Closed ELSE file'[p]]
<1>1. ASSUME NEW q \in Procs, q # p PROVE pc'[q] = pc[q] /\ file'[q] = file[q]
  BY <1>1, OthersUntouched
<1> QED BY <1>1 DEF OpenFiles, Opening

LEMMA ReadSeen ==
  ASSUME SharedInv, SharedInv', NEW p \in Procs, ReadCopy(p)
  PROVE  Shared!Read(p, frame[p].len) \/ UNCHANGED Shared!vars
<1> DEFINE n == frame[p].len  from == file[p].pos
<1>0. TypeOK /\ StorageInv /\ ActsOn(p) /\ pc[p] = "read_copy"
  BY DEF SharedInv, StorageInv, SemInv, ActsOn, Step, ReadCopy
<1>1. /\ file[p].mode \in {"O_RDONLY", "O_RDWR"} /\ from < dev.size /\ from + n <= MaxPos
      /\ BytesStored
  BY <1>0 DEF SharedInv, CallsWell, CallWell, Reading
<1>2. StoredBytes' = StoredBytes /\ dev' = dev
  BY BytesStay DEF ReadCopy, storage
<1>3. ~Opening(p) /\ ~Opening(p)'
  BY <1>0 DEF ReadCopy, Opening, Return, Goto, TypeOK
<1>4. OpenFiles[p] = file[p] /\ OpenFiles' = [OpenFiles EXCEPT ![p] = file'[p]]
  BY <1>0, <1>3, FilesSeen DEF OpenFiles
<1>5. CASE UNCHANGED <<file, got>>
  <2>1. OpenFiles' = OpenFiles
    BY <1>4, <1>5 DEF OpenFiles
  <2> QED BY <1>2, <1>5, <2>1 DEF Shared!vars
<1>6. ASSUME got' = [got EXCEPT ![p] = [i \in 1..n |-> quanta[MySlot(p)][MyQPos(p) + i - 1]]],
             file' = [file EXCEPT ![p].pos = @ + n]
      PROVE  Shared!Read(p, n)
  <2> DEFINE run == [i \in 1..n |-> quanta[MySlot(p)][MyQPos(p) + i - 1]]
  <2>1. /\ Sized(dev) /\ from \in Nat /\ n \in Nat /\ MaxPos \in Nat
        /\ MySlot(p) = Slot(dev, from) /\ MyQPos(p) = QPos(dev, from) /\ MyQPos(p) \in Nat
    BY <1>0, InTransfer, ChardevAssumption DEF Reading
  <2>2. /\ MySlot(p) \in DOMAIN quanta /\ DOMAIN quanta[MySlot(p)] = 0..dev.quantum - 1
        /\ MyQPos(p) + n <= dev.quantum /\ dev.quantum \in Nat
    BY <1>0, <2>1, TransferFits DEF Sized
  <2>3. ASSUME NEW i \in 1..n
        PROVE  run[i] \in Bytes /\ StoredBytes[from + i - 1] = run[i]
    <3>1. i - 1 \in Nat /\ MyQPos(p) + (i - 1) < dev.quantum /\ MyQPos(p) + i - 1 = MyQPos(p) + (i - 1)
      BY <2>1, <2>2
    <3>2. /\ Slot(dev, from + (i - 1)) = MySlot(p)
          /\ QPos(dev, from + (i - 1)) = MyQPos(p) + (i - 1)
      BY <2>1, <3>1, NextBytes
    <3>3. from + i - 1 = from + (i - 1) /\ from + (i - 1) \in 0..MaxPos - 1
      BY <1>1, <2>1
    <3>4. StoredBytes[from + i - 1] = run[i]
      BY <2>2, <3>1, <3>2, <3>3 DEF StoredBytes, ByteAt
    <3>5. MyQPos(p) + (i - 1) \in DOMAIN quanta[MySlot(p)]
      BY <2>1, <2>2, <3>1
    <3> QED BY <1>1, <2>2, <3>1, <3>4, <3>5 DEF BytesStored
  <2>4. run \in [1..n -> Values \cup {Junk}]
    BY <2>3 DEF Bytes
  <2>5. \A i \in 1..n : LET b == StoredBytes[OpenFiles[p].pos + i - 1] IN b # Junk => run[i] = b
    BY <1>4, <2>3
  <2>6. OpenFiles' = [OpenFiles EXCEPT ![p].pos = @ + n]
    BY <1>0, <1>4, <1>6 DEF TypeOK, OpenFiles
  <2> HIDE DEF run
  <2> QED BY <1>1, <1>2, <1>4, <1>6, <2>4, <2>5, <2>6 DEF Shared!Read, run
<1> QED BY <1>5, <1>6 DEF ReadCopy

LEMMA WriteSeen ==
  ASSUME SharedInv, SharedInv', NEW p \in Procs, WriteCopy(p)
  PROVE  Shared!Write(p, frame[p].len, frame[p].val)
<1> DEFINE n == frame[p].len  from == file[p].pos
<1>0. TypeOK /\ StorageInv /\ ActsOn(p) /\ pc[p] = "write_copy"
  BY DEF SharedInv, StorageInv, SemInv, ActsOn, Step, WriteCopy
<1>1. file[p].mode \in {"O_WRONLY", "O_RDWR"} /\ from + n <= MaxPos
  BY <1>0 DEF SharedInv, CallsWell, CallWell, Writing
<1>2. /\ from \in Nat /\ n \in Nat /\ MaxPos \in Nat /\ dev.size \in Nat
  BY <1>0, ChardevAssumption DEF TypeOK, ContentType
<1>3. ~Opening(p) /\ ~Opening(p)'
  BY <1>0 DEF WriteCopy, Opening, Return, Goto, TypeOK
<1>4. OpenFiles[p] = file[p] /\ OpenFiles' = [OpenFiles EXCEPT ![p] = file'[p]]
  BY <1>0, <1>3, FilesSeen DEF OpenFiles
<1>5. dev'.quantum = dev.quantum /\ dev'.qset = dev.qset
  BY <1>0, SizesAlways
<1>6. /\ quanta' = [quanta EXCEPT ![MySlot(p)] = Filled(p, n)]
      /\ file' = [file EXCEPT ![p].pos = from + n]
      /\ dev'.size = Greatest(dev.size, from + n) /\ got' = got
  BY <1>0 DEF WriteCopy, TypeOK, ContentType
<1>7. ASSUME NEW o \in 0..MaxPos - 1
      PROVE  ByteAt(o)' = IF o \in from..from + n - 1 THEN frame[p].val ELSE ByteAt(o)
  <2>1. quanta' = [quanta EXCEPT ![MySlot(p)] = IF FALSE THEN Padded(p, n) ELSE Filled(p, n)]
    BY <1>6
  <2>2. o \in Nat /\ n \in 0..frame[p].len
    BY <1>2
  <2> QED BY <1>0, <1>5, <2>1, <2>2, CopyStores
<1>8. StoredBytes' = Shared!Stored(from, from + n, frame[p].val)
  <2>0. from + n - 1 = (from + n) - 1
    BY <1>2
  <2> HIDE DEF n, from
  <2>1. StoredBytes' = [o \in DOMAIN StoredBytes |->
                          IF o \in from..(from + n) - 1 THEN frame[p].val ELSE StoredBytes[o]]
    BY <1>7, <2>0 DEF StoredBytes
  <2> QED BY <2>1 DEF Shared!Stored
<1>9. dev'.size = IF dev.size < from + n THEN from + n ELSE dev.size
  BY <1>2, <1>6 DEF Greatest
<1>10. OpenFiles' = [OpenFiles EXCEPT ![p].pos = from + n]
  BY <1>0, <1>4, <1>6 DEF TypeOK, OpenFiles
<1> QED BY <1>1, <1>4, <1>6, <1>8, <1>9, <1>10 DEF Shared!Write

LEMMA FaultSeen ==
  ASSUME SharedInv, SharedInv', NEW p \in Procs, WriteFault(p)
  PROVE  \E n, m \in 0..MaxPos : n <= frame[p].len /\ Shared!WriteFails(p, n, m, frame[p].val)
<1> DEFINE len == frame[p].len  from == file[p].pos
<1>0. TypeOK /\ StorageInv /\ ActsOn(p) /\ pc[p] = "write_copy"
  BY DEF SharedInv, StorageInv, SemInv, ActsOn, Step, WriteFault
<1>1. file[p].mode \in {"O_WRONLY", "O_RDWR"} /\ from + len <= MaxPos
  BY <1>0 DEF SharedInv, CallsWell, CallWell, Writing
<1>2. /\ from \in Nat /\ len \in Nat /\ MaxPos \in Nat
  BY <1>0, ChardevAssumption DEF TypeOK
<1>3. ~Opening(p) /\ ~Opening(p)'
  BY <1>0 DEF WriteFault, Opening, Return, Goto, TypeOK
<1>4. OpenFiles[p] = file[p] /\ OpenFiles' = OpenFiles
  <2>1. OpenFiles' = [OpenFiles EXCEPT ![p] = file[p]] /\ OpenFiles[p] = file[p]
    BY <1>0, <1>3, FilesSeen DEF OpenFiles, WriteFault
  <2> QED BY <2>1 DEF OpenFiles
<1>5. dev' = dev /\ got' = got /\ dev'.quantum = dev.quantum /\ dev'.qset = dev.qset
  BY DEF WriteFault
<1>6. PICK m \in 0..len - 1, padded \in BOOLEAN :
        quanta' = [quanta EXCEPT ![MySlot(p)] = IF padded THEN Padded(p, m) ELSE Filled(p, m)]
  <2>1. PICK m \in 0..len - 1 : \E rest \in {Filled(p, m), Padded(p, m)} :
          quanta' = [quanta EXCEPT ![MySlot(p)] = rest]
    BY DEF WriteFault
  <2>2. CASE quanta' = [quanta EXCEPT ![MySlot(p)] = Filled(p, m)]
    <3>1. quanta' = [quanta EXCEPT ![MySlot(p)] = IF FALSE THEN Padded(p, m) ELSE Filled(p, m)]
      BY <2>2
    <3> QED BY <3>1
  <2>3. CASE quanta' = [quanta EXCEPT ![MySlot(p)] = Padded(p, m)]
    <3>1. quanta' = [quanta EXCEPT ![MySlot(p)] = IF TRUE THEN Padded(p, m) ELSE Filled(p, m)]
      BY <2>3
    <3> QED BY <3>1
  <2> QED BY <2>1, <2>2, <2>3
<1> DEFINE n == IF padded THEN len ELSE m
<1>7. m \in 0..MaxPos /\ n \in 0..MaxPos /\ m <= n /\ from + n <= MaxPos /\ n <= len
  BY <1>1, <1>2
<1>8. ASSUME NEW o \in 0..MaxPos - 1
      PROVE  ByteAt(o)' = IF o \in from..from + m - 1 THEN frame[p].val
                          ELSE IF o \in from + m..from + n - 1 THEN Junk ELSE ByteAt(o)
  <2>1. o \in Nat /\ m \in 0..frame[p].len
    BY <1>2
  <2>2. ByteAt(o)' = IF o \in from..from + m - 1 THEN frame[p].val
                     ELSE IF padded /\ o \in from + m..from + len - 1 THEN Junk ELSE ByteAt(o)
    BY <1>0, <1>5, <1>6, <2>1, CopyStores
  <2>3. from + m..from + n - 1 = IF padded THEN from + m..from + len - 1 ELSE {}
    BY <1>2
  <2> QED BY <2>2, <2>3
<1> HIDE DEF n
<1>9. StoredBytes' = [o \in DOMAIN StoredBytes |->
                        IF o \in from..from + m - 1 THEN frame[p].val
                        ELSE IF o \in from + m..from + n - 1 THEN Junk ELSE StoredBytes[o]]
  BY <1>8 DEF StoredBytes
<1>10. Shared!WriteFails(p, n, m, frame[p].val)
  BY <1>1, <1>4, <1>5, <1>7, <1>9 DEF Shared!WriteFails
<1> QED BY <1>7, <1>10

LEMMA OpenSeen ==
  ASSUME SharedInv, SharedInv', NEW p \in Procs, NEW mode \in Modes, Open(p, mode)
  PROVE  Shared!Open(p, mode) \/ UNCHANGED Shared!vars
<1>0. TypeOK /\ ActsOn(p) /\ pc[p] = "user" /\ file[p] = Closed
  BY DEF SharedInv, StorageInv, SemInv, ActsOn, Call, Open
<1>1. /\ file'[p] = [mode |-> mode, pos |-> 0] /\ dev' = dev /\ quanta' = quanta /\ got' = got
      /\ Opening(p)' <=> mode = "O_WRONLY"
  BY <1>0 DEF Open, TypeOK, storage, Opening, Enter, Goto
<1>2. StoredBytes' = StoredBytes
  BY <1>1, BytesStay
<1>3. OpenFiles[p] = Closed
  BY <1>0 DEF OpenFiles
<1>4. OpenFiles' = [OpenFiles EXCEPT ![p] = IF mode = "O_WRONLY" THEN Closed ELSE file'[p]]
  BY <1>0, <1>1, FilesSeen
<1>5. CASE mode = "O_WRONLY"
  <2>1. OpenFiles' = OpenFiles
    BY <1>3, <1>4, <1>5 DEF OpenFiles
  <2> QED BY <1>1, <1>2, <2>1 DEF Shared!vars
<1>6. CASE mode # "O_WRONLY"
  BY <1>1, <1>2, <1>3, <1>4, <1>6 DEF Shared!Open, Shared!Closed, Closed
<1> QED BY <1>5, <1>6

LEMMA TrimSeen ==
  ASSUME SharedInv, SharedInv', NEW p \in Procs, Trim(p)
  PROVE  Shared!Open(p, "O_WRONLY")
<1>0. TypeOK /\ ActsOn(p) /\ pc[p] = "trim" /\ Opening(p)
  BY DEF SharedInv, StorageInv, SemInv, ActsOn, Step, Trim, Opening
<1>1. file[p] = [mode |-> "O_WRONLY", pos |-> 0] /\ file' = file /\ got' = got /\ ~Opening(p)'
  BY <1>0 DEF SharedInv, CallsWell, CallWell, Trim, Return, Goto, TypeOK, Opening
<1>2. OpenFiles[p] = Closed /\ OpenFiles' = [OpenFiles EXCEPT ![p] = file[p]]
  BY <1>0, <1>1, FilesSeen DEF OpenFiles
<1>3. quanta' = Empty /\ dev'.size = 0
  BY <1>0 DEF Trim, TypeOK, ContentType
<1>4. \A o : ByteAt(o)' = Junk
  BY <1>3 DEF ByteAt, Empty
<1>5. StoredBytes' = Shared!Blank
  BY <1>4 DEF StoredBytes, Shared!Blank
<1> QED BY <1>1, <1>2, <1>3, <1>5 DEF Shared!Open, Shared!Closed, Closed

(* A new quantum holds nothing yet.                                          *)
LEMMA FoundUnseen ==
  ASSUME SharedInv, NEW p \in Procs, WriteFound(p)
  PROVE  StoredBytes' = StoredBytes
<1>0. ActsOn(p) /\ pc[p] = "write_seek" /\ StorageInv /\ MaxPos \in Nat
  BY ChardevAssumption DEF SharedInv, ActsOn, Step, WriteFound
<1>1. Sized(dev) /\ dev'.quantum = dev.quantum /\ dev'.qset = dev.qset
  BY <1>0, InTransfer, SizesAlways DEF Writing
<1>2. frame[p].quantum = dev.quantum
  BY <1>0 DEF StorageInv, FramesCurrent
<1>3. ASSUME NEW o \in 0..MaxPos - 1 PROVE ByteAt(o)' = ByteAt(o)
  <2>1. o \in Nat
    BY <1>0
  <2>2. QPos(dev, o) \in 0..dev.quantum - 1
    <3>1. QPos(dev, o) \in Nat /\ QPos(dev, o) < dev.quantum /\ dev.quantum \in Nat
      BY <1>1, <2>1, Place DEF Sized
    <3> QED BY <3>1
  <2>3. ByteAt(o)' = IF Slot(dev, o) \in DOMAIN quanta'
                     THEN quanta'[Slot(dev, o)][QPos(dev, o)] ELSE Junk
    BY <1>1, PlacesStay DEF ByteAt
  <2> QED BY <1>2, <2>2, <2>3 DEF WriteFound, Put, ByteAt
<1> QED BY <1>3 DEF StoredBytes

LEMMA OthersUnseen ==
  ASSUME SharedInv, SharedInv', NEW p \in Procs, ActsOn(p),
         \/ Down(p) \/ Interrupted(p) \/ (\E len \in Lens : ReadEnter(p, len))
         \/ (\E len \in Lens, val \in Values : WriteEnter(p, len, val))
         \/ ReadEof(p) \/ ReadHole(p) \/ ReadFound(p) \/ WriteNoMem(p) \/ WriteFound(p)
  PROVE  UNCHANGED Shared!vars
<1>0. TypeOK /\ dev \in ContentType /\ pc \in [Procs -> Labels] /\ file \in [Procs -> FileType]
  BY DEF SharedInv, StorageInv, SemInv, TypeOK, FileType
<1>1. dev'.size = dev.size /\ got' = got
  BY <1>0 DEF Down, Interrupted, ReadEnter, WriteEnter, ReadEof, ReadHole, ReadFound,
              WriteNoMem, WriteFound, ContentType
<1>2. StoredBytes' = StoredBytes
  <2>1. CASE quanta' = quanta
    BY <2>1, SizesAlways, BytesStay
  <2>2. CASE quanta' # quanta
    BY <2>2, FoundUnseen DEF Down, Interrupted, ReadEnter, WriteEnter, ReadEof, ReadHole,
       ReadFound, WriteNoMem, storage
  <2> QED BY <2>1, <2>2
<1>3. OpenFiles'[p] = OpenFiles[p]
  BY <1>0 DEF Down, Interrupted, ReadEnter, WriteEnter, ReadEof, ReadHole, ReadFound,
     WriteNoMem, WriteFound, OpenFiles, Opening, Enter, Return, Goto, AfterDown
<1>4. OpenFiles' = OpenFiles
  <2>1. OpenFiles' = [OpenFiles EXCEPT ![p] = OpenFiles'[p]]
    BY <1>0, FilesSeen DEF OpenFiles
  <2> QED BY <1>3, <2>1 DEF OpenFiles
<1> QED BY <1>1, <1>2, <1>4 DEF Shared!vars

LEMMA ReturnsSeen ==
  ASSUME SharedInv, SharedInv', NEW p \in Procs, ActsOn(p), Release(p) \/ Up(p)
  PROVE  Shared!Release(p) \/ Shared!Return(p)
<1>0. TypeOK /\ dev \in ContentType
  BY DEF SharedInv, StorageInv, SemInv, TypeOK
<1>1. dev'.size = dev.size /\ quanta' = quanta
  BY <1>0 DEF Release, Up, storage, ContentType
<1>2. StoredBytes' = StoredBytes
  BY <1>1, SizesAlways, BytesStay
<1>3. ~Opening(p) /\ ~Opening(p)' /\ OpenFiles[p] = file[p]
  BY <1>0 DEF Release, Up, Opening, Enter, Goto, TypeOK, OpenFiles
<1>4. OpenFiles' = [OpenFiles EXCEPT ![p] = file'[p]]
  BY <1>0, <1>3, FilesSeen
<1>5. CASE Release(p)
  BY <1>0, <1>1, <1>2, <1>4, <1>5 DEF Release, Shared!Release, Shared!Closed, Closed, TypeOK
<1>6. CASE Up(p)
  <2>1. OpenFiles' = OpenFiles
    BY <1>3, <1>4, <1>6 DEF Up, OpenFiles
  <2> QED BY <1>1, <1>2, <1>6, <2>1 DEF Up, Shared!Return
<1> QED BY <1>5, <1>6

LEMMA RefinementStep ==
  ASSUME SharedInv, SharedInv', [Next]_vars
  PROVE  [Shared!Next]_Shared!vars
<1>1. CASE UNCHANGED vars
  BY <1>1 DEF vars, storage, Shared!vars, StoredBytes, ByteAt, Slot, Item, SPos, QPos, ItemSize,
              OpenFiles, Opening
<1>2. ASSUME NEW p \in Procs, ActsOn(p) PROVE [Shared!Next]_Shared!vars
  <2>1. ASSUME NEW mode \in Modes, Open(p, mode) PROVE [Shared!Next]_Shared!vars
    BY <2>1, OpenSeen DEF Shared!Next, Shared!Modes, Modes
  <2>2. CASE Trim(p)
    BY <2>2, TrimSeen DEF Shared!Next, Shared!Modes
  <2>3. CASE ReadCopy(p)
    <3>1. frame[p].len \in 0..MaxPos
      BY <2>3, ChardevAssumption, InTransfer
         DEF ReadCopy, SharedInv, CallsWell, CallWell, Reading
    <3> QED BY <2>3, <3>1, ReadSeen DEF Shared!Next
  <2>4. CASE WriteCopy(p)
    <3>1. frame[p].len \in 0..MaxPos /\ frame[p].val \in Values
      BY <2>4, ChardevAssumption, InTransfer
         DEF WriteCopy, SharedInv, CallsWell, CallWell, Writing
    <3> QED BY <2>4, <3>1, WriteSeen DEF Shared!Next
  <2>5. CASE WriteFault(p)
    <3>1. frame[p].val \in Values
      BY <2>5 DEF WriteFault, SharedInv, CallsWell, CallWell, Writing
    <3> QED BY <2>5, <3>1, FaultSeen DEF Shared!Next
  <2>6. CASE Release(p) \/ Up(p)
    BY <1>2, <2>6, ReturnsSeen DEF Shared!Next
  <2>7. ~Oops(p)
    BY NothingUndefined DEF Oops, SharedInv
  <2> QED
    BY <1>2, <2>1, <2>2, <2>3, <2>4, <2>5, <2>6, <2>7, OthersUnseen DEF ActsOn, Call, Step
<1> QED BY <1>1, <1>2 DEF Next, ActsOn

(* A device that was set up implements one shared array of bytes, whatever   *)
(* its sizes, the lengths of the transfers and the number of processes.      *)
THEOREM DeviceIsSharedBytes ==
  ASSUME Ready
  PROVE  Spec => ImplementsSharedBytes
<1>1. Init => Shared!Init
  <2> SUFFICES ASSUME Init PROVE Shared!Init
    OBVIOUS
  <2>1. StoredBytes = Shared!Blank /\ dev.size = 0
    BY DEF Init, Ready, Configured, StoredBytes, ByteAt, Empty, Shared!Blank
  <2>2. OpenFiles = [p \in Procs |-> Shared!Closed]
    BY DEF Init, OpenFiles, Opening, Closed, Shared!Closed
  <2> QED BY <2>1, <2>2 DEF Init, Shared!Init
<1>2. Spec => []SharedInv
  BY SharedInit, SharedStep, PTL DEF Spec
<1>3. SharedInv /\ SharedInv' /\ [Next]_vars => [Shared!Next]_Shared!vars
  BY RefinementStep
<1> QED BY <1>1, <1>2, <1>3, PTL DEF Spec, ImplementsSharedBytes, Shared!Spec
-----------------------------------------------------------------------------
(* What is stored changes only under the semaphore: all of it when a file    *)
(* is opened write-only, and otherwise within the range of one process's     *)
(* write, also when its copy faults.                                         *)
StoresInRange ==
  \A o \in 0..MaxPos - 1 : StoredBytes'[o] # StoredBytes[o] =>
    \E p \in Procs :
      /\ \A q \in Procs : Holds(q) <=> q = p
      /\ \/ pc[p] = "trim" /\ file[p].mode = "O_WRONLY"
         \/ /\ pc[p] = "write_copy" /\ file[p].mode \in {"O_WRONLY", "O_RDWR"}
            /\ o \in file[p].pos..file[p].pos + frame[p].len - 1

LEMMA StoresInRangeStep ==
  ASSUME SharedInv, SharedInv', [Next]_vars
  PROVE  StoresInRange
<1> SUFFICES ASSUME NEW o \in 0..MaxPos - 1, StoredBytes'[o] # StoredBytes[o]
             PROVE  \E p \in Procs :
                      /\ \A q \in Procs : Holds(q) <=> q = p
                      /\ \/ pc[p] = "trim" /\ file[p].mode = "O_WRONLY"
                         \/ /\ pc[p] = "write_copy" /\ file[p].mode \in {"O_WRONLY", "O_RDWR"}
                            /\ o \in file[p].pos..file[p].pos + frame[p].len - 1
  BY DEF StoresInRange
<1>1. ~UNCHANGED vars
  BY BytesStay DEF vars, storage
<1>2. PICK p \in Procs : ActsOn(p)
  BY <1>1 DEF Next, ActsOn
<1>3. ASSUME Holds(p) PROVE \A q \in Procs : Holds(q) <=> q = p
  BY <1>3 DEF SharedInv, StorageInv, SemInv, MutualExclusion
<1>4. o \in DOMAIN StoredBytes
  BY DEF StoredBytes
<1>5. CASE Trim(p)
  <2>1. pc[p] = "trim" /\ Holds(p) /\ file[p].mode = "O_WRONLY"
    BY <1>5 DEF Trim, Holds, Critical, SharedInv, CallsWell, CallWell, Opening
  <2> QED BY <1>3, <2>1
<1>6. CASE WriteCopy(p) \/ WriteFault(p)
  <2>1. pc[p] = "write_copy" /\ Holds(p) /\ file[p].mode \in {"O_WRONLY", "O_RDWR"}
    BY <1>6 DEF WriteCopy, WriteFault, Holds, Critical, SharedInv, CallsWell, CallWell, Writing
  <2>2. file[p].pos \in Nat /\ frame[p].len \in Nat /\ OpenFiles[p] = file[p]
    BY <2>1 DEF SharedInv, StorageInv, SemInv, TypeOK, OpenFiles, Opening
  <2>3. CASE WriteCopy(p)
    <3>1. StoredBytes'[o] = IF o \in file[p].pos..(file[p].pos + frame[p].len) - 1
                            THEN frame[p].val ELSE StoredBytes[o]
      BY <1>4, <2>2, <2>3, WriteSeen DEF Shared!Write, Shared!Stored
    <3> QED BY <1>3, <2>1, <2>2, <3>1
  <2>4. CASE WriteFault(p)
    <3>1. PICK n, m \in 0..MaxPos :
                 n <= frame[p].len /\ Shared!WriteFails(p, n, m, frame[p].val)
      BY <2>4, FaultSeen
    <3>2. /\ StoredBytes'[o] = IF o \in file[p].pos..file[p].pos + m - 1 THEN frame[p].val
                               ELSE IF o \in file[p].pos + m..file[p].pos + n - 1 THEN Junk
                               ELSE StoredBytes[o]
          /\ m <= n
      BY <1>4, <2>2, <3>1 DEF Shared!WriteFails
    <3>3. o \in file[p].pos..file[p].pos + frame[p].len - 1
      BY <2>2, <3>1, <3>2, ChardevAssumption
    <3> QED BY <1>3, <2>1, <3>3
  <2> QED BY <1>6, <2>3, <2>4
<1>7. CASE quanta' = quanta
  BY <1>2, <1>7, SizesAlways, BytesStay
<1>8. CASE WriteFound(p)
  BY <1>8, FoundUnseen
<1>9. quanta' = quanta \/ Trim(p) \/ WriteCopy(p) \/ WriteFault(p) \/ WriteFound(p)
  BY <1>2 DEF ActsOn, Call, Step, storage, Open, Release, ReadEnter, WriteEnter, Down, Interrupted,
              ReadEof, ReadHole, ReadFound, ReadCopy, WriteNoMem, Up, Oops
<1> QED BY <1>5, <1>6, <1>7, <1>8, <1>9

(* No step outside a trim or a write of the one process inside the device    *)
(* changes what is stored, and none outside the range written.               *)
THEOREM StoresStayInRange ==
  ASSUME Ready
  PROVE  Spec => [][StoresInRange]_vars
<1>1. Spec => []SharedInv
  BY SharedInit, SharedStep, PTL DEF Spec
<1>2. SharedInv /\ SharedInv' /\ [Next]_vars => StoresInRange
  BY StoresInRangeStep
<1> QED BY <1>1, <1>2, PTL DEF Spec

-----------------------------------------------------------------------------
(* The device as the module leaves it: a count of zero and a wait list that  *)
(* nobody initialised.  No call comes past down_interruptible, nothing is    *)
(* ever stored and nothing delivered.                                        *)
Inert ==
  /\ dev.sem = 0 /\ ~dev.semInit
  /\ list = 0 /\ arrays = Empty /\ quanta = Empty
  /\ \A p \in Procs : pc[p] \notin Critical /\ got[p] = << >>

LEMMA InertStep == TypeOK /\ Inert /\ [Next]_vars => Inert'
<1> SUFFICES ASSUME TypeOK, Inert, [Next]_vars PROVE Inert'
  OBVIOUS
<1>1. CASE UNCHANGED vars
  BY <1>1 DEF vars, storage, Inert
<1>2. ASSUME NEW p \in Procs, ActsOn(p) PROVE Inert'
  <2>1. ~Down(p) /\ ~Interrupted(p) /\ ~Step(p)
    BY DEF Inert, Down, Interrupted, Step, Critical, Trim, ReadEof, ReadHole, ReadFound, ReadCopy,
           WriteNoMem, WriteFound, WriteCopy, WriteFault, Up
  <2>2. /\ dev' = dev /\ UNCHANGED storage /\ got' = got
        /\ pc'[p] \notin Critical
    BY <1>2, <2>1 DEF ActsOn, Call, Open, Release, ReadEnter, WriteEnter, Oops, Enter, Goto,
                      Inert, TypeOK, Critical
  <2>3. \A q \in Procs : q # p => pc'[q] = pc[q]
    BY <1>2, OthersUntouched
  <2> QED BY <2>2, <2>3 DEF Inert, storage
<1> QED BY <1>1, <1>2 DEF Next, ActsOn

(* If nothing sets the struct device_dev up, the device never serves a call  *)
(* that uses its storage: whoever reads, writes or opens it write-only dies. *)
THEOREM ZeroedNeverServes ==
  ASSUME \A c \in Contents : c.sem = 0 /\ ~c.semInit
  PROVE  Spec => []Inert
<1>1. Init => Inert
  BY DEF Init, Inert, Critical
<1> QED BY <1>1, InertStep, TypeCorrect, PTL DEF Spec
-----------------------------------------------------------------------------
(* How far a call is from its return.                                        *)
Ahead(l) ==
  IF l \in DOMAIN AfterDown THEN 4
  ELSE IF l \in {"read_seek", "write_seek"} THEN 3
  ELSE IF l \in {"trim", "read_copy", "write_copy"} THEN 2
  ELSE IF l = "out" THEN 1 ELSE 0

(* A call goes forward or stays, and every step is a step of one call: no    *)
(* error path leads back.                                                    *)
CallsAdvance ==
  /\ \A p \in Procs : pc[p] # "user" => pc'[p] = pc[p] \/ Ahead(pc'[p]) < Ahead(pc[p])
  /\ \A p, q \in Procs : pc'[p] # pc[p] /\ pc'[q] # pc[q] => p = q

(* A semaphore that is taken is held by a call that is on its way out.       *)
HolderAtWork == dev.sem = 0 => \E p \in Procs : pc[p] \in Critical

LEMMA CallsAdvanceStep ==
  ASSUME TypeOK, NoOops', [Next]_vars
  PROVE  CallsAdvance
<1>1. CASE UNCHANGED vars
  BY <1>1 DEF vars, CallsAdvance
<1>2. ASSUME NEW p \in Procs, ActsOn(p) PROVE CallsAdvance
  <2>1. \A q \in Procs : q # p => pc'[q] = pc[q]
    BY <1>2, OthersUntouched
  <2>2. ASSUME pc[p] # "user" PROVE Ahead(pc'[p]) < Ahead(pc[p])
    <3> USE DEF TypeOK, Enter, Return, Goto, Ahead, AfterDown
    <3>1. ~Call(p)
      BY <2>2 DEF Call, Open, Release, ReadEnter, WriteEnter
    <3>2. ~Oops(p)
      BY DEF Oops, NoOops
    <3>3. CASE Down(p) \/ Interrupted(p)
      BY <3>3 DEF Down, Interrupted
    <3>4. CASE ReadEof(p) \/ ReadHole(p) \/ ReadFound(p) \/ ReadCopy(p)
      BY <3>4 DEF ReadEof, ReadHole, ReadFound, ReadCopy
    <3>5. CASE WriteNoMem(p) \/ WriteFound(p) \/ WriteCopy(p) \/ WriteFault(p)
      BY <3>5 DEF WriteNoMem, WriteFound, WriteCopy, WriteFault
    <3>6. CASE Trim(p) \/ Up(p)
      BY <3>6 DEF Trim, Up
    <3> QED BY <1>2, <3>1, <3>2, <3>3, <3>4, <3>5, <3>6 DEF ActsOn, Step
  <2> QED BY <2>1, <2>2 DEF CallsAdvance
<1> QED BY <1>1, <1>2 DEF Next, ActsOn

(* What CallsReturn needs besides scheduling, on a device that was set up:   *)
(* each step of a call brings it nearer to its return, and whoever waits     *)
(* waits for a call that does not wait itself.                               *)
THEOREM CallsComeToReturn ==
  ASSUME Ready
  PROVE  Spec => [][CallsAdvance]_vars /\ []HolderAtWork
<1>1. StorageInv /\ StorageInv' /\ [Next]_vars => CallsAdvance
  BY CallsAdvanceStep DEF StorageInv, SemInv
<1>2. StorageInv => HolderAtWork
  BY DEF StorageInv, SemInv, MutualExclusion, Holds, NoOops, HolderAtWork
<1> QED BY <1>1, <1>2, StorageInvariant, PTL DEF Spec
-----------------------------------------------------------------------------
(* A device of another array size.  Its first trim makes the size smaller,   *)
(* and calls that came in before go on with the larger one.                  *)
LEMMA DeadHolds ==
  ASSUME SemInv, NEW d \in Procs, pc[d] = "oops", NEW p \in Procs, ActsOn(p)
  PROVE  Call(p) \/ Interrupted(p)
<1>1. dev.sem = 0 /\ \A q \in Procs : Holds(q) => q = d
  BY DEF SemInv, MutualExclusion, Holds
<1>2. p # d
  BY DEF ActsOn, Call, Open, Release, ReadEnter, WriteEnter, Down, Interrupted, AfterDown, Step,
         Trim, ReadEof, ReadHole, ReadFound, ReadCopy, WriteNoMem, WriteFound, WriteCopy,
         WriteFault, Up, Oops, Undefined, Seeking
<1>3. ~Holds(p)
  BY <1>1, <1>2
<1>4. ~Step(p)
  BY <1>3 DEF Step, Trim, ReadEof, ReadHole, ReadFound, ReadCopy, WriteNoMem, WriteFound,
              WriteCopy, WriteFault, Up, Holds, Critical
<1>5. ~Oops(p)
  BY <1>3 DEF SemInv, Oops, Undefined, Seeking, Holds, Critical
<1>6. ~Down(p)
  BY <1>1 DEF Down
<1> QED BY <1>4, <1>5, <1>6 DEF ActsOn

(* Whatever sizes the device has, if its semaphore was initialised: a        *)
(* process that dies holding it stops the device for good.                   *)
THEOREM DeadDeviceFreezes ==
  ASSUME \A c \in Contents : Usable(c)
  PROVE  Spec => DeadFreezes
<1> DEFINE Frozen == /\ UNCHANGED <<dev, storage, got>>
                     /\ \A q \in Procs : pc[q] \in DOMAIN AfterDown => pc'[q] \in {pc[q], "user"}
<1>1. SemInv /\ [Next]_vars => [(\E p \in Procs : pc[p] = "oops") => Frozen]_vars
  <2> SUFFICES ASSUME SemInv, NEW d \in Procs, pc[d] = "oops", NEW p \in Procs, ActsOn(p)
               PROVE  Frozen
    BY DEF Next, ActsOn
  <2>t. TypeOK /\ pc \in [Procs -> Labels]
    BY DEF SemInv, TypeOK
  <2>o. \A q \in Procs : q # p => pc'[q] = pc[q]
    BY <2>t, OthersUntouched
  <2>1. CASE Call(p)
    <3>1. pc[p] = "user" /\ UNCHANGED <<dev, storage, got>>
      BY <2>1 DEF Call, Open, Release, ReadEnter, WriteEnter
    <3> QED BY <2>o, <3>1 DEF AfterDown
  <2>2. CASE Interrupted(p)
    <3>1. pc'[p] = "user" /\ UNCHANGED <<dev, storage, got>>
      BY <2>2, <2>t DEF Interrupted, Enter, Goto
    <3> QED BY <2>o, <3>1
  <2> QED BY <2>1, <2>2, DeadHolds
<1>2. Init => SemInv
  BY InitSemInv
<1> QED BY <1>1, <1>2, StepSemInv, PTL DEF Spec, DeadFreezes

(* What a call knows of the sizes it copied: they were large enough and may  *)
(* have become larger than the device's, for the dead they have.             *)
Copied(p) ==
  /\ pc[p] \in {"read_down", "read_seek", "read_copy", "write_down", "write_seek", "write_copy"}
       => Transferring(p)
  /\ Transferring(p) => frame[p].quantum > 0 /\ frame[p].qset >= dev.qset
  /\ pc[p] = "oops" => frame[p].qset > dev.qset

(* No array is shorter than the current size.                                *)
LongEnough(arr, n) == \A i \in DOMAIN arr : arr[i] >= n

ShrinkInv ==
  /\ TypeOK /\ dev.semInit
  /\ dev.quantum > 0 /\ dev.qset >= DEVICE_QSET
  /\ LongEnough(arrays, dev.qset)
  /\ \A p \in Procs : Copied(p)

LEMMA SizesShrink ==
  ASSUME ShrinkInv, NEW p \in Procs, ActsOn(p)
  PROVE  /\ dev'.quantum = dev.quantum
         /\ dev'.qset = IF Trim(p) THEN DEVICE_QSET ELSE dev.qset
<1>t. dev \in ContentType
  BY DEF ShrinkInv, TypeOK
<1>1. CASE Trim(p)
  BY <1>1, <1>t DEF Trim, ContentType
<1>2. CASE ~Trim(p)
  <2>1. CASE Call(p) \/ Down(p) \/ Interrupted(p) \/ Oops(p)
    BY <1>2, <2>1, <1>t DEF Call, Open, Release, ReadEnter, WriteEnter, Down, Interrupted, Oops,
                            ContentType
  <2>2. CASE Step(p)
    BY <1>2, <2>2, <1>t DEF Step, ReadEof, ReadHole, ReadFound, ReadCopy, WriteNoMem, WriteFound,
                            WriteCopy, WriteFault, Up, ContentType
  <2> QED BY <2>1, <2>2 DEF ActsOn
<1> QED BY <1>1, <1>2

(* Only a stale call's step is undefined.                                    *)
LEMMA StaleUndefined ==
  ASSUME ShrinkInv, DEVICE_QSET > 0, NEW p \in Procs, Undefined(p)
  PROVE  frame[p].qset > dev.qset
<1>t. /\ dev \in ContentType /\ frame[p] \in FrameType /\ file[p].pos \in Nat
      /\ dev.qset \in Nat /\ dev.qset > 0 /\ DEVICE_QSET \in Nat
      /\ frame[p].quantum \in Nat /\ frame[p].qset \in Nat
  BY ChardevAssumption DEF ShrinkInv, TypeOK, FrameType, ContentType
<1>a. DOMAIN arrays \subseteq Nat /\ \A i \in DOMAIN arrays : arrays[i] \in Nat /\ arrays[i] >= dev.qset
  BY DEF ShrinkInv, TypeOK, LongEnough
<1>1. Seeking(p)
  <2>1. ~(pc[p] \in DOMAIN AfterDown /\ dev.sem = 0 /\ ~dev.semInit)
    BY DEF ShrinkInv
  <2>2. \A i \in DOMAIN arrays : ~(arrays[i] < dev.qset)
    BY <1>t, <1>a
  <2> QED BY <2>1, <2>2 DEF Undefined
<1>2. frame[p].quantum > 0 /\ frame[p].qset >= dev.qset
  BY <1>1 DEF ShrinkInv, Copied, Seeking
<1>3. ItemSize(frame[p]) > 0
  <2>1. frame[p].quantum \in Nat \ {0} /\ frame[p].qset \in Nat \ {0}
    BY <1>t, <1>2
  <2>2. frame[p].quantum * frame[p].qset > 0
    BY <2>1, SMT
  <2> QED BY <2>2 DEF ItemSize
<1>4. Beyond(p)
  BY <1>1, <1>3, <1>t DEF Undefined, ShrinkInv, Seeking, AfterDown
<1>5. SPos(frame[p], file[p].pos) \in 0..frame[p].qset - 1
  BY <1>3, <1>t, Geometry
<1>6. /\ MySlot(p)[2] = SPos(frame[p], file[p].pos)
      /\ MySlot(p)[2] >= arrays[MyItem(p)] /\ MyItem(p) \in DOMAIN arrays
  BY <1>4 DEF Beyond, MySlot, Slot
<1> QED BY <1>5, <1>6, <1>a, <1>t

(* An array is taken over or made, and made by a local that is not smaller   *)
(* than the size at that time.                                               *)
LEMMA ArraysLongEnough ==
  ASSUME ShrinkInv, DEVICE_QSET > 0, NEW p \in Procs, ActsOn(p)
  PROVE  LongEnough(arrays', dev'.qset)
<1>t. /\ LongEnough(arrays, dev.qset) /\ DEVICE_QSET \in Nat
      /\ dev'.qset = IF Trim(p) THEN DEVICE_QSET ELSE dev.qset
  BY SizesShrink, ChardevAssumption DEF ShrinkInv
<1>1. CASE Trim(p)
  BY <1>1, <1>t DEF Trim, Empty, LongEnough
<1>2. ASSUME ~Trim(p), arrays' = arrays PROVE LongEnough(arrays', dev'.qset)
  BY <1>2, <1>t
<1>3. ASSUME ~Trim(p), arrays' = WithArray(p), pc[p] = "write_seek"
      PROVE  LongEnough(arrays', dev'.qset)
  <2>1. frame[p].qset >= dev.qset
    BY <1>3 DEF ShrinkInv, Copied
  <2> QED BY <1>3, <1>t, <2>1 DEF WithArray, Put, LongEnough
<1>4. CASE Call(p) \/ Down(p) \/ Interrupted(p) \/ Oops(p)
  BY <1>1, <1>2, <1>4 DEF Call, Open, Release, ReadEnter, WriteEnter, Down, Interrupted, Oops,
                          storage
<1>5. CASE ReadEof(p) \/ ReadHole(p) \/ ReadFound(p) \/ ReadCopy(p) \/ WriteCopy(p)
           \/ WriteFault(p) \/ Up(p)
  BY <1>1, <1>2, <1>5 DEF ReadEof, ReadHole, ReadFound, ReadCopy, WriteCopy, WriteFault, Up, storage
<1>6. CASE WriteNoMem(p) \/ WriteFound(p)
  BY <1>1, <1>2, <1>3, <1>6 DEF WriteNoMem, WriteFound
<1> QED BY <1>1, <1>4, <1>5, <1>6 DEF ActsOn, Step

LEMMA CopiedStep ==
  ASSUME ShrinkInv, DEVICE_QSET > 0, NEW p \in Procs, ActsOn(p), NEW q \in Procs
  PROVE  Copied(q)'
<1>t. /\ TypeOK /\ pc \in [Procs -> Labels] /\ frame \in [Procs -> FrameType]
      /\ dev.qset \in Nat /\ DEVICE_QSET \in Nat /\ Copied(p) /\ Copied(q)
      /\ frame[q].qset \in Nat
  BY ChardevAssumption DEF ShrinkInv, TypeOK, FrameType, ContentType
<1>s. dev'.qset \in Nat /\ dev'.qset <= dev.qset
  BY <1>t, SizesShrink DEF ShrinkInv
<1>o. CASE q # p
  <2>1. pc'[q] = pc[q] /\ frame'[q] = frame[q]
    BY <1>o, <1>t, OthersUntouched
  <2> QED BY <2>1, <1>s, <1>t DEF Copied, Transferring
<1>q. CASE q = p
  <2>1. CASE \E mode \in Modes : Open(p, mode)
    BY <1>q, <2>1, <1>t, <1>s DEF Open, Enter, Goto, Copied, Transferring, NoFrame, FrameType
  <2>2. CASE Release(p)
    BY <1>q, <2>2, <1>t, <1>s DEF Release, Copied, Transferring
  <2>3. CASE (\E len \in Lens : ReadEnter(p, len))
             \/ (\E len \in Lens, val \in Values : WriteEnter(p, len, val))
    BY <1>q, <2>3, <1>t, <1>s DEF ShrinkInv, ReadEnter, WriteEnter, Locals, Enter, Goto, Copied,
                                  Transferring
  <2>4. CASE Down(p)
    BY <1>q, <2>4, <1>t, <1>s DEF Down, AfterDown, Goto, Copied, Transferring
  <2>5. CASE Interrupted(p) \/ Up(p)
    BY <1>q, <2>5, <1>t, <1>s DEF Interrupted, Up, Enter, Goto, NoFrame, Copied, Transferring
  <2>6. CASE Oops(p)
    <3>1. frame[p].qset > dev.qset
      BY <2>6, StaleUndefined DEF Oops
    <3> QED BY <1>q, <2>6, <3>1, <1>t, <1>s DEF Oops, Copied, Transferring
  <2>f. ASSUME NEW r, Return(p, r)
        PROVE  /\ pc'[p] = "out"
               /\ frame'[p].op = frame[p].op /\ frame'[p].quantum = frame[p].quantum
               /\ frame'[p].qset = frame[p].qset
    BY <2>f, <1>t DEF Return, Goto, FrameType
  <2>g. ASSUME /\ frame'[p].op = frame[p].op /\ frame'[p].quantum = frame[p].quantum
               /\ frame'[p].qset = frame[p].qset
               /\ \/ pc'[p] = "out"
                  \/ pc'[p] = "read_copy" /\ pc[p] = "read_seek"
                  \/ pc'[p] = "write_copy" /\ pc[p] = "write_seek"
        PROVE  Copied(q)'
    BY <1>q, <2>g, <1>t, <1>s DEF Copied, Transferring
  <2>7. CASE Trim(p) \/ ReadEof(p) \/ ReadHole(p) \/ ReadCopy(p) \/ WriteCopy(p) \/ WriteFault(p)
    <3>1. \E r : Return(p, r)
      BY <2>7 DEF Trim, ReadEof, ReadHole, ReadCopy, WriteCopy, WriteFault
    <3> QED BY <3>1, <2>f, <2>g
  <2>8. CASE ReadFound(p)
    <3>1. frame'[p].op = frame[p].op /\ frame'[p].quantum = frame[p].quantum
          /\ frame'[p].qset = frame[p].qset
      BY <2>8, <1>t DEF ReadFound, FrameType
    <3>2. pc'[p] = "read_copy" /\ pc[p] = "read_seek"
      BY <2>8, <1>t DEF ReadFound, Goto
    <3> QED BY <3>1, <3>2, <2>g
  <2>9. CASE WriteFound(p) \/ WriteNoMem(p)
    <3>1. frame'[p].op = frame[p].op /\ frame'[p].quantum = frame[p].quantum
          /\ frame'[p].qset = frame[p].qset
      BY <2>9, <1>t DEF WriteFound, WriteNoMem, FrameType
    <3>2. pc'[p] = "out" \/ (pc'[p] = "write_copy" /\ pc[p] = "write_seek")
      BY <2>9, <1>t DEF WriteFound, WriteNoMem, Goto
    <3> QED BY <3>1, <3>2, <2>g
  <2> QED BY <2>1, <2>2, <2>3, <2>4, <2>5, <2>6, <2>7, <2>8, <2>9 DEF ActsOn, Call, Step
<1> QED BY <1>o, <1>q

LEMMA StepShrinkInv ==
  ASSUME DEVICE_QSET > 0
  PROVE  ShrinkInv /\ [Next]_vars => ShrinkInv'
<1> SUFFICES ASSUME ShrinkInv, [Next]_vars PROVE ShrinkInv'
  OBVIOUS
<1>0. TypeOK /\ TypeOK'
  BY StepTypeOK DEF ShrinkInv
<1>1. CASE UNCHANGED vars
  BY <1>0, <1>1 DEF ShrinkInv, Copied, Transferring, vars, storage
<1>2. ASSUME NEW p \in Procs, ActsOn(p) PROVE ShrinkInv'
  <2>1. dev'.semInit
    BY <1>0, <1>2, SemaphoreStep DEF ShrinkInv
  <2>2. dev'.quantum > 0 /\ dev'.qset >= DEVICE_QSET
    BY <1>2, SizesShrink, ChardevAssumption DEF ShrinkInv
  <2>3. LongEnough(arrays', dev'.qset)
    BY <1>2, ArraysLongEnough
  <2>4. \A q \in Procs : Copied(q)'
    BY <1>2, CopiedStep
  <2> QED BY <1>0, <2>1, <2>2, <2>3, <2>4 DEF ShrinkInv, LongEnough
<1> QED BY <1>1, <1>2 DEF Next, ActsOn

(* On a device set up with an array size not below the build's, for every    *)
(* set of processes and every length: whoever dies had copied qset before a  *)
(* trim made it smaller.                                                     *)
THEOREM OnlyStaleCallsFault ==
  ASSUME DEVICE_QSET > 0, \A c \in Contents : Configured(c) /\ c.qset >= DEVICE_QSET
  PROVE  Spec => []OnlyStaleFaults
<1>1. Init => ShrinkInv
  <2> SUFFICES ASSUME Init PROVE ShrinkInv
    OBVIOUS
  <2>1. TypeOK /\ dev.semInit /\ dev.quantum > 0 /\ dev.qset >= DEVICE_QSET
    BY InitTypeOK DEF Init, Configured, Usable
  <2>2. LongEnough(arrays, dev.qset)
    BY DEF Init, Empty, LongEnough
  <2>3. ASSUME NEW p \in Procs PROVE Copied(p)
    <3>1. frame[p].op = "none" /\ pc[p] = "user"
      BY DEF Init, NoFrame
    <3> QED BY <3>1 DEF Copied, Transferring
  <2> QED BY <2>1, <2>2, <2>3 DEF ShrinkInv
<1>2. ShrinkInv => OnlyStaleFaults
  <2> SUFFICES ASSUME ShrinkInv, NEW p \in Procs, pc[p] = "oops"
               PROVE  frame[p].qset # dev.qset
    BY DEF OnlyStaleFaults
  <2>1. dev.qset \in Nat /\ frame[p].qset \in Nat
    BY DEF ShrinkInv, TypeOK, ContentType
  <2> QED BY <2>1 DEF ShrinkInv, Copied
<1>3. ShrinkInv /\ [Next]_vars => ShrinkInv'
  BY StepShrinkInv
<1> QED BY <1>1, <1>2, <1>3, PTL DEF Spec
=============================================================================
