---------------------------- MODULE RwFileOpsProofs ----------------------------
(***************************************************************************)
(* Proofs about RwFileOps, for any number of processes, blocks and bytes and *)
(* whichever allocations fail: types however the processes overlap, and that *)
(* a process nobody overlaps gets a sound block, reads back what it wrote    *)
(* and loses nothing, whatever overlaps there were before it.                *)
(***************************************************************************)
EXTENDS RwFileOps, TLAPS

LEMMA CellFacts == mem_size \in Nat \ {0} /\ mem_size + 1 \in 1..mem_size + 1 /\ 1 \in Cells
  BY RwAssumption DEF Cells

LEMMA BlankFacts ==
  /\ Blank \in [Cells -> Values \cup {Junk}]
  /\ NoCopy \in [ptr : Blocks \cup {NULL}, at : 1..mem_size + 1]
  /\ NoWord \in [val : Values \cup {Junk}, len : 0..mem_size]
  BY CellFacts DEF Blank, NoCopy, NoWord

LEMMA RwTypeInit == RwInit => RwTypeOK
  BY BlankFacts DEF RwInit, RwTypeOK

LEMMA RwTypeStep == RwTypeOK /\ [RwNext]_rwVars => RwTypeOK'
<1> SUFFICES ASSUME RwTypeOK, [RwNext]_rwVars PROVE RwTypeOK'
    OBVIOUS
<1> USE DEF RwTypeOK, RwGoto
<1>1. ASSUME NEW p \in Procs, OpenAlloc(p) PROVE RwTypeOK'
  <2>1. CASE \E b \in Blocks \ used :
               /\ used' = used \cup {b} /\ mem' = [mem EXCEPT ![b] = Blank]
               /\ kernel_buffer' = b /\ own' = [own EXCEPT ![p] = b]
    <3>1. PICK b \in Blocks \ used :
            /\ used' = used \cup {b} /\ mem' = [mem EXCEPT ![b] = Blank]
            /\ kernel_buffer' = b /\ own' = [own EXCEPT ![p] = b]
          BY <2>1
    <3>2. mem' \in [Blocks -> [Cells -> Values \cup {Junk}]]
          BY <3>1, BlankFacts
    <3> QED
        BY <1>1, <3>1, <3>2 DEF OpenAlloc
  <2>2. CASE kernel_buffer' = NULL /\ UNCHANGED <<used, mem, own>>
        BY <1>1, <2>2 DEF OpenAlloc
  <2> QED
      BY <1>1, <2>1, <2>2 DEF OpenAlloc
<1>2. ASSUME NEW p \in Procs, OpenTest(p) PROVE RwTypeOK'
      BY <1>2 DEF OpenTest
<1>3. ASSUME NEW p \in Procs, NEW val \in Values, NEW len \in Cells, Write(p, val, len)
      PROVE  RwTypeOK'
  <2>1. [val |-> val, len |-> len] \in [val : Values \cup {Junk}, len : 0..mem_size]
        BY CellFacts DEF Cells
  <2>2. [ptr |-> kernel_buffer, at |-> 1] \in [ptr : Blocks \cup {NULL}, at : 1..mem_size + 1]
        BY CellFacts DEF Cells
  <2> QED
      BY <1>3, <2>1, <2>2 DEF Write, StartCopy
<1>4. ASSUME NEW p \in Procs, WriteCell(p) PROVE RwTypeOK'
  <2>1. /\ frame[p].at \in Cells /\ frame[p].at + 1 \in 1..mem_size + 1 /\ frame[p].ptr \in Blocks
        /\ word[p].val \in Values \cup {Junk}
        BY <1>4, CellFacts DEF WriteCell, Cells
  <2> QED
      BY <1>4, <2>1 DEF WriteCell, NextCell
<1>5. ASSUME NEW p \in Procs, WriteDone(p) \/ ReadDone(p) PROVE RwTypeOK'
  <2>1. frame' = [frame EXCEPT ![p] = NoCopy]
        BY <1>5 DEF WriteDone, ReadDone
  <2>2. frame' \in [Procs -> [ptr : Blocks \cup {NULL}, at : 1..mem_size + 1]]
        BY <2>1, BlankFacts
  <2> QED
      BY <1>5, <2>2 DEF WriteDone, ReadDone
<1>6. ASSUME NEW p \in Procs, Read(p) PROVE RwTypeOK'
  <2>1. [ptr |-> kernel_buffer, at |-> 1] \in [ptr : Blocks \cup {NULL}, at : 1..mem_size + 1]
        BY CellFacts DEF Cells
  <2> QED
      BY <1>6, <2>1 DEF Read, StartCopy
<1>7. ASSUME NEW p \in Procs, ReadCell(p) PROVE RwTypeOK'
  <2>1. /\ frame[p].at \in Cells /\ frame[p].at + 1 \in 1..mem_size + 1
        /\ frame[p].ptr \in Blocks
        BY <1>7, CellFacts DEF ReadCell, Cells
  <2>2. mem[frame[p].ptr][frame[p].at] \in Values \cup {Junk}
        BY <2>1
  <2> QED
      BY <1>7, <2>1, <2>2 DEF ReadCell, NextCell
<1>8. ASSUME NEW p \in Procs, Release(p) PROVE RwTypeOK'
      BY <1>8, BlankFacts DEF Release
<1>9. CASE UNCHANGED rwVars
      BY <1>9 DEF rwVars
<1> QED
    BY <1>1, <1>2, <1>3, <1>4, <1>5, <1>6, <1>7, <1>8, <1>9 DEF RwNext

(* Pointer, blocks, copies and buffers keep to their values, however many   *)
(* processes use the driver at once.                                        *)
THEOREM RwTypeCorrect == RwSpec => []RwTypeOK
  BY RwTypeInit, RwTypeStep, PTL DEF RwSpec

-----------------------------------------------------------------------------
HasOpen == {"opened", "writing", "written", "reading", "print"}

(* A process at its start has no block, whatever became of the last.         *)
Rest == \A p \in Procs : rw_pc[p] = "start" => own[p] = NULL

(* Who is alone is at work, and all others are at their start.               *)
SoleUse ==
  alone # NULL => rw_pc[alone] # "start" /\ \A q \in Procs : q # alone => rw_pc[q] = "start"

(* The global is its block, as is the target of its copy.                    *)
Pointers ==
  alone # NULL =>
    /\ kernel_buffer = own[alone] /\ own[alone] \in used \cup {NULL}
    /\ rw_pc[alone] \in HasOpen => own[alone] # NULL
    /\ rw_pc[alone] \in {"writing", "reading"} => frame[alone].ptr = own[alone]

(* How much of its word is in the block, and of the block in its buffer.     *)
Stored ==
  alone # NULL => \A i \in Cells :
    /\ rw_pc[alone] = "writing" /\ i < frame[alone].at => mem[own[alone]][i] = word[alone].val
    /\ rw_pc[alone] \in {"written", "reading"} /\ i <= word[alone].len =>
         mem[own[alone]][i] = word[alone].val
    /\ rw_pc[alone] = "reading" /\ i < frame[alone].at /\ i <= word[alone].len =>
         read_buf[alone][i] = word[alone].val
    /\ rw_pc[alone] = "print" /\ i <= word[alone].len => read_buf[alone][i] = word[alone].val

AloneInv == RwTypeOK /\ Rest /\ SoleUse /\ Pointers /\ Stored

LEMMA AloneInvInit == RwInit => AloneInv
  BY RwTypeInit DEF RwInit, AloneInv, Rest, SoleUse, Pointers, Stored

(* A process at work is the one that is alone, or nobody is.                *)
LEMMA WhoActs ==
  ASSUME AloneInv, NEW p \in Procs, rw_pc[p] # "start"
  PROVE  alone = p \/ alone = NULL
  BY DEF AloneInv, SoleUse

(* When nobody is alone after a step, there is little to show.              *)
LEMMA NobodyAlone ==
  ASSUME AloneInv, RwTypeOK', alone' = NULL, NEW p \in Procs, NEW l, RwGoto(p, l),
         \/ own' = own /\ l # "start"
         \/ own' = [own EXCEPT ![p] = NULL]
  PROVE  AloneInv'
<1>1. Rest'
  <2> SUFFICES ASSUME NEW q \in Procs, rw_pc'[q] = "start" PROVE own'[q] = NULL
      BY DEF Rest
  <2>1. q # p => rw_pc[q] = "start"
        BY DEF RwGoto, AloneInv, RwTypeOK
  <2>2. q # p => own'[q] = own[q]
        BY DEF AloneInv, RwTypeOK
  <2>3. q = p => own'[q] = NULL
        BY DEF RwGoto, AloneInv, RwTypeOK
  <2> QED
      BY <2>1, <2>2, <2>3 DEF AloneInv, Rest
<1> QED
    BY <1>1 DEF AloneInv, SoleUse, Pointers, Stored

LEMMA OpenAllocStep ==
  ASSUME AloneInv, RwTypeOK', NEW p \in Procs, OpenAlloc(p)
  PROVE  AloneInv'
<1>1. rw_pc[p] = "start" /\ own[p] = NULL /\ rw_pc'[p] = "opening"
      /\ \A q \in Procs : q # p => rw_pc'[q] = rw_pc[q]
      BY DEF OpenAlloc, RwGoto, AloneInv, RwTypeOK, Rest
<1>2. /\ own'[p] = kernel_buffer' /\ own'[p] \in used' \cup {NULL}
      /\ \A q \in Procs : q # p => own'[q] = own[q]
  <2>1. CASE kernel_buffer' = NULL /\ UNCHANGED <<used, mem, own>>
        BY <1>1, <2>1
  <2>2. ASSUME NEW b \in Blocks \ used, used' = used \cup {b}, kernel_buffer' = b,
               own' = [own EXCEPT ![p] = b]
        PROVE  /\ own'[p] = kernel_buffer' /\ own'[p] \in used' \cup {NULL}
               /\ \A q \in Procs : q # p => own'[q] = own[q]
        BY <2>2 DEF AloneInv, RwTypeOK
  <2>3. \/ kernel_buffer' = NULL /\ UNCHANGED <<used, mem, own>>
        \/ \E b \in Blocks \ used : /\ used' = used \cup {b} /\ kernel_buffer' = b
                                   /\ own' = [own EXCEPT ![p] = b]
        BY DEF OpenAlloc
  <2> QED
      BY <2>1, <2>2, <2>3
<1>3. Rest'
      BY <1>1, <1>2 DEF AloneInv, Rest
<1>4. alone' # NULL => alone' = p /\ \A q \in Procs : rw_pc[q] = "start"
      BY DEF OpenAlloc
<1>5. SoleUse' /\ Pointers' /\ Stored'
      BY <1>1, <1>2, <1>4 DEF SoleUse, Pointers, Stored, HasOpen
<1> QED
    BY <1>3, <1>5 DEF AloneInv

LEMMA OpenTestStep ==
  ASSUME AloneInv, RwTypeOK', NEW p \in Procs, OpenTest(p)
  PROVE  AloneInv'
<1>1. rw_pc[p] = "opening" /\ UNCHANGED <<kernel_buffer, used, mem, frame, word, read_buf>>
      BY DEF OpenTest
<1>2. CASE RwGoto(p, "start") /\ own' = [own EXCEPT ![p] = NULL] /\ alone' = NULL
      BY <1>2, NobodyAlone
<1>3. CASE RwGoto(p, "opened") /\ UNCHANGED <<own, alone>> /\ (own[p] # NULL \/ kernel_buffer # NULL)
  <2>1. CASE alone = NULL
        BY <1>3, <2>1, NobodyAlone
  <2>2. CASE alone = p
    <3>1. rw_pc'[p] = "opened" /\ \A q \in Procs : q # p => rw_pc'[q] = rw_pc[q]
          BY <1>3 DEF RwGoto, AloneInv, RwTypeOK
    <3>2. own[p] # NULL /\ kernel_buffer = own[p] /\ own[p] \in used \cup {NULL} /\ p # NULL
          BY <1>3, <2>2, RwAssumption DEF AloneInv, Pointers
    <3> QED
        BY <1>1, <1>3, <2>2, <3>1, <3>2
        DEF AloneInv, Rest, SoleUse, Pointers, Stored, HasOpen
  <2> QED
      BY <1>1, <2>1, <2>2, WhoActs
<1> QED
    BY <1>2, <1>3 DEF OpenTest

(* The steps of a call that is not alone disturb nothing.                   *)
LEMMA CopyOverlapped ==
  ASSUME AloneInv, RwTypeOK', alone = NULL, NEW p \in Procs, rw_pc[p] # "start",
         NEW l, l # "start", RwGoto(p, l), UNCHANGED <<own, alone>>
  PROVE  AloneInv'
  BY NobodyAlone

(* Those of one that is alone leave pointer and blocks alone: what they do  *)
(* to the bytes remains to be shown.                                         *)
LEMMA CopyAlone ==
  ASSUME AloneInv, RwTypeOK', NEW p \in Procs, alone = p, rw_pc[p] \in HasOpen,
         NEW l \in HasOpen, rw_pc' = [rw_pc EXCEPT ![p] = l],
         UNCHANGED <<kernel_buffer, used, own, alone>>,
         l \in {"writing", "reading"} => frame'[p].ptr = own[p],
         \A i \in Cells :
           /\ l = "writing" /\ i < frame'[p].at => mem'[own[p]][i] = word'[p].val
           /\ l \in {"written", "reading"} /\ i <= word'[p].len => mem'[own[p]][i] = word'[p].val
           /\ l = "reading" /\ i < frame'[p].at /\ i <= word'[p].len =>
                read_buf'[p][i] = word'[p].val
           /\ l = "print" /\ i <= word'[p].len => read_buf'[p][i] = word'[p].val
  PROVE  AloneInv'
<1>1. rw_pc'[p] = l /\ l # "start" /\ \A q \in Procs : q # p => rw_pc'[q] = rw_pc[q]
      BY DEF AloneInv, RwTypeOK, HasOpen
<1>2. p # NULL
      BY RwAssumption
<1>3. Rest' /\ SoleUse'
      BY <1>1, <1>2 DEF AloneInv, Rest, SoleUse
<1>4. Pointers'
      BY <1>1, <1>2 DEF AloneInv, Pointers, HasOpen
<1>5. Stored'
      BY <1>1 DEF Stored
<1> QED
    BY <1>3, <1>4, <1>5 DEF AloneInv

LEMMA WriteStep ==
  ASSUME AloneInv, RwTypeOK', NEW p \in Procs, NEW val \in Values, NEW len \in Cells,
         Write(p, val, len)
  PROVE  AloneInv'
<1>1. /\ rw_pc[p] \in HasOpen /\ RwGoto(p, "writing")
      /\ UNCHANGED <<kernel_buffer, used, own, mem, alone>>
      /\ frame'[p].ptr = kernel_buffer /\ frame'[p].at = 1
      BY DEF Write, HasOpen, StartCopy, AloneInv, RwTypeOK
<1>2. CASE alone = NULL
      BY <1>1, <1>2, CopyOverlapped DEF HasOpen
<1>3. CASE alone = p
  <2>1. kernel_buffer = own[p]
        BY <1>3, RwAssumption DEF AloneInv, Pointers
  <2>2. \A i \in Cells : ~(i < 1)
        BY DEF Cells
  <2> QED
      BY <1>1, <1>3, <2>1, <2>2, CopyAlone DEF HasOpen, RwGoto
<1> QED
    BY <1>1, <1>2, <1>3, WhoActs DEF HasOpen

LEMMA WriteCellStep ==
  ASSUME AloneInv, RwTypeOK', NEW p \in Procs, WriteCell(p)
  PROVE  AloneInv'
<1> DEFINE b == own[p]
           k == frame[p].at
<1>1. /\ rw_pc[p] = "writing" /\ frame' = [frame EXCEPT ![p].at = @ + 1]
      /\ mem' = [mem EXCEPT ![frame[p].ptr][k] = word[p].val]
      /\ UNCHANGED <<kernel_buffer, used, rw_pc, own, word, read_buf, alone>>
      BY DEF WriteCell, NextCell
<1>2. rw_pc' = [rw_pc EXCEPT ![p] = "writing"]
      BY <1>1 DEF AloneInv, RwTypeOK
<1>3. CASE alone = NULL
      BY <1>1, <1>2, <1>3, CopyOverlapped DEF RwGoto
<1>4. CASE alone = p
  <2>1. frame[p].ptr = b /\ b # NULL
        BY <1>1, <1>4, RwAssumption DEF AloneInv, Pointers, HasOpen
  <2>2. k \in Cells /\ b \in Blocks
        BY <1>1, <2>1, RwAssumption DEF WriteCell, Cells, AloneInv, RwTypeOK
  <2>3. frame'[p].at = k + 1 /\ frame'[p].ptr = b
        BY <1>1, <2>1 DEF AloneInv, RwTypeOK
  <2>4. \A i \in Cells : mem'[b][i] = IF i = k THEN word[p].val ELSE mem[b][i]
        BY <1>1, <2>1, <2>2 DEF AloneInv, RwTypeOK
  <2>5. \A i \in Cells : i < k + 1 => i = k \/ i < k
        BY <2>2 DEF Cells
  <2>6. \A i \in Cells : i < k => mem[b][i] = word[p].val
        BY <1>1, <1>4, RwAssumption DEF AloneInv, Stored
  <2>7. \A i \in Cells : i < frame'[p].at => mem'[b][i] = word'[p].val
        BY <1>1, <2>3, <2>4, <2>5, <2>6
  <2> QED
      BY <1>1, <1>2, <1>4, <2>3, <2>7, CopyAlone DEF HasOpen
<1> QED
    BY <1>1, <1>3, <1>4, WhoActs

LEMMA WriteDoneStep ==
  ASSUME AloneInv, RwTypeOK', NEW p \in Procs, WriteDone(p)
  PROVE  AloneInv'
<1>1. /\ rw_pc[p] = "writing" /\ frame[p].at > word[p].len /\ RwGoto(p, "written")
      /\ UNCHANGED <<kernel_buffer, used, mem, own, word, read_buf, alone>>
      BY DEF WriteDone
<1>2. CASE alone = NULL
      BY <1>1, <1>2, CopyOverlapped
<1>3. CASE alone = p
  <2>1. \A i \in Cells : i <= word[p].len => i < frame[p].at
        BY <1>1, RwAssumption DEF Cells, AloneInv, RwTypeOK
  <2>2. \A i \in Cells : i <= word[p].len => mem[own[p]][i] = word[p].val
        BY <1>1, <1>3, <2>1, RwAssumption DEF AloneInv, Stored
  <2> QED
      BY <1>1, <1>3, <2>2, CopyAlone DEF HasOpen, RwGoto
<1> QED
    BY <1>1, <1>2, <1>3, WhoActs

LEMMA ReadStep ==
  ASSUME AloneInv, RwTypeOK', NEW p \in Procs, Read(p)
  PROVE  AloneInv'
<1>1. /\ rw_pc[p] = "written" /\ RwGoto(p, "reading")
      /\ frame'[p].ptr = kernel_buffer /\ frame'[p].at = 1
      /\ UNCHANGED <<kernel_buffer, used, mem, own, word, read_buf, alone>>
      BY DEF Read, StartCopy, AloneInv, RwTypeOK
<1>2. CASE alone = NULL
      BY <1>1, <1>2, CopyOverlapped
<1>3. CASE alone = p
  <2>1. kernel_buffer = own[p]
        BY <1>3, RwAssumption DEF AloneInv, Pointers
  <2>2. \A i \in Cells : ~(i < 1)
        BY DEF Cells
  <2>3. \A i \in Cells : i <= word[p].len => mem[own[p]][i] = word[p].val
        BY <1>1, <1>3, RwAssumption DEF AloneInv, Stored
  <2> QED
      BY <1>1, <1>3, <2>1, <2>2, <2>3, CopyAlone DEF HasOpen, RwGoto
<1> QED
    BY <1>1, <1>2, <1>3, WhoActs

LEMMA ReadCellStep ==
  ASSUME AloneInv, RwTypeOK', NEW p \in Procs, ReadCell(p)
  PROVE  AloneInv'
<1> DEFINE b == own[p]
           k == frame[p].at
<1>1. /\ rw_pc[p] = "reading" /\ k <= mem_size
      /\ read_buf' = [read_buf EXCEPT ![p][k] = mem[frame[p].ptr][k]]
      /\ frame' = [frame EXCEPT ![p].at = @ + 1]
      /\ UNCHANGED <<kernel_buffer, used, mem, rw_pc, own, word, alone>>
      BY DEF ReadCell, NextCell
<1>2. rw_pc' = [rw_pc EXCEPT ![p] = "reading"]
      BY <1>1 DEF AloneInv, RwTypeOK
<1>3. CASE alone = NULL
      BY <1>1, <1>2, <1>3, CopyOverlapped DEF RwGoto
<1>4. CASE alone = p
  <2>1. frame[p].ptr = b
        BY <1>1, <1>4, RwAssumption DEF AloneInv, Pointers
  <2>2. k \in Cells
        BY <1>1, RwAssumption DEF Cells, AloneInv, RwTypeOK
  <2>3. frame'[p].at = k + 1 /\ frame'[p].ptr = b
        BY <1>1, <2>1 DEF AloneInv, RwTypeOK
  <2>4. \A i \in Cells : read_buf'[p][i] = IF i = k THEN mem[b][i] ELSE read_buf[p][i]
        BY <1>1, <2>1, <2>2 DEF AloneInv, RwTypeOK
  <2>5. \A i \in Cells : i < k + 1 => i = k \/ i < k
        BY <2>2 DEF Cells
  <2>6. \A i \in Cells : i <= word[p].len =>
          mem[b][i] = word[p].val /\ (i < k => read_buf[p][i] = word[p].val)
        BY <1>1, <1>4, RwAssumption DEF AloneInv, Stored
  <2>7. \A i \in Cells : i < frame'[p].at /\ i <= word[p].len => read_buf'[p][i] = word[p].val
        BY <2>3, <2>4, <2>5, <2>6
  <2> QED
      BY <1>1, <1>2, <1>4, <2>3, <2>6, <2>7, CopyAlone DEF HasOpen
<1> QED
    BY <1>1, <1>3, <1>4, WhoActs

LEMMA ReadDoneStep ==
  ASSUME AloneInv, RwTypeOK', NEW p \in Procs, ReadDone(p)
  PROVE  AloneInv'
<1>1. /\ rw_pc[p] = "reading" /\ frame[p].at > mem_size /\ RwGoto(p, "print")
      /\ UNCHANGED <<kernel_buffer, used, mem, own, word, read_buf, alone>>
      BY DEF ReadDone
<1>2. CASE alone = NULL
      BY <1>1, <1>2, CopyOverlapped
<1>3. CASE alone = p
  <2>1. \A i \in Cells : i < frame[p].at
        BY <1>1, RwAssumption DEF Cells, AloneInv, RwTypeOK
  <2>2. \A i \in Cells : i <= word[p].len => read_buf[p][i] = word[p].val
        BY <1>1, <1>3, <2>1, RwAssumption DEF AloneInv, Stored
  <2> QED
      BY <1>1, <1>3, <2>2, CopyAlone DEF HasOpen, RwGoto
<1> QED
    BY <1>1, <1>2, <1>3, WhoActs

LEMMA ReleaseStep ==
  ASSUME AloneInv, RwTypeOK', NEW p \in Procs, Release(p)
  PROVE  AloneInv'
  BY NobodyAlone DEF Release

LEMMA AloneInvStep == AloneInv /\ [RwNext]_rwVars => AloneInv'
<1> SUFFICES ASSUME AloneInv, [RwNext]_rwVars PROVE AloneInv'
    OBVIOUS
<1>1. RwTypeOK'
      BY RwTypeStep DEF AloneInv
<1>2. CASE UNCHANGED rwVars
      BY <1>1, <1>2 DEF rwVars, AloneInv, Rest, SoleUse, Pointers, Stored
<1>3. CASE RwNext
      BY <1>1, <1>3, OpenAllocStep, OpenTestStep, WriteStep, WriteCellStep, WriteDoneStep, ReadStep,
         ReadCellStep, ReadDoneStep, ReleaseStep
      DEF RwNext
<1> QED
    BY <1>2, <1>3

LEMMA AloneInvHolds == RwSpec => []AloneInv
  BY AloneInvInit, AloneInvStep, PTL DEF RwSpec

-----------------------------------------------------------------------------
(* However the processes overlapped before, a process nobody overlaps copies *)
(* through an allocated block, which its close finds.                        *)
THEOREM AccessIsValid == RwSpec => []AccessValid
<1>1. AloneInv => AccessValid
      BY DEF AloneInv, Pointers, HasOpen, AccessValid
<1> QED
    BY <1>1, AloneInvHolds, PTL

(* A step loses at most the block of the process that takes it, and only     *)
(* when that was overlapped.                                                 *)
THEOREM NothingIsLeaked == RwSpec => NothingLeaked
<1>1. AloneInv /\ AloneInv' /\ [RwNext]_rwVars =>
        [\A b \in Unowned' \ Unowned : \E p \in Procs : own[p] = b /\ p # alone]_rwVars
  <2> SUFFICES ASSUME AloneInv, AloneInv', RwNext, NEW b \in Unowned', b \notin Unowned
               PROVE  \E p \in Procs : own[p] = b /\ p # alone
      OBVIOUS
  <2>1. b \in used' /\ b # NULL /\ \A q \in Procs : own'[q] # b
        BY RwAssumption DEF Unowned, AloneInv, RwTypeOK
  <2>2. b \in used
    <3>1. ASSUME NEW p \in Procs, OpenAlloc(p) PROVE b \in used
          BY <2>1, <3>1 DEF OpenAlloc, AloneInv, RwTypeOK
    <3>2. (\A p \in Procs : ~OpenAlloc(p)) => used' \subseteq used
          BY DEF RwNext, OpenTest, Write, WriteCell, WriteDone, Read, ReadCell, ReadDone, Release
    <3> QED
        BY <2>1, <3>1, <3>2
  <2>3. PICK p \in Procs : own[p] = b
        BY <2>2 DEF Unowned
  <2>4. own'[p] # own[p]
        BY <2>1, <2>3
  <2>5. rw_pc[p] # "start"
        BY <2>1, <2>3 DEF AloneInv, Rest
  <2>6. CASE OpenTest(p) /\ (kernel_buffer = NULL \/ own[p] = NULL)
        BY <2>1, <2>3, <2>6, RwAssumption DEF AloneInv, Pointers
  <2>7. CASE Release(p)
        BY <2>1, <2>3, <2>7, RwAssumption DEF Release, AloneInv, Pointers
  <2>8. ASSUME NEW q \in Procs, OpenAlloc(q) \/ OpenTest(q) \/ Release(q), q # p PROVE FALSE
        BY <2>4, <2>8 DEF OpenAlloc, OpenTest, Release, AloneInv, RwTypeOK
  <2>9. \E q \in Procs : OpenAlloc(q) \/ OpenTest(q) \/ Release(q)
        BY <2>4 DEF RwNext, Write, WriteCell, WriteDone, Read, ReadCell, ReadDone
  <2>10. OpenTest(p) \/ Release(p)
        BY <2>5, <2>8, <2>9 DEF OpenAlloc
  <2>11. OpenTest(p) => kernel_buffer = NULL \/ own[p] = NULL
        BY <2>4 DEF OpenTest
  <2> QED
      BY <2>6, <2>7, <2>10, <2>11
<1> QED
    BY <1>1, AloneInvHolds, PTL DEF RwSpec, NothingLeaked

(* And it finds in its buffer the word it wrote.                             *)
THEOREM WordReadBack == RwSpec => []AloneReadsBack
<1>1. AloneInv => AloneReadsBack
  <2> SUFFICES ASSUME AloneInv, alone # NULL, rw_pc[alone] = "print", NEW i \in 1..word[alone].len
               PROVE  read_buf[alone][i] = word[alone].val
      BY DEF AloneReadsBack
  <2>1. i \in Cells /\ i <= word[alone].len
        BY RwAssumption DEF AloneInv, RwTypeOK, Cells
  <2> QED
      BY <2>1 DEF AloneInv, Stored
<1> QED
    BY <1>1, AloneInvHolds, PTL
=============================================================================
