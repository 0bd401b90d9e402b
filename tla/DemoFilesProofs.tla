---------------------------- MODULE DemoFilesProofs ----------------------------
(***************************************************************************)
(* Proofs about DemoFiles, for any processes, any programs run on any of    *)
(* the four drivers, and texts and buffers of any lengths.                  *)
(***************************************************************************)
EXTENDS DemoFiles, TLAPS

Silent == {"file-operation", "demo01"}   \* the drivers whose device_write returns 0

(* Where a program can be on which driver.                                  *)
Places(p) ==
  /\ pc[p] \in {"write", "copy_again", "terminate"} => prog[p] = "echo"
  /\ pc[p] \in {"copy_again", "terminate"} => driver = "demo03"
  /\ pc[p] = "read" => prog[p] \in {"cat", "head"}
  /\ pc[p] \in {"returned", "done"} => prog[p] # "none"
  /\ prog[p] # "none" => <<driver, prog[p]>> \in Uses

(* What is left, and what the driver has received of a text.                *)
Amounts(p) ==
  /\ left[p] <= text[p]
  /\ prog[p] # "none" /\ pc[p] # "done" => left[p] > 0
  /\ prog[p] = "echo" => text[p] \in Texts
  /\ pc[p] \in {"shell", "done"} => left[p] = 0
  /\ prog[p] = "echo" /\ pc[p] # "done" => left[p] = text[p]
  /\ pc[p] \in {"write", "copy_again"} \/ driver \in Silent => logged[p] = 0

(* What the last call returned, by the request it was for.                  *)
Results(p) ==
  pc[p] = "returned" => IF prog[p] = "echo" THEN ret[p] = WriteReturns(left[p])
                        ELSE ret[p] \in ReadReturns(ReadLen(p))

(* echo on a driver that accepts nothing does not get to its end; nor does  *)
(* cat on demo03, which has its text for every read, unless a copy faults.  *)
EndsReached ==
  \A p \in Procs : pc[p] = "done" =>
    /\ prog[p] = "echo" => driver \notin Silent
    /\ prog[p] = "cat" /\ driver = "demo03" => MayFault

DemoInv ==
  /\ TypeOK /\ EndsReached
  /\ \A p \in Procs : Places(p) /\ Amounts(p) /\ Results(p)

-----------------------------------------------------------------------------
LEMMA Constants ==
  /\ HeadLen \in Nat /\ HeadLen > 0 /\ BufLen \in Nat /\ BufLen > 0
  /\ datalen \in Nat /\ datalen > 0 /\ Maxdlen \in Nat /\ Maxdlen > 0
  /\ \A n \in Texts : n \in Nat /\ n > 0
  /\ \A use \in Uses : use[1] \in {"file-operation", "demo01", "demo02", "demo03"}
                       /\ use[2] \in {"echo", "cat", "head"} /\ use = <<use[1], use[2]>>
  BY DemoAssumption DEF DemoAssumption

LEMMA LeastFacts ==
  ASSUME NEW a \in Nat, NEW b \in Nat
  PROVE  /\ Least(a, b) \in Nat /\ Least(a, b) <= a /\ Least(a, b) <= b
         /\ a > 0 /\ b > 0 => Least(a, b) > 0
  BY DEF Least

(* A read that is asked for something gets at most that, and something only *)
(* from demo03.                                                             *)
LEMMA ReadFacts ==
  ASSUME TypeOK, NEW p \in Procs, Amounts(p), prog[p] \in {"cat", "head"}, pc[p] # "done"
  PROVE  /\ ReadLen(p) \in Nat /\ ReadLen(p) > 0
         /\ \A r \in ReadReturns(ReadLen(p)) :
              /\ r \in Int /\ r <= ReadLen(p)
              /\ driver # "demo03" => r = 0
              /\ driver = "demo03" => r # 0
              /\ r < 0 => driver = "demo03" /\ MayFault
         /\ prog[p] = "head" => ReadLen(p) <= left[p]
<1>1. left[p] \in Nat /\ left[p] > 0
      BY DEF TypeOK, Amounts
<1>2. /\ ReadLen(p) \in Nat /\ ReadLen(p) > 0
      /\ prog[p] = "head" => ReadLen(p) <= left[p]
      BY <1>1, Constants, LeastFacts DEF ReadLen
<1>3. driver \in {"file-operation", "demo01", "demo02", "demo03"}
      BY Constants DEF TypeOK
<1>4. /\ Least(ReadLen(p), datalen) \in Nat /\ Least(ReadLen(p), datalen) > 0
      /\ Least(ReadLen(p), datalen) <= ReadLen(p)
      BY <1>2, Constants, LeastFacts
<1>5. CASE driver = "demo03"
      BY <1>2, <1>4, <1>5 DEF ReadReturns, Fault, EFAULT
<1>6. CASE driver # "demo03"
      BY <1>2, <1>3, <1>6 DEF ReadReturns
<1> QED
    BY <1>5, <1>6

LEMMA DemoInit == Init => DemoInv
  BY DemoAssumption DEF DemoAssumption, Init, DemoInv, TypeOK, EndsReached, Places, Amounts, Results

(* A step of one process leaves the others as they were.                    *)
OthersKeep(p) ==
  /\ driver' = driver
  /\ \A q \in Procs \ {p} :
       /\ pc'[q] = pc[q] /\ prog'[q] = prog[q] /\ text'[q] = text[q]
       /\ left'[q] = left[q] /\ ret'[q] = ret[q] /\ logged'[q] = logged[q]

LEMMA OthersKept ==
  ASSUME TypeOK, NEW p \in Procs, Runs(p) \/ Starts(p) \/ Shell(p)
  PROVE  OthersKeep(p)
  BY DEF TypeOK, OthersKeep, Runs, Starts, Shell, Start, Write, WriteCopy, WriteCopyAgain,
         Terminate, Read, Again, Finish, Goto, Returns

(* So the invariant needs to be shown for the process that moves.           *)
EndOf(p) ==
  pc[p] = "done" =>
    /\ prog[p] = "echo" => driver \notin Silent
    /\ prog[p] = "cat" /\ driver = "demo03" => MayFault

Functions ==
  /\ driver \in {use[1] : use \in Uses}
  /\ pc \in [Procs -> {"shell", "write", "copy_again", "terminate", "read", "returned", "done"}]
  /\ prog \in [Procs -> {"none", "echo", "cat", "head"}]
  /\ text \in [Procs -> Nat] /\ left \in [Procs -> Nat]
  /\ ret \in [Procs -> Int] /\ logged \in [Procs -> Nat]

Own(p) == Places(p) /\ Amounts(p) /\ Results(p) /\ EndOf(p) /\ logged[p] <= text[p]

LEMMA OnlyTheMover ==
  ASSUME DemoInv, NEW p \in Procs, OthersKeep(p), Functions', Own(p)'
  PROVE  DemoInv'
<1>1. ASSUME NEW q \in Procs \ {p} PROVE Own(q)'
  <2>1. Own(q)
        BY DEF DemoInv, EndsReached, EndOf, Own, TypeOK
  <2> QED
      BY <2>1 DEF OthersKeep, Own, Places, Amounts, Results, EndOf, WriteReturns, ReadReturns,
                  ReadLen
<1>2. \A q \in Procs : Own(q)'
      BY <1>1
<1> QED
    BY <1>2 DEF DemoInv, TypeOK, Functions, Own, EndsReached, EndOf

-----------------------------------------------------------------------------
LEMMA WriteSteps ==
  ASSUME DemoInv, NEW p \in Procs, Write(p) \/ WriteCopy(p) \/ WriteCopyAgain(p) \/ Terminate(p)
  PROVE  DemoInv'
<1>1. /\ TypeOK /\ Places(p) /\ Amounts(p) /\ left[p] \in Nat /\ logged[p] \in Nat
      /\ text[p] \in Nat
      BY DEF DemoInv, TypeOK
<1>2. prog[p] = "echo" /\ left[p] = text[p] /\ left[p] > 0
      BY <1>1 DEF Write, WriteCopy, WriteCopyAgain, Terminate, Places, Amounts
<1>3. Fits(p) \in Nat /\ Fits(p) <= left[p]
      BY <1>1, Constants, LeastFacts DEF Fits
<1>4. WriteReturns(left[p]) \in 0..left[p]
      BY <1>1 DEF WriteReturns
<1>5. OthersKeep(p)
      BY <1>1, OthersKept DEF Runs
<1>6. Functions'
      BY <1>1, <1>3, <1>4 DEF TypeOK, Functions, Write, WriteCopy, WriteCopyAgain, Terminate,
                              Goto, Returns
<1>7. CASE Write(p)
  <2>1. /\ logged[p] = 0 /\ logged'[p] = WriteReturns(left[p]) /\ ret'[p] = WriteReturns(left[p])
        /\ pc'[p] = "returned" /\ UNCHANGED <<driver, prog, text, left>>
        BY <1>1, <1>4, <1>7 DEF Write, Returns, Goto, Amounts, TypeOK
  <2>2. driver \in Silent => WriteReturns(left[p]) = 0
        BY DEF WriteReturns, Silent
  <2>3. Own(p)'
        BY <1>1, <1>2, <1>4, <2>1, <2>2 DEF Own, Places, Amounts, Results, EndOf, WriteReturns
  <2> QED
      BY <1>5, <1>6, <2>3, OnlyTheMover
<1>8. CASE WriteCopy(p) \/ WriteCopyAgain(p)
  <2>1. /\ logged[p] = 0 /\ logged'[p] \in {0, Fits(p)} /\ driver = "demo03"
        /\ \/ pc'[p] = "terminate"
           \/ pc'[p] = "copy_again" /\ logged'[p] = 0
        /\ UNCHANGED <<driver, prog, text, left, ret>>
        BY <1>1, <1>3, <1>8 DEF WriteCopy, WriteCopyAgain, Goto, Amounts, Places, TypeOK
  <2>2. Own(p)'
        BY <1>1, <1>2, <1>3, <2>1 DEF Own, Places, Amounts, Results, EndOf, Silent
  <2> QED
      BY <1>5, <1>6, <2>2, OnlyTheMover
<1>9. CASE Terminate(p)
  <2>1. /\ ret'[p] = WriteReturns(left[p]) /\ pc'[p] = "returned" /\ driver = "demo03"
        /\ logged[p] <= text[p]
        /\ UNCHANGED <<driver, prog, text, left, logged>>
        BY <1>1, <1>4, <1>9 DEF Terminate, Returns, Goto, Places, TypeOK
  <2>2. Own(p)'
        BY <1>1, <1>2, <2>1 DEF Own, Places, Amounts, Results, EndOf, Silent, WriteReturns
  <2> QED
      BY <1>5, <1>6, <2>2, OnlyTheMover
<1> QED
    BY <1>7, <1>8, <1>9

LEMMA ReadStep ==
  ASSUME DemoInv, NEW p \in Procs, Read(p)
  PROVE  DemoInv'
<1>1. /\ TypeOK /\ Places(p) /\ Amounts(p) /\ pc[p] = "read" /\ prog[p] \in {"cat", "head"}
      /\ logged[p] <= text[p]
      BY DEF DemoInv, TypeOK, Read, Places
<1>2. PICK r \in ReadReturns(ReadLen(p)) :
        /\ ret' = [ret EXCEPT ![p] = r] /\ pc' = [pc EXCEPT ![p] = "returned"]
        /\ UNCHANGED <<driver, prog, text, left, logged>>
      BY DEF Read, Returns, Goto
<1>3. r \in Int
      BY <1>1, ReadFacts
<1>4. ret'[p] = r /\ pc'[p] = "returned"
      BY <1>1, <1>2 DEF TypeOK
<1>5. OthersKeep(p)
      BY <1>1, OthersKept DEF Runs
<1>6. Functions'
      BY <1>1, <1>2, <1>3 DEF TypeOK, Functions
<1>7. Own(p)'
      BY <1>1, <1>2, <1>4 DEF Own, Places, Amounts, Results, EndOf, ReadReturns, ReadLen
<1> QED
    BY <1>5, <1>6, <1>7, OnlyTheMover

(* What a program finds when a call has returned: echo everything or        *)
(* nothing, a reader no more than it asked for.                             *)
LEMMA AfterCall ==
  ASSUME DemoInv, NEW p \in Procs, pc[p] = "returned"
  PROVE  /\ left[p] \in Nat /\ left[p] > 0 /\ left[p] <= text[p] /\ ret[p] \in Int
         /\ prog[p] \in {"echo", "cat", "head"}
         /\ prog[p] = "echo" => ret[p] = IF driver \in Silent THEN 0 ELSE left[p]
         /\ prog[p] # "echo" =>
              /\ driver # "demo03" => ret[p] = 0
              /\ driver = "demo03" => ret[p] # 0
              /\ ret[p] <= ReadLen(p)
              /\ ret[p] < 0 => driver = "demo03" /\ MayFault
         /\ prog[p] = "head" => ret[p] <= left[p]
<1>1. TypeOK /\ Places(p) /\ Amounts(p) /\ Results(p)
      BY DEF DemoInv
<1>2. /\ left[p] \in Nat /\ left[p] > 0 /\ left[p] <= text[p] /\ ret[p] \in Int
      /\ prog[p] \in {"echo", "cat", "head"}
      BY <1>1 DEF TypeOK, Places, Amounts
<1>3. CASE prog[p] = "echo"
      BY <1>1, <1>2, <1>3 DEF Results, WriteReturns, Silent
<1>4. CASE prog[p] \in {"cat", "head"}
  <2>1. ret[p] \in ReadReturns(ReadLen(p))
        BY <1>1, <1>4 DEF Results
  <2>2. ReadLen(p) \in Nat /\ (prog[p] = "head" => ReadLen(p) <= left[p])
        BY <1>1, <1>4, ReadFacts
  <2>3. /\ driver # "demo03" => ret[p] = 0
        /\ driver = "demo03" => ret[p] # 0
        /\ ret[p] <= ReadLen(p)
        /\ ret[p] < 0 => driver = "demo03" /\ MayFault
        BY <1>1, <1>4, <2>1, ReadFacts
  <2> QED
      BY <1>2, <1>4, <2>2, <2>3
<1> QED
    BY <1>2, <1>3, <1>4

LEMMA AgainStep ==
  ASSUME DemoInv, NEW p \in Procs, Again(p)
  PROVE  /\ DemoInv' /\ pc'[p] = First(prog[p])
         /\ prog[p] = "echo" => driver \in Silent /\ left'[p] = left[p]
         /\ prog[p] = "cat" => driver = "demo03" /\ left'[p] = left[p]
         /\ prog[p] = "head" => left'[p] \in Nat /\ left'[p] < left[p]
<1>1. /\ TypeOK /\ Places(p) /\ Amounts(p) /\ pc[p] = "returned" /\ logged[p] <= text[p]
      BY DEF DemoInv, TypeOK, Again
<1>2. /\ left[p] \in Nat /\ left[p] > 0 /\ left[p] <= text[p] /\ ret[p] \in Int
      /\ prog[p] \in {"echo", "cat", "head"} /\ ret[p] >= 0
      /\ prog[p] # "echo" => ret[p] > 0
      /\ prog[p] # "cat" => ret[p] < left[p]
      BY <1>1, AfterCall DEF Again
<1>3. /\ prog[p] = "echo" => ret[p] = 0 /\ driver \in Silent
      /\ prog[p] = "cat" => driver = "demo03"
      BY <1>1, <1>2, AfterCall
<1>4. /\ pc' = [pc EXCEPT ![p] = First(prog[p])]
      /\ left' = IF prog[p] = "cat" THEN left ELSE [left EXCEPT ![p] = left[p] - ret[p]]
      /\ UNCHANGED <<driver, prog, text, ret, logged>>
      BY DEF Again, Goto
<1>5. /\ left' \in [Procs -> Nat] /\ left'[p] \in Nat /\ left'[p] > 0 /\ left'[p] <= text[p]
      /\ prog[p] \in {"echo", "cat"} => left'[p] = left[p]
      /\ prog[p] = "head" => left'[p] < left[p]
      BY <1>1, <1>2, <1>3, <1>4 DEF TypeOK
<1>6. pc'[p] = First(prog[p]) /\ First(prog[p]) \in {"write", "read"}
      BY <1>1, <1>4 DEF TypeOK, First
<1>7. OthersKeep(p)
      BY <1>1, OthersKept DEF Runs
<1>8. Functions'
      BY <1>1, <1>4, <1>5, <1>6 DEF TypeOK, Functions
<1>9. Own(p)'
      BY <1>1, <1>2, <1>3, <1>4, <1>5, <1>6 DEF Own, Places, Amounts, Results, EndOf, First
<1> QED
    BY <1>3, <1>5, <1>6, <1>7, <1>8, <1>9, OnlyTheMover

LEMMA FinishStep ==
  ASSUME DemoInv, NEW p \in Procs, Finish(p)
  PROVE  DemoInv' /\ pc'[p] = "done" /\ left'[p] = 0
<1>1. /\ TypeOK /\ Places(p) /\ Amounts(p) /\ pc[p] = "returned" /\ logged[p] <= text[p]
      BY DEF DemoInv, TypeOK, Finish
<1>2. /\ left[p] \in Nat /\ left[p] > 0 /\ text[p] \in Nat /\ ret[p] \in Int
      /\ \/ ret[p] < 0
         \/ prog[p] # "echo" /\ ret[p] = 0
         \/ prog[p] # "cat" /\ ret[p] >= left[p]
      BY <1>1, AfterCall DEF Finish, TypeOK
<1>3. /\ pc' = [pc EXCEPT ![p] = "done"] /\ left' = [left EXCEPT ![p] = 0]
      /\ UNCHANGED <<driver, prog, text, ret, logged>>
      BY DEF Finish, Goto
<1>4. /\ prog[p] = "echo" => driver \notin Silent
      /\ prog[p] = "cat" /\ driver = "demo03" => MayFault
      BY <1>1, <1>2, AfterCall
<1>5. pc'[p] = "done" /\ left'[p] = 0
      BY <1>1, <1>3 DEF TypeOK
<1>6. OthersKeep(p)
      BY <1>1, OthersKept DEF Runs
<1>7. Functions'
      BY <1>1, <1>3 DEF TypeOK, Functions
<1>8. Own(p)'
      BY <1>1, <1>2, <1>3, <1>4, <1>5 DEF Own, Places, Amounts, Results, EndOf
<1> QED
    BY <1>5, <1>6, <1>7, <1>8, OnlyTheMover

LEMMA ShellSteps ==
  ASSUME DemoInv, NEW p \in Procs, Starts(p) \/ Shell(p)
  PROVE  DemoInv'
<1>1. TypeOK /\ Places(p) /\ Amounts(p) /\ OthersKeep(p)
      BY OthersKept DEF DemoInv
<1>2. CASE Shell(p)
  <2>1. Functions'
        BY <1>1, <1>2 DEF Shell, Goto, TypeOK, Functions
  <2>2. /\ pc'[p] = "shell" /\ prog'[p] = "none" /\ text'[p] = 0 /\ logged'[p] = 0
        /\ left'[p] = 0 /\ driver' = driver
    <3>1. left[p] = 0
          BY <1>1, <1>2 DEF Amounts, Shell
    <3> QED
        BY <1>1, <1>2, <3>1 DEF Shell, Goto, TypeOK
  <2>3. Own(p)'
        BY <2>2 DEF Own, Places, Amounts, Results, EndOf
  <2> QED
      BY <1>1, <2>1, <2>3, OnlyTheMover
<1>3. CASE Starts(p)
  <2>1. PICK use \in Uses :
          /\ use[1] = driver
          /\ \E n \in IF use[2] = "echo" THEN Texts ELSE {HeadLen} : Start(p, use[2], n)
        BY <1>3 DEF Starts
  <2>2. PICK n \in IF use[2] = "echo" THEN Texts ELSE {HeadLen} : Start(p, use[2], n)
        BY <2>1
  <2>3. /\ n \in Nat /\ n > 0 /\ use[2] \in {"echo", "cat", "head"} /\ use = <<driver, use[2]>>
        /\ use[2] = "echo" => n \in Texts
        BY <2>1, <2>2, Constants
  <2>4. Functions'
        BY <1>1, <2>2, <2>3 DEF Start, Goto, First, TypeOK, Functions
  <2>5. /\ pc'[p] = First(use[2]) /\ prog'[p] = use[2] /\ text'[p] = n /\ left'[p] = n
        /\ logged'[p] = 0 /\ driver' = driver
        BY <1>1, <2>2 DEF Start, Goto, TypeOK
  <2>6. Own(p)'
        BY <2>3, <2>5 DEF Own, Places, Amounts, Results, EndOf, First
  <2> QED
      BY <1>1, <2>4, <2>6, OnlyTheMover
<1> QED
    BY <1>2, <1>3

LEMMA DemoInvStep == DemoInv /\ [Next]_vars => DemoInv'
<1> SUFFICES ASSUME DemoInv, [Next]_vars PROVE DemoInv'
    OBVIOUS
<1>1. CASE Next
  <2>1. PICK p \in Procs : Runs(p) \/ Starts(p) \/ Shell(p)
        BY <1>1 DEF Next
  <2> QED
      BY <2>1, WriteSteps, ReadStep, AgainStep, FinishStep, ShellSteps DEF Runs
<1>2. CASE UNCHANGED vars
      BY <1>2 DEF vars, DemoInv, TypeOK, EndsReached, Places, Amounts, Results, WriteReturns,
                  ReadReturns, ReadLen
<1> QED
    BY <1>1, <1>2

LEMMA DemoInvHolds == Spec => []DemoInv
  BY DemoInit, DemoInvStep, PTL DEF Spec

-----------------------------------------------------------------------------
(* Every variable keeps to its values: what is left of a transfer does not  *)
(* become negative, and no driver receives more of a text than there is.    *)
THEOREM DemoTypeCorrect == Spec => []TypeOK
<1>1. DemoInv => TypeOK
      BY DEF DemoInv
<1> QED
    BY <1>1, DemoInvHolds, PTL

(* echo's write to file-operation and demo01 never ends, for any text, and  *)
(* cat's reads of demo03 end only with a fault.                             *)
THEOREM EndsNotReached == Spec => []EndsReached
<1>1. DemoInv => EndsReached
      BY DEF DemoInv
<1> QED
    BY <1>1, DemoInvHolds, PTL

(* demo03 terminates the text it received inside its buffer when every text *)
(* written to it is shorter than the buffer.                                *)
THEOREM ShortTextsTerminated ==
  ASSUME \A n \in Texts : n < Maxdlen
  PROVE  Spec => []TerminatorInBuffer
<1>1. DemoInv => TerminatorInBuffer
  <2> SUFFICES ASSUME DemoInv, NEW p \in Procs, pc[p] = "terminate"
               PROVE  TerminateAt(p) \in 0..Maxdlen - 1
      BY DEF TerminatorInBuffer
  <2>1. left[p] \in Texts
        BY DEF DemoInv, Places, Amounts
  <2> QED
      BY <2>1, Constants DEF TerminateAt, Fits, Least
<1> QED
    BY <1>1, DemoInvHolds, PTL

-----------------------------------------------------------------------------
(* How far a program is from its end: what it has left to transfer, and     *)
(* where it is in the call.                                                 *)
Rank(l) == CASE l = "write" -> 4
             [] l = "copy_again" -> 3
             [] l \in {"terminate", "read"} -> 2
             [] l = "returned" -> 1
             [] OTHER -> 0
Distance(p) == 2 * left[p] + Rank(pc[p])

(* The programs on the drivers that end.                                    *)
UsesEnd ==
  \A use \in Uses : /\ use[1] \in Silent => use[2] # "echo"
                    /\ use[1] = "demo03" => use[2] # "cat"

(* Every step of a program that runs brings it nearer to its end, and no    *)
(* step of another process sends it back.                                   *)
ProgramsAdvance ==
  [][\A p \in Procs : /\ Distance(p) \in Nat
                      /\ Runs(p) => Distance(p)' < Distance(p)
                      /\ Distance(p)' > Distance(p) => Starts(p)]_vars

LEMMA RankType == \A l : Rank(l) \in 0..4
  BY DEF Rank

LEMMA RunAdvances ==
  ASSUME DemoInv, UsesEnd, NEW p \in Procs, Runs(p)
  PROVE  Distance(p)' < Distance(p)
<1>1. TypeOK /\ Places(p) /\ left[p] \in Nat
      BY DEF DemoInv, TypeOK
<1> USE DEF Rank
<1>2. CASE Write(p) \/ WriteCopy(p) \/ WriteCopyAgain(p) \/ Terminate(p) \/ Read(p)
  <2>1. left' = left
        BY <1>2 DEF Write, WriteCopy, WriteCopyAgain, Terminate, Read
  <2>2. \/ pc[p] = "write" /\ pc'[p] \in {"copy_again", "terminate", "returned"}
        \/ pc[p] = "copy_again" /\ pc'[p] = "terminate"
        \/ pc[p] \in {"terminate", "read"} /\ pc'[p] = "returned"
        BY <1>1, <1>2 DEF Write, WriteCopy, WriteCopyAgain, Terminate, Read, Goto, Returns, TypeOK
  <2> QED
      BY <1>1, <2>1, <2>2 DEF Distance
<1>3. CASE Again(p)
  <2>1. pc[p] = "returned" /\ prog[p] \in {"echo", "cat", "head"} /\ <<driver, prog[p]>> \in Uses
        BY <1>1, <1>3, AfterCall DEF Again, Places
  <2>2. prog[p] = "head"
        BY <1>3, <2>1, AgainStep DEF UsesEnd
  <2>3. left'[p] \in Nat /\ left'[p] < left[p] /\ pc'[p] = "read"
        BY <1>3, <2>2, AgainStep DEF First
  <2> QED
      BY <1>1, <2>1, <2>3 DEF Distance
<1>4. CASE Finish(p)
  <2>1. pc[p] = "returned" /\ pc'[p] = "done" /\ left'[p] = 0
        BY <1>4, FinishStep DEF Finish
  <2> QED
      BY <1>1, <2>1 DEF Distance
<1> QED
    BY <1>2, <1>3, <1>4 DEF Runs

(* echo has its text accepted, cat sees the end of the file and head gets   *)
(* its bytes in a number of steps that its text and its buffer bound,       *)
(* whatever other programs do: what is left of ProgramsEnd is that a        *)
(* program inside a call is scheduled.                                      *)
THEOREM ProgramsComeToTheirEnd ==
  ASSUME UsesEnd
  PROVE  Spec => ProgramsAdvance
<1>1. ASSUME DemoInv, [Next]_vars, NEW p \in Procs
      PROVE  /\ Distance(p) \in Nat
             /\ Runs(p) => Distance(p)' < Distance(p)
             /\ Distance(p)' > Distance(p) => Starts(p)
  <2>1. TypeOK /\ Distance(p) \in Nat /\ Distance(p)' \in Nat
    <3>1. TypeOK /\ left[p] \in Nat /\ left'[p] \in Nat
          BY <1>1, DemoInvStep DEF DemoInv, TypeOK
    <3> QED
        BY <3>1, RankType DEF Distance
  <2>2. CASE Next
    <3>1. PICK q \in Procs : Runs(q) \/ Starts(q) \/ Shell(q)
          BY <2>2 DEF Next
    <3>2. CASE q # p
      <4>1. left'[p] = left[p] /\ pc'[p] = pc[p]
            BY <2>1, <3>1, <3>2, OthersKept DEF OthersKeep
      <4>2. Distance(p)' = Distance(p)
            BY <4>1 DEF Distance
      <4> QED
          BY <1>1, <2>1, <4>2, RunAdvances
    <3>3. CASE q = p /\ Shell(p)
      <4>1. left'[p] = left[p] /\ pc[p] = "done" /\ pc'[p] = "shell"
            BY <2>1, <3>3 DEF Shell, Goto, TypeOK
      <4>2. Distance(p)' = Distance(p)
            BY <4>1 DEF Distance, Rank
      <4> QED
          BY <1>1, <2>1, <4>2, RunAdvances
    <3>4. CASE q = p /\ Runs(p)
      <4>1. Distance(p)' < Distance(p)
            BY <1>1, <3>4, RunAdvances
      <4> QED
          BY <2>1, <4>1
    <3>5. CASE q = p /\ Starts(p)
          BY <1>1, <2>1, <3>5, RunAdvances
    <3> QED
        BY <3>1, <3>2, <3>3, <3>4, <3>5
  <2>3. CASE UNCHANGED vars
    <3>1. Distance(p)' = Distance(p)
          BY <2>3 DEF vars, Distance
    <3> QED
        BY <1>1, <2>1, <3>1, RunAdvances
  <2> QED
      BY <1>1, <2>2, <2>3
<1>2. DemoInv /\ [Next]_vars =>
        [\A p \in Procs : /\ Distance(p) \in Nat
                          /\ Runs(p) => Distance(p)' < Distance(p)
                          /\ Distance(p)' > Distance(p) => Starts(p)]_vars
      BY <1>1
<1> QED
    BY <1>2, DemoInvHolds, PTL DEF Spec, ProgramsAdvance
=============================================================================
