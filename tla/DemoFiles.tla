------------------------------ MODULE DemoFiles ------------------------------
(***************************************************************************)
(* The demonstration drivers CharDD/file-operation.c and                    *)
(* ioctL/file_operation/demo01.c, demo02.c, demo03.c under the programs     *)
(* their descriptions tell the user to run: echo, cat and head -c.  What    *)
(* the handlers return decides whether those programs ever end: the         *)
(* standard library writes again what was not written, and reads again      *)
(* until it gets 0 bytes.                                                   *)
(***************************************************************************)
EXTENDS Integers

CONSTANTS
  Procs,     \* the processes that run programs on the device
  Uses,      \* the drivers loaded and the programs run on each: <<driver, program>>
  MayFault,  \* whether the programs' buffers can turn out not to be mapped
  Texts,     \* the lengths of the texts echo is given
  HeadLen,   \* head's -c
  BufLen,    \* the read length of cat and head
  datalen,   \* the length of demo03's text
  Maxdlen    \* the size of demo03's bufdata

ASSUME DemoAssumption ==
  /\ Uses \subseteq {"file-operation", "demo01", "demo02", "demo03"}
                    \X {"echo", "cat", "head"}
  /\ MayFault \in BOOLEAN
  /\ Texts \subseteq Nat \ {0}
  /\ {HeadLen, BufLen, datalen, Maxdlen} \subseteq Nat \ {0}

VARIABLES
  driver,  \* the driver behind the device node
  pc,      \* where each process is
  prog,    \* the program it runs
  text,    \* echo: the length of its text
  left,    \* echo, head: the bytes still to transfer
  ret,     \* what the last handler returned
  logged   \* echo: how much of its text the driver has received

vars == <<driver, pc, prog, text, left, ret, logged>>

EFAULT == 14
Least(a, b) == IF a <= b THEN a ELSE b

Init ==
  /\ driver \in {use[1] : use \in Uses}
  /\ pc     = [p \in Procs |-> "shell"]
  /\ prog   = [p \in Procs |-> "none"]
  /\ text   = [p \in Procs |-> 0]
  /\ left   = [p \in Procs |-> 0]
  /\ ret    = [p \in Procs |-> 0]
  /\ logged = [p \in Procs |-> 0]

Goto(p, l) == pc' = [pc EXCEPT ![p] = l]
Returns(p, r) == ret' = [ret EXCEPT ![p] = r] /\ Goto(p, "returned")

-----------------------------------------------------------------------------
(* The handlers.  device_open and device_release of the demonstration       *)
(* drivers only log and return 0: starting and ending a program stand for    *)
(* them.                                                                     *)

(* Mutants: nothing is accepted, or the terminating NUL is counted too.      *)
WriteReturnsNothing(len) == 0
WriteReturnsOneMore(len) == IF driver \in {"file-operation", "demo01"} THEN 0 ELSE len + 1

(* What device_write returns for len bytes.                                  *)
WriteReturns(len) == IF driver \in {"file-operation", "demo01"} THEN 0 ELSE len

(* The calls that do all their work at once: no data, or all of it.          *)
Write(p) ==
  /\ pc[p] = "write" /\ driver # "demo03"
  /\ Returns(p, WriteReturns(left[p]))
  /\ logged' = [logged EXCEPT ![p] = @ + WriteReturns(left[p])]
  /\ UNCHANGED <<driver, prog, text, left>>

(* demo03 copies what fits bufdata; when that faults it copies again.        *)
Fits(p) == Least(left[p], Maxdlen)

WriteCopy(p) ==
  /\ pc[p] = "write" /\ driver = "demo03"
  /\ \/ Goto(p, "terminate") /\ logged' = [logged EXCEPT ![p] = @ + Fits(p)]
     \/ MayFault /\ Goto(p, "copy_again") /\ UNCHANGED logged
  /\ UNCHANGED <<driver, prog, text, left, ret>>

WriteCopyAgain(p) ==
  /\ pc[p] = "copy_again"
  /\ Goto(p, "terminate")
  /\ \/ logged' = [logged EXCEPT ![p] = @ + Fits(p)]
     \/ UNCHANGED logged
  /\ UNCHANGED <<driver, prog, text, left, ret>>

(* It then ends the string at the length copied, prints it, and returns len. *)
TerminateAt(p) == Fits(p)

Terminate(p) ==
  /\ pc[p] = "terminate"
  /\ Returns(p, WriteReturns(left[p]))
  /\ UNCHANGED <<driver, prog, text, left, logged>>

Fault == IF MayFault THEN {-EFAULT} ELSE {}

(* What device_read returns for a request of len bytes.                      *)
ReadReturns(len) ==
  CASE driver \in {"file-operation", "demo01", "demo02"} -> {0}
    [] driver = "demo03" -> {Least(len, datalen)} \cup Fault

ReadLen(p) == IF prog[p] = "head" THEN Least(left[p], BufLen) ELSE BufLen

Read(p) ==
  /\ pc[p] = "read"
  /\ \E r \in ReadReturns(ReadLen(p)) : Returns(p, r)
  /\ UNCHANGED <<driver, prog, text, left, logged>>

-----------------------------------------------------------------------------
(* The programs.                                                             *)
First(program) == IF program = "echo" THEN "write" ELSE "read"

Start(p, program, n) ==
  /\ pc[p] = "shell"
  /\ prog' = [prog EXCEPT ![p] = program]
  /\ text' = [text EXCEPT ![p] = n]
  /\ left' = [left EXCEPT ![p] = n]
  /\ logged' = [logged EXCEPT ![p] = 0]
  /\ Goto(p, First(program))
  /\ UNCHANGED <<driver, ret>>

(* A call that transferred something, or a write of 0 bytes: go on with what *)
(* is left.                                                                  *)
Again(p) ==
  /\ pc[p] = "returned" /\ ret[p] >= 0
  /\ prog[p] # "echo" => ret[p] > 0
  /\ prog[p] # "cat" => ret[p] < left[p]
  /\ left' = IF prog[p] = "cat" THEN left ELSE [left EXCEPT ![p] = @ - ret[p]]
  /\ Goto(p, First(prog[p]))
  /\ UNCHANGED <<driver, prog, text, ret, logged>>

(* Everything transferred, the end of the file, or an error: the program     *)
(* closes the device and ends.                                               *)
Finish(p) ==
  /\ pc[p] = "returned"
  /\ \/ ret[p] < 0
     \/ prog[p] # "echo" /\ ret[p] = 0
     \/ prog[p] # "cat" /\ ret[p] >= left[p]
  /\ left' = [left EXCEPT ![p] = 0]
  /\ Goto(p, "done")
  /\ UNCHANGED <<driver, prog, text, ret, logged>>

Shell(p) ==
  /\ pc[p] = "done"
  /\ Goto(p, "shell")
  /\ prog' = [prog EXCEPT ![p] = "none"]
  /\ text' = [text EXCEPT ![p] = 0]
  /\ logged' = [logged EXCEPT ![p] = 0]
  /\ ret' = [ret EXCEPT ![p] = 0]
  /\ UNCHANGED <<driver, left>>

Runs(p) ==
  \/ Write(p) \/ WriteCopy(p) \/ WriteCopyAgain(p) \/ Terminate(p)
  \/ Read(p)
  \/ Again(p) \/ Finish(p)

Starts(p) ==
  \E use \in Uses :
    /\ use[1] = driver
    /\ \E n \in IF use[2] = "echo" THEN Texts ELSE {HeadLen} : Start(p, use[2], n)

Next == \E p \in Procs : Runs(p) \/ Starts(p) \/ Shell(p)

Spec == Init /\ [][Next]_vars

(* A running process is scheduled; nobody has to start a program.            *)
FairSpec == Spec /\ \A p \in Procs : WF_vars(Runs(p))
-----------------------------------------------------------------------------
TypeOK ==
  /\ driver \in {use[1] : use \in Uses}
  /\ pc \in [Procs -> {"shell", "write", "copy_again", "terminate", "read", "returned", "done"}]
  /\ prog \in [Procs -> {"none", "echo", "cat", "head"}]
  /\ text \in [Procs -> Nat] /\ left \in [Procs -> Nat]
  /\ ret \in [Procs -> Int]
  /\ logged \in [Procs -> Nat] /\ \A p \in Procs : logged[p] <= text[p]

(* A program that has been started comes to its end, whatever the lengths:  *)
(* echo has its text accepted, cat sees the end of the file, head gets its  *)
(* bytes.                                                                   *)
ProgramsEnd == \A p \in Procs : (pc[p] \in {"write", "read"}) ~> (pc[p] = "done")

(* demo03 ends the text it received inside its buffer, whatever string is   *)
(* written to it.                                                           *)
TerminatorInBuffer == \A p \in Procs : pc[p] = "terminate" => TerminateAt(p) \in 0..Maxdlen - 1
=============================================================================
