----------------------------- MODULE SharedBytes ------------------------------
(***************************************************************************)
(* What a memory-backed character device promises its users: one array of  *)
(* bytes that all open files share, a size, and a position per open file.  *)
(* Opening write-only empties the device; a write stores a run of bytes at *)
(* the position, a read delivers the run found there; both may transfer    *)
(* less than asked and move the position by exactly what they transferred. *)
(* A call that fails moves nothing.  Every call takes effect at one point. *)
(***************************************************************************)
EXTENDS Integers

CONSTANTS
  Procs,
  Values,   \* the bytes processes write
  Unset,    \* what is at an offset nothing is stored at
  MaxPos    \* bound: the number of offsets

VARIABLES
  bytes,    \* the byte at each offset
  size,     \* where the stored data ends
  file,     \* each process's open file: access mode and position
  got       \* what the call a process is in has delivered

vars == <<bytes, size, file, got>>

Modes  == {"O_RDONLY", "O_WRONLY", "O_RDWR"}
Closed == [mode |-> "closed", pos |-> 0]
Blank  == [o \in 0..MaxPos - 1 |-> Unset]

Init ==
  /\ bytes = Blank /\ size = 0
  /\ file = [p \in Procs |-> Closed]
  /\ got  = [p \in Procs |-> << >>]

Open(p, mode) ==
  /\ file[p] = Closed
  /\ file' = [file EXCEPT ![p] = [mode |-> mode, pos |-> 0]]
  /\ IF mode = "O_WRONLY" THEN bytes' = Blank /\ size' = 0 ELSE UNCHANGED <<bytes, size>>
  /\ UNCHANGED got

Release(p) ==
  /\ file' = [file EXCEPT ![p] = Closed]
  /\ UNCHANGED <<bytes, size, got>>

(* A read of n bytes starts below the size and returns what is stored; at an *)
(* offset where nothing is, any byte may be delivered.                       *)
Read(p, n) ==
  /\ file[p].mode \in {"O_RDONLY", "O_RDWR"}
  /\ file[p].pos < size /\ file[p].pos + n <= MaxPos
  /\ file' = [file EXCEPT ![p].pos = @ + n]
  /\ \E run \in [1..n -> Values \cup {Unset}] :
       /\ \A i \in 1..n : LET b == bytes[file[p].pos + i - 1] IN b # Unset => run[i] = b
       /\ got' = [got EXCEPT ![p] = run]
  /\ UNCHANGED <<bytes, size>>

Return(p) ==
  /\ got' = [got EXCEPT ![p] = << >>]
  /\ UNCHANGED <<bytes, size, file>>

Stored(from, to, v) == [o \in DOMAIN bytes |-> IF o \in from..to - 1 THEN v ELSE bytes[o]]

Write(p, n, v) ==
  /\ file[p].mode \in {"O_WRONLY", "O_RDWR"}
  /\ LET end == file[p].pos + n
     IN  /\ end <= MaxPos
         /\ bytes' = Stored(file[p].pos, end, v)
         /\ size'  = IF size < end THEN end ELSE size
         /\ file'  = [file EXCEPT ![p].pos = end]
  /\ UNCHANGED got

(* A failed write of up to n bytes neither moves the position nor the size,  *)
(* but the first m bytes may be stored and the rest of the range lost.       *)
WriteFails(p, n, m, v) ==
  /\ file[p].mode \in {"O_WRONLY", "O_RDWR"}
  /\ m <= n /\ file[p].pos + n <= MaxPos
  /\ LET from == file[p].pos
     IN  bytes' = [o \in DOMAIN bytes |->
                     IF o \in from..from + m - 1 THEN v
                     ELSE IF o \in from + m..from + n - 1 THEN Unset ELSE bytes[o]]
  /\ UNCHANGED <<size, file, got>>

Next ==
  \E p \in Procs :
    \/ \E mode \in Modes : Open(p, mode)
    \/ Release(p) \/ Return(p)
    \/ \E n \in 0..MaxPos : Read(p, n)
    \/ \E n \in 0..MaxPos, v \in Values : Write(p, n, v)
    \/ \E n, m \in 0..MaxPos, v \in Values : WriteFails(p, n, m, v)

Spec == Init /\ [][Next]_vars
=============================================================================
