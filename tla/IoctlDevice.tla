------------------------------ MODULE IoctlDevice ------------------------------
(***************************************************************************)
(* Control commands: how numbers are put together (the macros IOCTL/ioctl.c  *)
(* describes, with scull's commands), and the driver of ioctl_info.c, whose  *)
(* etx_ioctl is called with any command by programs that name theirs.        *)
(***************************************************************************)
EXTENDS Integers

CONSTANTS
  Callers,   \* the programs
  Ints,      \* the values they pass
  Nobody     \* no program has called yet

IoctlAssumption == 0 \in Ints /\ Nobody \notin Callers

ASSUME IoctlAssumption

VARIABLES
  value,  \* the driver's global
  arg,    \* what each program's argument points to
  last    \* the last call: by whom, which command, whether its copy failed, the result

ioctlVars == <<value, arg, last>>

-----------------------------------------------------------------------------
(* A number has 32 bits: in its upper half two of direction over 14 of size, *)
(* in its lower half eight of type over eight of ordinal number.             *)
NONE_  == 0
WRITE_ == 1
READ_  == 2

(* Mutant: the ordinal number is left out.                                   *)
IOC_Unnumbered(dir, type, nr, size) ==
  [hi |-> (dir * 16384 + size) % 65536, lo |-> (type * 256) % 65536]

IOC(dir, type, nr, size) ==
  [hi |-> (dir * 16384 + size) % 65536, lo |-> (type * 256 + nr) % 65536]
Fields(n) == <<n.hi \div 16384, n.lo \div 256, n.lo % 256, n.hi % 16384>>

IO(type, nr) == IOC(NONE_, type, nr, 0)
IOW(type, nr, size) == IOC(WRITE_, type, nr, size)
IOR(type, nr, size) == IOC(READ_, type, nr, size)
IOWR(type, nr, size) == IOC(READ_ + WRITE_, type, nr, size)

(* scull's, of type 'k', with an int where there is data; the last pair that *)
(* has data is written _IORW, which linux/ioctl.h calls _IOWR.               *)
ScullNumber ==
  [SCULL_IOCRESET    |-> IO(107, 0),
   SCULL_IOCSQUANTUM |-> IOW(107, 1, 4),  SCULL_IOCSQSET |-> IOW(107, 2, 4),
   SCULL_IOCTQUANTUM |-> IO(107, 3),      SCULL_IOCTQSET |-> IO(107, 4),
   SCULL_IOCGQUANTUM |-> IOR(107, 5, 4),  SCULL_IOCGQSET |-> IOR(107, 6, 4),
   SCULL_IOCQQUANTUM |-> IO(107, 7),      SCULL_IOCQQSET |-> IO(107, 8),
   SCULL_IOCXQUANTUM |-> IOWR(107, 9, 4), SCULL_IOCXQSET |-> IOWR(107, 10, 4),
   SCULL_IOCHQUANTUM |-> IO(107, 11),     SCULL_IOCHQSET |-> IO(107, 12)]

(* The driver's own, of type 'a': the size is that of the pointer type       *)
(* int32_t *, although an int32_t is copied.                                 *)
EtxNumber == [WR_VALUE |-> IOW(97, 97, 8), RD_VALUE |-> IOR(97, 98, 8)]

Commands == DOMAIN ScullNumber \cup DOMAIN EtxNumber
Number(c) == IF c \in DOMAIN EtxNumber THEN EtxNumber[c] ELSE ScullNumber[c]

-----------------------------------------------------------------------------
IoctlInit ==
  /\ value = 0
  /\ arg \in [Callers -> Ints]
  /\ last = [by |-> Nobody, cmd |-> "none", fault |-> FALSE, ret |-> 0]

(* A program puts a value where its next call's argument points to.          *)
SetArg(p, v) ==
  /\ arg[p] # v
  /\ arg' = [arg EXCEPT ![p] = v]
  /\ last' = [last EXCEPT !.by = Nobody, !.cmd = "none", !.fault = FALSE]
  /\ UNCHANGED value

(* case WR_VALUE and case RD_VALUE: when copy_from_user fails it has put     *)
(* zeros in value, when copy_to_user fails the argument stays as it was.     *)
EtxWrite(p, fault) == value' = (IF fault THEN 0 ELSE arg[p]) /\ UNCHANGED arg
EtxRead(p, fault) ==
  /\ arg' = (IF fault THEN arg ELSE [arg EXCEPT ![p] = value])
  /\ UNCHANGED value

(* Mutant: the cases go by the direction alone.                              *)
IsCaseByDirection(case, c) == Fields(EtxNumber[case])[1] = Fields(Number(c))[1]

(* Whether the switch takes a case for a command; others fall through.       *)
IsCase(case, c) == EtxNumber[case] = Number(c)

(* Every call returns 0, whatever its copy did and whatever it asked for.    *)
etx_ioctl(p, c) ==
  \E fault \in BOOLEAN :
    /\ \/ IsCase("WR_VALUE", c) /\ EtxWrite(p, fault)
       \/ IsCase("RD_VALUE", c) /\ EtxRead(p, fault)
       \/ /\ ~fault /\ \A case \in DOMAIN EtxNumber : ~IsCase(case, c)
          /\ UNCHANGED <<value, arg>>
    /\ last' = [by |-> p, cmd |-> c, fault |-> fault, ret |-> 0]

IoctlNext ==
  \E p \in Callers :
    \/ \E v \in Ints : SetArg(p, v)
    \/ \E c \in Commands : etx_ioctl(p, c)

IoctlSpec == IoctlInit /\ [][IoctlNext]_ioctlVars

-----------------------------------------------------------------------------
IoctlTypeOK ==
  /\ value \in Ints
  /\ arg \in [Callers -> Ints]
  /\ last \in [by : Callers \cup {Nobody}, cmd : Commands \cup {"none"}, fault : BOOLEAN,
               ret : {0}]

(* "The ioctl command numbers should be unique across the system": a driver   *)
(* that looks at the number it was called with, or takes it apart into its   *)
(* four fields, can tell the command from every other one of the two drivers. *)
CommandsUnique ==
  last.cmd \in Commands =>
    LET n == Number(last.cmd)
        f == Fields(n)
    IN  /\ {c \in Commands : Number(c) = n} = {last.cmd}
        /\ IOC(f[1], f[2], f[3], f[4]) = n

(* "Prevent errors caused by issuing the right command to the wrong device": *)
(* programs send scull's commands to this driver as well as its own, and the *)
(* value changes only by a WR_VALUE, a program's argument only by the        *)
(* RD_VALUE it sent (or by itself).                                          *)
WrongDeviceHarmless ==
  [][/\ value' # value => last'.cmd = "WR_VALUE" /\ value' \in {0, arg[last'.by]}
     /\ \A p \in Callers : arg'[p] # arg[p] /\ last'.by # Nobody =>
          last'.cmd = "RD_VALUE" /\ last'.by = p /\ arg'[p] = value
    ]_ioctlVars
=============================================================================
