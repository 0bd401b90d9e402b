----------------------------- MODULE NotesProofs -----------------------------
(***************************************************************************)
(* Proofs about the drivers of the notes: IoctlDevice, for any programs and *)
(* any values they pass; Scull, for any number of devices and programs, any *)
(* first number, and whichever cdev_add fails; PciDriver, for any functions *)
(* on the bus, whatever their identification and revision.                  *)
(***************************************************************************)
EXTENDS IoctlDevice, Scull, PciDriver, TLAPS

-----------------------------------------------------------------------------
(* The four fields go into a number without disturbing each other.          *)
LEMMA HalfOfNumber ==
  ASSUME NEW base \in Nat, NEW top \in Nat, NEW a \in Nat, NEW b \in Nat,
         b < base, a < top, top * base = 65536
  PROVE  /\ (a * base + b) % 65536 = a * base + b
         /\ (a * base + b) \div base = a /\ (a * base + b) % base = b
<1>1. a * base + base <= top * base
      OBVIOUS
<1>2. a * base + b \in Nat /\ a * base + b < 65536
      BY <1>1
<1>3. \A n \in Nat : n < 65536 => n % 65536 = n
      OBVIOUS
<1>4. (a * base + b) % 65536 = a * base + b
      BY <1>2, <1>3
<1>5. (a * base + b) \div base = a /\ (a * base + b) % base = b
      OBVIOUS
<1> QED
    BY <1>4, <1>5

IsFields(dir, type, nr, size) ==
  /\ dir \in Nat /\ dir < 4 /\ type \in Nat /\ type < 256
  /\ nr \in Nat /\ nr < 256 /\ size \in Nat /\ size < 16384

LEMMA FieldsOfIOC ==
  ASSUME NEW dir, NEW type, NEW nr, NEW size, IsFields(dir, type, nr, size)
  PROVE  Fields(IOC(dir, type, nr, size)) = <<dir, type, nr, size>>
<1>1. /\ (dir * 16384 + size) % 65536 = dir * 16384 + size
      /\ (dir * 16384 + size) \div 16384 = dir /\ (dir * 16384 + size) % 16384 = size
  <2>1. 4 * 16384 = 65536
        OBVIOUS
  <2> QED
      BY <2>1, HalfOfNumber DEF IsFields
<1>2. /\ (type * 256 + nr) % 65536 = type * 256 + nr
      /\ (type * 256 + nr) \div 256 = type /\ (type * 256 + nr) % 256 = nr
  <2>1. 256 * 256 = 65536
        OBVIOUS
  <2> QED
      BY <2>1, HalfOfNumber DEF IsFields
<1> QED
    BY <1>1, <1>2 DEF IOC, Fields

(* Every command's number, with the fields it is made of.                   *)
Made(c, dir, type, nr, size) ==
  IsFields(dir, type, nr, size) /\ Number(c) = IOC(dir, type, nr, size)

LEMMA EtxNumbers == Made("WR_VALUE", 1, 97, 97, 8) /\ Made("RD_VALUE", 2, 97, 98, 8)
  BY DEF Made, IsFields, Number, EtxNumber, IOW, IOR, WRITE_, READ_

LEMMA ScullNumbers ==
  /\ Made("SCULL_IOCRESET", 0, 107, 0, 0)
  /\ Made("SCULL_IOCSQUANTUM", 1, 107, 1, 4)   /\ Made("SCULL_IOCSQSET", 1, 107, 2, 4)
  /\ Made("SCULL_IOCTQUANTUM", 0, 107, 3, 0)   /\ Made("SCULL_IOCTQSET", 0, 107, 4, 0)
  /\ Made("SCULL_IOCGQUANTUM", 2, 107, 5, 4)   /\ Made("SCULL_IOCGQSET", 2, 107, 6, 4)
  /\ Made("SCULL_IOCQQUANTUM", 0, 107, 7, 0)   /\ Made("SCULL_IOCQQSET", 0, 107, 8, 0)
  /\ Made("SCULL_IOCXQUANTUM", 3, 107, 9, 4)   /\ Made("SCULL_IOCXQSET", 3, 107, 10, 4)
  /\ Made("SCULL_IOCHQUANTUM", 0, 107, 11, 0)  /\ Made("SCULL_IOCHQSET", 0, 107, 12, 0)
<1>1. \A c \in DOMAIN ScullNumber : Number(c) = ScullNumber[c]
      BY DEF Number, EtxNumber, ScullNumber
<1>2. READ_ + WRITE_ = 3 /\ NONE_ = 0 /\ WRITE_ = 1 /\ READ_ = 2
      BY DEF READ_, WRITE_, NONE_
<1> HIDE DEF NONE_, READ_, WRITE_
<1> QED
    BY <1>1, <1>2 DEF Made, IsFields, ScullNumber, IO, IOW, IOR, IOWR

(* The ordinal number alone tells a command from the others.                *)
Key(c) == Fields(Number(c))[3]

LEMMA MadeIsTaken ==
  ASSUME NEW c, NEW dir, NEW type, NEW nr, NEW size, Made(c, dir, type, nr, size)
  PROVE  Fields(Number(c)) = <<dir, type, nr, size>> /\ Key(c) = nr
  BY FieldsOfIOC DEF Made, Key

LEMMA EveryCommandMade ==
  ASSUME NEW c \in Commands
  PROVE  \E dir, type, nr, size : Made(c, dir, type, nr, size)
<1>1. c \in DOMAIN EtxNumber \/ c \in DOMAIN ScullNumber
      BY DEF Commands
<1>2. c \in DOMAIN EtxNumber => c \in {"WR_VALUE", "RD_VALUE"}
      BY DEF EtxNumber
<1>3. c \in DOMAIN ScullNumber =>
        c \in {"SCULL_IOCRESET", "SCULL_IOCSQUANTUM", "SCULL_IOCSQSET", "SCULL_IOCTQUANTUM",
               "SCULL_IOCTQSET", "SCULL_IOCGQUANTUM", "SCULL_IOCGQSET", "SCULL_IOCQQUANTUM",
               "SCULL_IOCQQSET", "SCULL_IOCXQUANTUM", "SCULL_IOCXQSET", "SCULL_IOCHQUANTUM",
               "SCULL_IOCHQSET"}
      BY DEF ScullNumber
<1> QED
    BY <1>1, <1>2, <1>3, EtxNumbers, ScullNumbers

LEMMA Keys ==
  /\ Key("WR_VALUE") = 97         /\ Key("RD_VALUE") = 98
  /\ Key("SCULL_IOCRESET") = 0
  /\ Key("SCULL_IOCSQUANTUM") = 1 /\ Key("SCULL_IOCSQSET") = 2
  /\ Key("SCULL_IOCTQUANTUM") = 3 /\ Key("SCULL_IOCTQSET") = 4
  /\ Key("SCULL_IOCGQUANTUM") = 5 /\ Key("SCULL_IOCGQSET") = 6
  /\ Key("SCULL_IOCQQUANTUM") = 7 /\ Key("SCULL_IOCQQSET") = 8
  /\ Key("SCULL_IOCXQUANTUM") = 9 /\ Key("SCULL_IOCXQSET") = 10
  /\ Key("SCULL_IOCHQUANTUM") = 11 /\ Key("SCULL_IOCHQSET") = 12
  BY EtxNumbers, ScullNumbers, MadeIsTaken

LEMMA KeysDiffer ==
  ASSUME NEW c \in Commands, NEW d \in Commands, Key(c) = Key(d)
  PROVE  c = d
  BY Keys DEF Commands, EtxNumber, ScullNumber

LEMMA NumbersDiffer ==
  ASSUME NEW c \in Commands, NEW d \in Commands, Number(c) = Number(d)
  PROVE  c = d
<1>1. Key(c) = Key(d)
      BY DEF Key
<1> QED
    BY <1>1, KeysDiffer

-----------------------------------------------------------------------------
(* The driver's global, the arguments and the last call keep to their       *)
(* values.                                                                  *)
LEMMA IoctlTypeInit == IoctlInit => IoctlTypeOK
  BY IoctlAssumption DEF IoctlAssumption, IoctlInit, IoctlTypeOK

LEMMA IoctlTypeStep == IoctlTypeOK /\ [IoctlNext]_ioctlVars => IoctlTypeOK'
<1> SUFFICES ASSUME IoctlTypeOK, [IoctlNext]_ioctlVars PROVE IoctlTypeOK'
    OBVIOUS
<1>1. ASSUME NEW p \in Callers, NEW v \in Ints, SetArg(p, v) PROVE IoctlTypeOK'
      BY <1>1 DEF SetArg, IoctlTypeOK
<1>2. ASSUME NEW p \in Callers, NEW c \in Commands, etx_ioctl(p, c) PROVE IoctlTypeOK'
  <2>1. value' \in Ints /\ arg' \in [Callers -> Ints]
        BY <1>2, IoctlAssumption
        DEF IoctlAssumption, etx_ioctl, EtxWrite, EtxRead, IoctlTypeOK
  <2>2. \E fault \in BOOLEAN : last' = [by |-> p, cmd |-> c, fault |-> fault, ret |-> 0]
        BY <1>2 DEF etx_ioctl
  <2> QED
      BY <2>1, <2>2 DEF IoctlTypeOK
<1>3. CASE UNCHANGED ioctlVars
      BY <1>3 DEF ioctlVars, IoctlTypeOK
<1> QED
    BY <1>1, <1>2, <1>3 DEF IoctlNext

THEOREM IoctlTypeCorrect == IoctlSpec => []IoctlTypeOK
  BY IoctlTypeInit, IoctlTypeStep, PTL DEF IoctlSpec

(* Of all commands of the two drivers, none can be taken for another one by *)
(* a driver that is called with it, and each falls into its fields again.   *)
THEOREM CommandsAreUnique == IoctlSpec => []CommandsUnique
<1>1. CommandsUnique
  <2> SUFFICES ASSUME last.cmd \in Commands
               PROVE  LET n == Number(last.cmd)
                          f == Fields(n)
                      IN  {c \in Commands : Number(c) = n} = {last.cmd}
                          /\ IOC(f[1], f[2], f[3], f[4]) = n
      BY DEF CommandsUnique
  <2>1. {c \in Commands : Number(c) = Number(last.cmd)} = {last.cmd}
        BY NumbersDiffer
  <2>2. PICK dir, type, nr, size : Made(last.cmd, dir, type, nr, size)
        BY EveryCommandMade
  <2>3. Fields(Number(last.cmd)) = <<dir, type, nr, size>>
        BY <2>2, MadeIsTaken
  <2>4. Number(last.cmd) = IOC(dir, type, nr, size)
        BY <2>2 DEF Made
  <2> QED
      BY <2>1, <2>3, <2>4
<1> QED
    BY <1>1, PTL

(* Whatever commands programs send, the driver's value and a program's      *)
(* argument change only by the driver's own two, each in its direction.     *)
LEMMA OwnCasesOnly ==
  ASSUME NEW c \in Commands, NEW own \in DOMAIN EtxNumber, IsCase(own, c)
  PROVE  own = c
<1>1. own \in Commands /\ Number(own) = EtxNumber[own]
      BY DEF Commands, Number
<1> QED
    BY <1>1, NumbersDiffer DEF IsCase

THEOREM WrongDeviceIsHarmless == IoctlSpec => WrongDeviceHarmless
<1> DEFINE Harmless ==
      /\ value' # value => last'.cmd = "WR_VALUE" /\ value' \in {0, arg[last'.by]}
      /\ \A p \in Callers : arg'[p] # arg[p] /\ last'.by # Nobody =>
           last'.cmd = "RD_VALUE" /\ last'.by = p /\ arg'[p] = value
<1>1. IoctlTypeOK /\ [IoctlNext]_ioctlVars => [Harmless]_ioctlVars
  <2> SUFFICES ASSUME IoctlTypeOK, IoctlNext PROVE Harmless
      OBVIOUS
  <2>1. ASSUME NEW p \in Callers, NEW v \in Ints, SetArg(p, v) PROVE Harmless
        BY <2>1 DEF SetArg, IoctlTypeOK
  <2>2. ASSUME NEW p \in Callers, NEW c \in Commands, etx_ioctl(p, c) PROVE Harmless
    <3>1. last'.by = p /\ last'.cmd = c
          BY <2>2 DEF etx_ioctl
    <3>2. PICK fault \in BOOLEAN :
            \/ IsCase("WR_VALUE", c) /\ EtxWrite(p, fault)
            \/ IsCase("RD_VALUE", c) /\ EtxRead(p, fault)
            \/ UNCHANGED <<value, arg>>
          BY <2>2 DEF etx_ioctl
    <3>3. CASE IsCase("WR_VALUE", c) /\ EtxWrite(p, fault)
      <4>1. c = "WR_VALUE"
            BY <3>3, OwnCasesOnly DEF EtxNumber
      <4> QED
          BY <3>1, <3>3, <4>1 DEF EtxWrite
    <3>4. CASE IsCase("RD_VALUE", c) /\ EtxRead(p, fault)
      <4>1. c = "RD_VALUE"
            BY <3>4, OwnCasesOnly DEF EtxNumber
      <4> QED
          BY <3>1, <3>4, <4>1 DEF EtxRead, IoctlTypeOK
    <3>5. CASE UNCHANGED <<value, arg>>
          BY <3>5
    <3> QED
        BY <3>2, <3>3, <3>4, <3>5
  <2> QED
      BY <2>1, <2>2 DEF IoctlNext
<1> QED
    BY <1>1, IoctlTypeCorrect, PTL DEF IoctlSpec, WrongDeviceHarmless

-----------------------------------------------------------------------------
(* scull.                                                                   *)

(* A cdev that is on the map is there under its device's own number, and    *)
(* has been set up.                                                         *)
MapOwn ==
  \A n \in Numbers : cdev_map[n] # Nothing =>
    /\ scull_pc # "unloaded"
    /\ n = Devno(cdev_map[n])
    /\ cdev[cdev_map[n]] = SetupOwned(cdev_map[n], n)

(* So an open file has its device, the device's number and scull's methods. *)
FileOwn ==
  \A p \in Programs : filp[p] # NoFile =>
    LET i == filp[p].private_data
    IN  /\ i \in Devs /\ scull_pc # "unloaded"
        /\ filp[p].f_rdev = Devno(i) /\ filp[p].f_op = scull_fops
        /\ cdev[i] = SetupOwned(i, Devno(i))

StoredOwn == \A i \in Devs : stored[i] \subseteq {Devno(i)}

ScullInv == ScullTypeOK /\ MapOwn /\ FileOwn /\ StoredOwn

-----------------------------------------------------------------------------
(* A number made of major and minor is taken apart into the same two.       *)
LEMMA NumberParts ==
  ASSUME NEW base \in Nat \ {0}, NEW ma \in Nat, NEW mi \in Nat, mi < base
  PROVE  (ma * base + mi) \div base = ma /\ (ma * base + mi) % base = mi
  OBVIOUS

LEMMA DevnoFacts ==
  ASSUME NEW i \in Devs
  PROVE  /\ Devno(i) \in Numbers
         /\ MAJOR(Devno(i)) = scull_major /\ MINOR(Devno(i)) = scull_minor + i
<1>1. /\ MINORS \in Nat \ {0} /\ scull_major \in Nat /\ scull_minor + i \in Nat
      /\ scull_minor + i < MINORS
      BY ScullAssumption DEF ScullAssumption, Devs
<1>2. Devno(i) = scull_major * MINORS + (scull_minor + i)
      BY DEF Devno, MKDEV
<1>3. Devno(i) \in Numbers
      BY <1>1 DEF Devno, Numbers
<1>4. /\ (scull_major * MINORS + (scull_minor + i)) \div MINORS = scull_major
      /\ (scull_major * MINORS + (scull_minor + i)) % MINORS = scull_minor + i
      BY <1>1, NumberParts
<1> QED
    BY <1>2, <1>3, <1>4 DEF MAJOR, MINOR

LEMMA SetupFacts ==
  ASSUME NEW i \in Devs
  PROVE  /\ SetupOwned(i, Devno(i)) =
              [ops |-> scull_fops, owner |-> "scull", dev |-> Devno(i), count |-> 1]
         /\ SetupOwned(i, Devno(i)) \in
              [ops : SUBSET (file_operations \cup scull_fops), owner : {Nothing, "scull"},
               dev : Numbers \cup {0}, count : 0..1]
<1>1. SetupOwned(i, Devno(i)) =
        [ops |-> scull_fops, owner |-> "scull", dev |-> Devno(i), count |-> 1]
  <2> DEFINE c0 == cdev_init(scull_fops)
             c1 == [c0 EXCEPT !.owner = "scull"]
             c2 == [c1 EXCEPT !.dev = Devno(i)]
             c3 == [c2 EXCEPT !.count = 1]
  <2>1. c0 = [ops |-> scull_fops, owner |-> Nothing, dev |-> 0, count |-> 0]
        BY DEF cdev_init, NoCdev
  <2> HIDE DEF c0
  <2>2. c1 = [ops |-> scull_fops, owner |-> "scull", dev |-> 0, count |-> 0]
        BY <2>1
  <2> HIDE DEF c1
  <2>3. c2 = [ops |-> scull_fops, owner |-> "scull", dev |-> Devno(i), count |-> 0]
        BY <2>2
  <2> HIDE DEF c2
  <2>4. c3 = [ops |-> scull_fops, owner |-> "scull", dev |-> Devno(i), count |-> 1]
        BY <2>3
  <2>5. SetupOwned(i, Devno(i)) = c3
        BY Zenon DEF SetupOwned, c0, c1, c2
  <2> QED
      BY <2>4, <2>5
<1> QED
    BY <1>1, DevnoFacts

LEMMA NothingFacts == Nothing \notin Devs /\ Nothing # "scull" /\ N - 1 \in Devs /\ 0 \in Devs
  BY ScullAssumption DEF ScullAssumption, Devs

LEMMA NoFileFacts == NoFile.private_data = Nothing /\ NoFile.f_op = {}
  BY DEF NoFile

LEMMA BlankTypes ==
  /\ NoCdev \in [ops : SUBSET (file_operations \cup scull_fops), owner : {Nothing, "scull"},
                 dev : Numbers \cup {0}, count : 0..1]
  /\ NoFile \in [f_op : SUBSET (file_operations \cup scull_fops),
                 f_rdev : Numbers \cup {0}, private_data : Devs \cup {Nothing}]
  BY DEF NoCdev, NoFile

-----------------------------------------------------------------------------
LEMMA ScullInvInit == ScullInit => ScullInv
  BY BlankTypes, NothingFacts
  DEF ScullInit, ScullInv, ScullTypeOK, MapOwn, FileOwn, StoredOwn

LEMMA ScullInsmodStep == ScullInv /\ ScullInsmod => ScullInv'
  BY NothingFacts DEF ScullInsmod, ScullInv, ScullTypeOK, MapOwn, FileOwn, StoredOwn

LEMMA SetupStep ==
  ASSUME ScullInv, scull_setup_cdev
  PROVE  ScullInv'
<1> DEFINE own == SetupOwned(index, Devno(index))
<1>1. /\ index \in Devs /\ scull_pc = "setup" /\ UNCHANGED <<filp, stored>>
      /\ cdev' = [cdev EXCEPT ![index] = own]
      /\ cdev_map' \in {cdev_map, [cdev_map EXCEPT ![Devno(index)] = index]}
      BY DEF scull_setup_cdev, ScullInv, ScullTypeOK
<1>2. scull_pc' \in {"setup", "loaded"} /\ index' \in Devs
      BY <1>1, NothingFacts, ScullAssumption
      DEF scull_setup_cdev, NextDevice, Devs, ScullAssumption
<1> HIDE DEF own
<1>3. ScullTypeOK'
  <2>1. cdev' \in [Devs -> [ops : SUBSET (file_operations \cup scull_fops),
                            owner : {Nothing, "scull"}, dev : Numbers \cup {0}, count : 0..1]]
        BY <1>1, SetupFacts DEF ScullInv, ScullTypeOK, own
  <2>2. cdev_map' \in [Numbers -> Devs \cup {Nothing}]
        BY <1>1, DevnoFacts DEF ScullInv, ScullTypeOK
  <2> QED
      BY <1>1, <1>2, <2>1, <2>2 DEF ScullInv, ScullTypeOK
<1>4. \A i \in Devs : cdev'[i] = IF i = index THEN own ELSE cdev[i]
      BY <1>1 DEF ScullInv, ScullTypeOK
<1>5. \A i \in Devs : cdev[i] = SetupOwned(i, Devno(i)) => cdev'[i] = SetupOwned(i, Devno(i))
      BY <1>4 DEF own
<1>6. MapOwn'
  <2> SUFFICES ASSUME NEW n \in Numbers, cdev_map'[n] # Nothing
               PROVE  /\ scull_pc' # "unloaded" /\ n = Devno(cdev_map'[n])
                      /\ cdev'[cdev_map'[n]] = SetupOwned(cdev_map'[n], n)
      BY DEF MapOwn
  <2>1. CASE cdev_map'[n] = cdev_map[n]
    <3>1. cdev_map[n] \in Devs
          BY <2>1 DEF ScullInv, ScullTypeOK
    <3> QED
        BY <1>2, <1>5, <2>1, <3>1 DEF ScullInv, MapOwn
  <2>2. CASE n = Devno(index) /\ cdev_map'[n] = index
        BY <1>1, <1>2, <1>4, <2>2 DEF own
  <2> QED
      BY <1>1, <2>1, <2>2 DEF ScullInv, ScullTypeOK
<1>7. FileOwn'
      BY <1>1, <1>2, <1>5 DEF ScullInv, FileOwn
<1>8. StoredOwn'
      BY <1>1 DEF ScullInv, StoredOwn
<1> QED
    BY <1>3, <1>6, <1>7, <1>8 DEF ScullInv

LEMMA OpenStep ==
  ASSUME ScullInv, NEW p \in Programs, NEW n \in Numbers, NEW wronly \in BOOLEAN,
         scull_open(p, n, wronly)
  PROVE  ScullInv'
<1> DEFINE i == cdev_map[n]
           file == [f_op |-> cdev[i].ops, f_rdev |-> n, private_data |-> i]
<1>1. /\ i # Nothing /\ filp' = [filp EXCEPT ![p] = file]
      /\ stored' = IF wronly THEN [stored EXCEPT ![i] = {}] ELSE stored
      /\ UNCHANGED <<scull_pc, index, cdev, cdev_map>>
      BY DEF scull_open
<1>2. /\ i \in Devs /\ n = Devno(i) /\ scull_pc # "unloaded"
      /\ cdev[i] = SetupOwned(i, Devno(i)) /\ cdev[i].ops = scull_fops
  <2>1. i \in Devs /\ n = Devno(i) /\ scull_pc # "unloaded" /\ cdev[i] = SetupOwned(i, n)
        BY <1>1 DEF ScullInv, ScullTypeOK, MapOwn
  <2>2. cdev[i].ops = scull_fops
        BY <2>1, SetupFacts
  <2> QED
      BY <2>1, <2>2
<1>3. /\ file.f_op = scull_fops /\ file.f_rdev = Devno(i) /\ file.private_data = i
      /\ file \in [f_op : SUBSET (file_operations \cup scull_fops),
                   f_rdev : Numbers \cup {0}, private_data : Devs \cup {Nothing}]
      BY <1>2
<1> HIDE DEF file, i
<1>4. \A q \in Programs : filp'[q] = IF q = p THEN file ELSE filp[q]
      BY <1>1 DEF ScullInv, ScullTypeOK
<1>5. ScullTypeOK'
      BY <1>1, <1>2, <1>3 DEF ScullInv, ScullTypeOK
<1>6. MapOwn'
      BY <1>1 DEF ScullInv, MapOwn
<1>7. FileOwn'
  <2>1. ASSUME NEW q \in Programs, q # p, filp[q] # NoFile
        PROVE  LET j == filp'[q].private_data
               IN  /\ j \in Devs /\ scull_pc # "unloaded"
                   /\ filp'[q].f_rdev = Devno(j) /\ filp'[q].f_op = scull_fops
                   /\ cdev[j] = SetupOwned(j, Devno(j))
        BY <1>4, <2>1 DEF ScullInv, FileOwn
  <2> QED
      BY <1>1, <1>2, <1>3, <1>4, <2>1 DEF FileOwn
<1>8. StoredOwn'
      BY <1>1, <1>2 DEF ScullInv, ScullTypeOK, StoredOwn
<1> QED
    BY <1>5, <1>6, <1>7, <1>8 DEF ScullInv

LEMMA ScullWriteStep ==
  ASSUME ScullInv, NEW p \in Programs, ScullWrite(p)
  PROVE  ScullInv'
<1> DEFINE i == filp[p].private_data
<1>1. /\ "write" \in filp[p].f_op /\ stored' = [stored EXCEPT ![i] = @ \cup {filp[p].f_rdev}]
      /\ UNCHANGED <<scull_pc, index, cdev, cdev_map, filp>>
      BY DEF ScullWrite
<1>2. filp[p] # NoFile
      BY <1>1, NoFileFacts
<1>3. i \in Devs /\ filp[p].f_rdev = Devno(i)
      BY <1>2 DEF ScullInv, FileOwn
<1> HIDE DEF i
<1>4. Devno(i) \in Numbers
      BY <1>3, DevnoFacts
<1>5. ScullTypeOK' /\ StoredOwn'
      BY <1>1, <1>3, <1>4 DEF ScullInv, ScullTypeOK, StoredOwn
<1> QED
    BY <1>1, <1>5 DEF ScullInv, MapOwn, FileOwn

LEMMA ScullReleaseStep ==
  ASSUME ScullInv, NEW p \in Programs, scull_release(p)
  PROVE  ScullInv'
<1>1. /\ filp' = [filp EXCEPT ![p] = NoFile]
      /\ UNCHANGED <<scull_pc, index, cdev, cdev_map, stored>>
      BY DEF scull_release
<1>2. \A q \in Programs : filp'[q] \in {filp[q], NoFile}
      BY <1>1 DEF ScullInv, ScullTypeOK
<1>3. ScullTypeOK'
      BY <1>1, BlankTypes DEF ScullInv, ScullTypeOK
<1>4. FileOwn'
      BY <1>1, <1>2 DEF ScullInv, FileOwn
<1> QED
    BY <1>1, <1>3, <1>4 DEF ScullInv, MapOwn, StoredOwn

LEMMA RmmodStep ==
  ASSUME ScullInv, ScullRmmod
  PROVE  ScullInv'
<1>1. \A p \in Programs : filp[p] = NoFile
  <2> SUFFICES ASSUME NEW p \in Programs, filp[p] # NoFile PROVE FALSE
      OBVIOUS
  <2>1. /\ filp[p].private_data \in Devs
        /\ cdev[filp[p].private_data] =
             SetupOwned(filp[p].private_data, Devno(filp[p].private_data))
        BY DEF ScullInv, FileOwn
  <2>2. cdev[filp[p].private_data].owner = "scull"
        BY <2>1, SetupFacts
  <2> QED
      BY <2>2 DEF ScullRmmod
<1>2. /\ scull_pc' = "unloaded" /\ index' = 0 /\ UNCHANGED filp
      /\ cdev' = [i \in Devs |-> NoCdev] /\ cdev_map' = [n \in Numbers |-> Nothing]
      /\ stored' = [i \in Devs |-> {}]
      BY DEF ScullRmmod
<1> QED
    BY <1>1, <1>2, BlankTypes, NothingFacts
    DEF ScullInv, ScullTypeOK, MapOwn, FileOwn, StoredOwn

LEMMA ScullInvStep == ScullInv /\ [ScullNext]_scullVars => ScullInv'
<1>1. CASE ScullInv /\ UNCHANGED scullVars
      BY <1>1 DEF scullVars, ScullInv, ScullTypeOK, MapOwn, FileOwn, StoredOwn
<1> QED
    BY <1>1, ScullInsmodStep, SetupStep, OpenStep, ScullWriteStep, ScullReleaseStep, RmmodStep
    DEF ScullNext

LEMMA ScullInvHolds == ScullSpec => []ScullInv
  BY ScullInvInit, ScullInvStep, PTL DEF ScullSpec

-----------------------------------------------------------------------------
(* Devices, map, files and contents keep to their values.                   *)
THEOREM ScullTypeCorrect == ScullSpec => []ScullTypeOK
<1>1. ScullInv => ScullTypeOK
      BY DEF ScullInv
<1> QED
    BY <1>1, ScullInvHolds, PTL

(* For any number of devices and any first number: a program is served by   *)
(* the device whose minor it opened, and what a device stores came through  *)
(* files of its own number.                                                 *)
THEOREM ScullIsRouted == ScullSpec => []ScullRouted
<1>1. ScullInv => ScullRouted
  <2> SUFFICES ASSUME ScullInv PROVE ScullRouted
      OBVIOUS
  <2>1. ASSUME NEW p \in Programs, filp[p].private_data # Nothing
        PROVE  /\ MAJOR(filp[p].f_rdev) = scull_major
               /\ MINOR(filp[p].f_rdev) = scull_minor + filp[p].private_data
    <3>1. filp[p] # NoFile
          BY <2>1, NoFileFacts
    <3>2. filp[p].private_data \in Devs /\ filp[p].f_rdev = Devno(filp[p].private_data)
          BY <3>1 DEF ScullInv, FileOwn
    <3> QED
        BY <3>2, DevnoFacts
  <2>2. ASSUME NEW i \in Devs, NEW n \in stored[i] PROVE MINOR(n) = scull_minor + i
        BY <2>2, DevnoFacts DEF ScullInv, StoredOwn
  <2> QED
      BY <2>1, <2>2 DEF ScullRouted
<1> QED
    BY <1>1, ScullInvHolds, PTL

(* An open device's module is loaded and its cdev has the methods the file  *)
(* was opened with, whoever tries to unload.                                *)
THEOREM OpenDeviceIsServed == ScullSpec => []OpenDeviceServed
<1>1. ScullInv => OpenDeviceServed
  <2> SUFFICES ASSUME ScullInv, NEW p \in Programs, filp[p].private_data # Nothing
               PROVE  /\ scull_pc # "unloaded"
                      /\ cdev[filp[p].private_data].ops = filp[p].f_op
      BY DEF OpenDeviceServed
  <2>1. filp[p] # NoFile
        BY NoFileFacts
  <2>2. /\ filp[p].private_data \in Devs /\ scull_pc # "unloaded"
        /\ filp[p].f_op = scull_fops
        /\ cdev[filp[p].private_data] =
             SetupOwned(filp[p].private_data, Devno(filp[p].private_data))
        BY <2>1 DEF ScullInv, FileOwn
  <2> QED
      BY <2>2, SetupFacts
<1> QED
    BY <1>1, ScullInvHolds, PTL

-----------------------------------------------------------------------------
(* The PCI driver.                                                          *)

PciInv == PciTypeOK /\ BoundOnlyWhileLoaded /\ AccessedEnabled /\ AcceptedRevision

LEMMA PciInvInit == PciInit => PciInv
  BY PciAssumption
  DEF PciAssumption, PciInit, PciInv, PciTypeOK, BoundOnlyWhileLoaded, AccessedEnabled,
      AcceptedRevision

LEMMA PciInvStep == PciInv /\ [PciNext]_pciVars => PciInv'
<1> SUFFICES ASSUME PciInv, [PciNext]_pciVars PROVE PciInv'
    OBVIOUS
<1>0. MaxEnable \in Nat /\ PciRev \in [PciDevs -> 0..255]
      BY PciAssumption DEF PciAssumption
<1> USE <1>0
    DEF PciInv, PciTypeOK, BoundOnlyWhileLoaded, AccessedEnabled, AcceptedRevision, ProbeGoto
<1>1. CASE pci_skel_init
      BY <1>1 DEF pci_skel_init
<1>2. CASE pci_skel_exit
      BY <1>2 DEF pci_skel_exit
<1>3. CASE ExitReturns
      BY <1>3 DEF ExitReturns
<1>4. ASSUME NEW d \in PciDevs, Plug(d) PROVE PciInv'
      BY <1>4 DEF Plug
<1>5. ASSUME NEW d \in PciDevs, Yank(d) PROVE PciInv'
      BY <1>5 DEF Yank
<1>6. ASSUME NEW d \in PciDevs, Unplug(d) PROVE PciInv'
  <2>1. d \in present \ alive /\ present' = present \ {d} /\ UNCHANGED <<table, pci_pc, alive>>
        BY <1>6 DEF Unplug
  <2>2. probe_pc' = [probe_pc EXCEPT ![d] = "none"] /\ enable_cnt' = [enable_cnt EXCEPT ![d] = 0]
        BY <1>6 DEF Unplug
  <2>3. PciTypeOK'
        BY <2>1, <2>2
  <2>4. \A c \in PciDevs : probe_pc'[c] \in {"enable", "revision", "bound"} => c # d
        BY <2>2
  <2>5. \A c \in PciDevs : c # d => probe_pc'[c] = probe_pc[c] /\ enable_cnt'[c] = enable_cnt[c]
        BY <2>2
  <2> QED
      BY <2>1, <2>3, <2>4, <2>5
<1>7. ASSUME NEW d \in PciDevs, ProbeStart(d) PROVE PciInv'
      BY <1>7 DEF ProbeStart
<1>8. ASSUME NEW d \in PciDevs, ProbeEnable(d) PROVE PciInv'
  <2>1. probe_pc[d] = "enable" /\ UNCHANGED <<table, pci_pc, present, alive>>
        BY <1>8 DEF ProbeEnable
  <2>2. CASE enable_cnt[d] < MaxEnable /\ enable_cnt' = [enable_cnt EXCEPT ![d] = @ + 1]
             /\ probe_pc' = [probe_pc EXCEPT ![d] = "revision"]
    <3>1. PciTypeOK'
          BY <2>1, <2>2
    <3>2. enable_cnt'[d] > 0
          BY <2>2
    <3>3. \A c \in PciDevs : c # d => probe_pc'[c] = probe_pc[c] /\ enable_cnt'[c] = enable_cnt[c]
          BY <2>2
    <3>4. probe_pc'[d] = "revision"
          BY <2>2
    <3> QED
        BY <2>1, <3>1, <3>2, <3>3, <3>4
  <2>3. CASE probe_pc' = [probe_pc EXCEPT ![d] = "refused"] /\ UNCHANGED enable_cnt
        BY <2>1, <2>3
  <2> QED
      BY <1>8, <2>2, <2>3 DEF ProbeEnable, Enabled
<1>9. ASSUME NEW d \in PciDevs, ProbeRevision(d) PROVE PciInv'
      BY <1>9 DEF ProbeRevision, skel_get_revision
<1>10. ASSUME NEW d \in PciDevs, Remove(d) PROVE PciInv'
      BY <1>10 DEF Remove
<1>11. CASE UNCHANGED pciVars
      BY <1>11 DEF pciVars
<1> QED
    BY <1>1, <1>2, <1>3, <1>4, <1>5, <1>6, <1>7, <1>8, <1>9, <1>10, <1>11 DEF PciNext

LEMMA PciInvHolds == PciSpec => []PciInv
  BY PciInvInit, PciInvStep, PTL DEF PciSpec

-----------------------------------------------------------------------------
(* The entries of the two tables, and where each ends.                      *)
LEMMA EhciTable == Before(EhciIds) = {1} /\ EhciIds[1] = PCI_DEVICE_CLASS(UsbClass(32), ClassBytes)
<1> DEFINE e == PCI_DEVICE_CLASS(UsbClass(32), ClassBytes)
<1>1. EhciIds = <<e, EndOfTable>>
      BY DEF EhciIds
<1>2. ~IsEnd(e)
      BY DEF IsEnd, PCI_DEVICE_CLASS, ClassBytes
<1>3. IsEnd(EndOfTable)
      BY DEF IsEnd, EndOfTable
<1> HIDE DEF e
<1>4. DOMAIN EhciIds = 1..2 /\ EhciIds[1] = e /\ EhciIds[2] = EndOfTable
      BY <1>1
<1>5. Before(EhciIds) = {1}
      BY <1>2, <1>3, <1>4 DEF Before
<1> QED
    BY <1>4, <1>5 DEF e

LEMMA I810Table ==
  /\ Before(I810Ids) = 1..5
  /\ \A i \in 1..5 : \E x \in I810Devices : I810Ids[i] = PCI_DEVICE("INTEL", x)
  /\ \A x \in I810Devices : \E i \in 1..5 : I810Ids[i] = PCI_DEVICE("INTEL", x)
<1> DEFINE e(x) == PCI_DEVICE("INTEL", x)
<1>1. I810Ids = <<e("82810_IG1"), e("82810_IG3"), e("82810E_IG"), e("82815_CGC"),
                  e("82845G_IG"), EndOfTable>>
      BY DEF I810Ids
<1>2. \A x : ~IsEnd(e(x))
      BY PciAssumption DEF IsEnd, PCI_DEVICE, PciAssumption
<1>3. IsEnd(EndOfTable)
      BY DEF IsEnd, EndOfTable
<1> HIDE DEF e
<1>4. /\ DOMAIN I810Ids = 1..6 /\ I810Ids[6] = EndOfTable
      /\ I810Ids[1] = e("82810_IG1") /\ I810Ids[2] = e("82810_IG3")
      /\ I810Ids[3] = e("82810E_IG") /\ I810Ids[4] = e("82815_CGC")
      /\ I810Ids[5] = e("82845G_IG")
      BY <1>1
<1>5. \A i \in 1..5 : ~IsEnd(I810Ids[i])
      BY <1>2, <1>4
<1>6. Before(I810Ids) = 1..5
      BY <1>3, <1>4, <1>5 DEF Before
<1>7. \A i \in 1..5 : \E x \in I810Devices : I810Ids[i] = e(x)
      BY <1>4 DEF I810Devices
<1>8. \A x \in I810Devices : \E i \in 1..5 : I810Ids[i] = e(x)
      BY <1>4 DEF I810Devices
<1> QED
    BY <1>6, <1>7, <1>8 DEF e

(* What one entry of each kind matches.                                     *)
LEMMA DeviceEntry ==
  ASSUME NEW id, NEW x \in I810Devices
  PROVE  Agrees(PCI_DEVICE("INTEL", x), id) <=> id.vendor = "INTEL" /\ id.device = x
<1> DEFINE e == PCI_DEVICE("INTEL", x)
<1>1. /\ e.vendor = "INTEL" /\ e.device = x
      /\ e.subvendor = PCI_ANY_ID /\ e.subdevice = PCI_ANY_ID /\ e.class_mask = {}
      BY DEF PCI_DEVICE
<1>2. PCI_ANY_ID # "INTEL" /\ PCI_ANY_ID # x
      BY PciAssumption DEF PciAssumption
<1> HIDE DEF e
<1>3. Agrees(e, id) <=>
        /\ e["vendor"] \in {PCI_ANY_ID, id["vendor"]} /\ e["device"] \in {PCI_ANY_ID, id["device"]}
        /\ e["subvendor"] \in {PCI_ANY_ID, id["subvendor"]}
        /\ e["subdevice"] \in {PCI_ANY_ID, id["subdevice"]}
      BY <1>1 DEF Agrees
<1>4. Agrees(e, id) <=> id.vendor = "INTEL" /\ id.device = x
      BY <1>1, <1>2, <1>3
<1> QED
    BY <1>4 DEF e

LEMMA ClassEntry ==
  ASSUME NEW id, id.class \in [ClassBytes -> 0..255]
  PROVE  Agrees(PCI_DEVICE_CLASS(UsbClass(32), ClassBytes), id) <=> id.class = UsbClass(32)
<1> DEFINE e == PCI_DEVICE_CLASS(UsbClass(32), ClassBytes)
<1>1. Agrees(e, id) <=> \A b \in ClassBytes : UsbClass(32)[b] = id.class[b]
      BY DEF Agrees, PCI_DEVICE_CLASS
<1>2. UsbClass(32) \in [ClassBytes -> 0..255]
      BY DEF UsbClass, ClassBytes
<1>3. (\A b \in ClassBytes : UsbClass(32)[b] = id.class[b]) <=> id.class = UsbClass(32)
      BY <1>2
<1> QED
    BY <1>1, <1>3

LEMMA MatchIsSupported ==
  ASSUME NEW d \in PciDevs, table \in DOMAIN Tables
  PROVE  Matches(d) <=> Supported(table, PciId[d])
<1> DEFINE id == PciId[d]
<1>1. id.class \in [ClassBytes -> 0..255]
      BY PciAssumption DEF PciAssumption
<1>2. table \in {"ehci", "i810"}
      BY DEF Tables
<1>3. CASE table = "ehci"
  <2>1. Tables[table] = EhciIds
        BY <1>3 DEF Tables
  <2>2. Matches(d) <=> Agrees(PCI_DEVICE_CLASS(UsbClass(32), ClassBytes), id)
        BY <2>1, EhciTable DEF Matches
  <2> QED
      BY <1>1, <1>3, <2>2, ClassEntry DEF Supported
<1>4. CASE table = "i810"
  <2>1. Tables[table] = I810Ids
        BY <1>4 DEF Tables
  <2>2. Matches(d) <=> \E x \in I810Devices : Agrees(PCI_DEVICE("INTEL", x), id)
        BY <2>1, I810Table DEF Matches
  <2>3. Matches(d) <=> id.vendor = "INTEL" /\ id.device \in I810Devices
        BY <2>2, DeviceEntry
  <2> QED
      BY <1>4, <2>3 DEF Supported
<1> QED
    BY <1>2, <1>3, <1>4

(* A function that was ever probed since it was plugged in is a match.      *)
ProbedMatches == \A d \in PciDevs : probe_pc[d] # "none" => Matches(d)

LEMMA ProbedMatchesStep == PciInv /\ ProbedMatches /\ [PciNext]_pciVars => ProbedMatches'
<1> SUFFICES ASSUME PciInv, ProbedMatches, [PciNext]_pciVars,
                    NEW d \in PciDevs, probe_pc'[d] # "none"
             PROVE  Matches(d)'
    BY DEF ProbedMatches
<1>1. table' = table
      BY DEF PciNext, pciVars, pci_skel_init, pci_skel_exit, ExitReturns, Plug, Yank, Unplug,
             ProbeStart, ProbeEnable, ProbeRevision, Remove
<1>2. Matches(d)' <=> Matches(d)
      BY <1>1 DEF Matches
<1>3. probe_pc[d] # "none" \/ Matches(d)
      BY DEF PciNext, pciVars, pci_skel_init, pci_skel_exit, ExitReturns, Plug, Yank, Unplug,
             ProbeStart, ProbeEnable, ProbeRevision, Remove, ProbeGoto, PciInv, PciTypeOK
<1> QED
    BY <1>2, <1>3 DEF ProbedMatches

-----------------------------------------------------------------------------
(* Module, bus, probes and enable counts keep to their values.              *)
THEOREM PciTypeCorrect == PciSpec => []PciTypeOK
<1>1. PciInv => PciTypeOK
      BY DEF PciInv
<1> QED
    BY <1>1, PciInvHolds, PTL

(* However functions come and go while probes run and the module is loaded  *)
(* and unloaded, none is bound to code that is gone.                        *)
THEOREM BoundWhileLoaded == PciSpec => []BoundOnlyWhileLoaded
<1>1. PciInv => BoundOnlyWhileLoaded
      BY DEF PciInv
<1> QED
    BY <1>1, PciInvHolds, PTL

(* No function is read or bound before it has been enabled since it was     *)
(* plugged in.                                                              *)
THEOREM AccessedOnlyEnabled == PciSpec => []AccessedEnabled
<1>1. PciInv => AccessedEnabled
      BY DEF PciInv
<1> QED
    BY <1>1, PciInvHolds, PTL

(* No function that answers is bound with the revision the driver refuses.  *)
THEOREM RevisionAccepted == PciSpec => []AcceptedRevision
<1>1. PciInv => AcceptedRevision
      BY DEF PciInv
<1> QED
    BY <1>1, PciInvHolds, PTL

(* For any identifications on the bus each table matches what its comment   *)
(* says, and only such functions are ever probed.                           *)
THEOREM TablesExact == PciSpec => []MatchesExactly
<1>1. PciInit => ProbedMatches
      BY DEF PciInit, ProbedMatches
<1>2. PciInv /\ ProbedMatches => MatchesExactly
      BY MatchIsSupported DEF PciInv, PciTypeOK, ProbedMatches, MatchesExactly
<1>3. PciSpec => []ProbedMatches
      BY <1>1, ProbedMatchesStep, PciInvHolds, PTL DEF PciSpec
<1> QED
    BY <1>2, <1>3, PciInvHolds, PTL
=============================================================================
