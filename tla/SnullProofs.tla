----------------------------- MODULE SnullProofs -----------------------------
(***************************************************************************)
(* Proofs about Snull, for any socket buffers, packet buffers, weight and   *)
(* number of arrivals, with reception by interrupt and by polling.          *)
(***************************************************************************)
EXTENDS Snull, FiniteSetTheorems, TLAPS

USE SnullAssumption DEF Callers, Contexts, Goto

InHandler == {"clear", "rx", "tx"}

(* Where each context can be, and who has the lock.                         *)
Places ==
  /\ pc["xmit"] \in {"idle", "hw", "irq", "release"} \cup InHandler
  /\ pc["peer"] \in {"idle", "irq", "release"} \cup InHandler
  /\ pc["watchdog"] \in {"idle", "irq", "release", "wake"} \cup InHandler
  /\ pc["poll"] \in {"idle", "loop", "packet", "test", "enable"}

LockHeld == \A c \in Callers : pc[c] \in InHandler <=> lock = c

(* The transmit path and the watchdog exclude each other, and what each     *)
(* finds when it begins stays as it is until it ends.                       *)
TxSide ==
  /\ pc["xmit"] = "idle" \/ pc["watchdog"] = "idle"
  /\ pc["xmit"] # "idle" => queue = "started"
  /\ pc["watchdog"] # "idle" => up

(* Some context has raised a transmit interrupt it has not yet seen served. *)
TxRaised(S) == pc["xmit"] \in S \/ pc["watchdog"] \in S

(* The interrupt is raised for a buffer the driver answers for, and served  *)
(* once: the bit is in the status word or in one handler's copy.            *)
TxServed ==
  /\ pc["xmit"] = "hw" => owner[skb] = "driver"
  /\ up /\ queue = "stopped" /\ pc["watchdog"] = "idle" => owner[skb] = "driver"
  /\ "TX" \in status => owner[skb] = "driver" /\ TxRaised({"irq", "clear"})
  /\ \A c \in Callers : pc[c] \in InHandler /\ "TX" \in word[c] =>
       /\ owner[skb] = "driver" /\ TxRaised({"irq"} \cup InHandler)
       /\ pc[c] # "clear" => "TX" \notin status

(* The same of receive interrupts, which only the peer raises and which are *)
(* served when the handler leaves the place "rx".                           *)
RxServed ==
  /\ "RX" \in status => pc["peer"] \in {"irq", "clear"} /\ rx_ints
  /\ \A c \in Callers : pc[c] \in {"clear", "rx"} /\ "RX" \in word[c] =>
       /\ pc["peer"] \in {"irq", "clear", "rx"} /\ rx_ints
       /\ pc[c] = "rx" => "RX" \notin status

(* The interface stays on the list until the poll has found the queue empty,*)
(* and nobody puts it back before interrupts are enabled.                   *)
PollListed ==
  /\ pc["poll"] \in {"loop", "packet", "test"} => polling
  /\ pc["poll"] = "enable" => ~polling

(* Who has a packet in its hands.                                           *)
PacketHeld ==
  /\ \A c \in Callers : pkt[c] # NULL => pc[c] \in {"tx", "release"}
  /\ pkt["poll"] # NULL <=> pc["poll"] = "packet"
  /\ pc["poll"] = "packet" => quota > 0
  /\ ~use_napi => ~polling /\ pc["poll"] = "idle"

Control == Places /\ LockHeld /\ TxSide /\ TxServed /\ RxServed /\ PollListed /\ PacketHeld

-----------------------------------------------------------------------------
LEMMA ControlStep ==
  ASSUME TypeOK, Control, MaskedWhilePolled, Next
  PROVE  Control' /\ MaskedWhilePolled'
<1> USE DEF Control, TypeOK, Places, LockHeld, TxSide, TxRaised, TxServed, RxServed,
            PollListed, PacketHeld, MaskedWhilePolled, InHandler, tx, rx, irq, napi
<1>1. CASE snull_open
      BY <1>1 DEF snull_open
<1>2. CASE snull_release
      BY <1>2 DEF snull_release
<1>3. ASSUME NEW s \in Skbs, snull_tx(s) PROVE Control' /\ MaskedWhilePolled'
      BY <1>3 DEF snull_tx
<1>4. CASE HwTx
      BY <1>4 DEF HwTx
<1>5. CASE Arrive
      BY <1>5 DEF Arrive
<1>6. CASE snull_tx_timeout
      BY <1>6 DEF snull_tx_timeout
<1>7. CASE WakeQueue
      BY <1>7 DEF WakeQueue
<1>8. ASSUME NEW c \in Callers, ReadStatus(c) PROVE Control' /\ MaskedWhilePolled'
      BY <1>8 DEF ReadStatus
<1>9. ASSUME NEW c \in Callers, ClearStatus(c) PROVE Control' /\ MaskedWhilePolled'
      BY <1>9 DEF ClearStatus
<1>10. ASSUME NEW c \in Callers, HandleRx(c) PROVE Control' /\ MaskedWhilePolled'
      BY <1>10 DEF HandleRx
<1>11. ASSUME NEW c \in Callers, ScheduleRx(c) PROVE Control' /\ MaskedWhilePolled'
      BY <1>11 DEF ScheduleRx
<1>12. ASSUME NEW c \in Callers, HandleTx(c) PROVE Control' /\ MaskedWhilePolled'
      BY <1>12 DEF HandleTx
<1>13. ASSUME NEW c \in Callers, ReleaseBuffer(c) PROVE Control' /\ MaskedWhilePolled'
      BY <1>13 DEF ReleaseBuffer
<1>14. CASE PollStart
      BY <1>14 DEF PollStart
<1>15. CASE PollDequeue
      BY <1>15 DEF PollDequeue
<1>16. CASE PollPacket
      BY <1>16 DEF PollPacket
<1>17. CASE PollLeaveLoop
      BY <1>17 DEF PollLeaveLoop
<1>18. CASE PollTest
  <2>1. CASE rx_queue = << >>
        BY <1>18, <2>1 DEF PollTest
  <2>2. CASE rx_queue # << >>
        BY <1>18, <2>2 DEF PollTest
  <2> QED
      BY <2>1, <2>2
<1>19. CASE PollEnable
      BY <1>19 DEF PollEnable
<1> QED
    BY <1>1, <1>2, <1>3, <1>4, <1>5, <1>6, <1>7, <1>8, <1>9, <1>10, <1>11, <1>12, <1>13,
       <1>14, <1>15, <1>16, <1>17, <1>18, <1>19 DEF Next, Interrupt, snull_poll

-----------------------------------------------------------------------------
(* Packet buffers.                                                          *)
Holders == {c \in Contexts : pkt[c] # NULL}

LEMMA HoldersFinite == IsFiniteSet(Holders) /\ Cardinality(Holders) \in Nat
<1>1. IsFiniteSet(Contexts)
  <2>1. IsFiniteSet({"xmit"}) /\ IsFiniteSet({"peer"})
        BY FS_Singleton
  <2>2. IsFiniteSet({"watchdog"}) /\ IsFiniteSet({"poll"})
        BY FS_Singleton
  <2>3. IsFiniteSet({"xmit"} \cup {"peer"}) /\ IsFiniteSet({"watchdog"} \cup {"poll"})
        BY <2>1, <2>2, FS_Union
  <2>4. IsFiniteSet(({"xmit"} \cup {"peer"}) \cup ({"watchdog"} \cup {"poll"}))
        BY <2>3, FS_Union
  <2>5. Contexts = ({"xmit"} \cup {"peer"}) \cup ({"watchdog"} \cup {"poll"})
        OBVIOUS
  <2> QED
      BY <2>4, <2>5
<1>2. Holders \subseteq Contexts
      BY DEF Holders
<1>3. IsFiniteSet(Holders)
      BY <1>1, <1>2, FS_Subset
<1> QED
    BY <1>3, FS_CardinalityType

(* A context that takes a packet is one holder more, one that gives it up   *)
(* one less.                                                                *)
LEMMA HoldersTake ==
  ASSUME NEW c \in Contexts, pkt[c] = NULL, pkt \in [Contexts -> 1..MaxArrivals \cup {NULL}],
         NEW n \in 1..MaxArrivals, pkt' = [pkt EXCEPT ![c] = n]
  PROVE  Cardinality(Holders') = Cardinality(Holders) + 1
<1>1. Holders' = Holders \cup {c} /\ c \notin Holders
      BY DEF Holders
<1> QED
    BY <1>1, HoldersFinite, FS_AddElement

LEMMA HoldersGive ==
  ASSUME NEW c \in Contexts, pkt[c] # NULL, pkt \in [Contexts -> 1..MaxArrivals \cup {NULL}],
         pkt' = [pkt EXCEPT ![c] = NULL]
  PROVE  /\ Cardinality(Holders') = Cardinality(Holders) - 1
         /\ Cardinality(Holders) > 0
<1>1. Holders' = Holders \ {c} /\ c \in Holders
      BY DEF Holders
<1>2. Cardinality(Holders') = Cardinality(Holders) - 1
      BY <1>1, HoldersFinite, FS_RemoveElement
<1>3. Holders # {}
      BY <1>1
<1> QED
    BY <1>2, <1>3, HoldersFinite, FS_EmptySet

LEMMA Conserved == BuffersConserved <=> pool + Len(rx_queue) + Cardinality(Holders) = PoolSize
  BY DEF BuffersConserved, Holders

LEMMA BuffersStep ==
  ASSUME TypeOK, Control, BuffersConserved, Next
  PROVE  BuffersConserved' /\ pool' \in 0..PoolSize
<1> USE Conserved, HoldersFinite DEF TypeOK, tx, rx, irq, napi
<1>1. CASE UNCHANGED <<pool, rx_queue, pkt>>
      BY <1>1 DEF BuffersConserved
<1>2. CASE Arrive
  <2>1. Len(rx_queue') = Len(rx_queue) + 1 /\ pool' = pool - 1
        BY <1>2 DEF Arrive
  <2>2. pool > 0
        BY <1>2 DEF Arrive
  <2>3. Cardinality(Holders') = Cardinality(Holders)
        BY <1>2 DEF Arrive, Holders
  <2> QED
      BY <2>1, <2>2, <2>3 DEF BuffersConserved, Holders
<1>3. ASSUME NEW c \in Callers, HandleRx(c) PROVE BuffersConserved' /\ pool' \in 0..PoolSize
  <2>1. CASE "RX" \in word[c] /\ rx_queue # << >>
    <3>1. /\ Head(rx_queue) \in 1..MaxArrivals /\ Len(rx_queue') = Len(rx_queue) - 1
          /\ pkt' = [pkt EXCEPT ![c] = Head(rx_queue)] /\ pool' = pool
          BY <1>3, <2>1 DEF HandleRx
    <3>2. pkt[c] = NULL
          BY <1>3 DEF HandleRx, Control, PacketHeld
    <3>3. Cardinality(Holders') = Cardinality(Holders) + 1
          BY <3>1, <3>2, HoldersTake
    <3> QED
        BY <3>1, <3>3 DEF BuffersConserved, Holders
  <2>2. CASE ~("RX" \in word[c] /\ rx_queue # << >>)
        BY <1>1, <1>3, <2>2 DEF HandleRx
  <2> QED
      BY <2>1, <2>2
<1>4. ASSUME NEW c \in Callers, ReleaseBuffer(c)
      PROVE  BuffersConserved' /\ pool' \in 0..PoolSize
  <2>1. CASE pkt[c] = NULL
    <3>1. UNCHANGED <<pool, rx_queue, pkt>>
          BY <1>4, <2>1 DEF ReleaseBuffer
    <3> QED
        BY <1>1, <3>1
  <2>2. CASE pkt[c] # NULL
    <3>1. pkt' = [pkt EXCEPT ![c] = NULL] /\ pool' = pool + 1 /\ rx_queue' = rx_queue
          BY <1>4, <2>2 DEF ReleaseBuffer
    <3>2. Cardinality(Holders') = Cardinality(Holders) - 1 /\ Cardinality(Holders) > 0
          BY <2>2, <3>1, HoldersGive
    <3> QED
        BY <3>1, <3>2 DEF BuffersConserved, Holders
  <2> QED
      BY <2>1, <2>2
<1>5. CASE PollDequeue
  <2>1. /\ Head(rx_queue) \in 1..MaxArrivals /\ Len(rx_queue') = Len(rx_queue) - 1
        /\ pkt' = [pkt EXCEPT !["poll"] = Head(rx_queue)] /\ pool' = pool
        BY <1>5 DEF PollDequeue
  <2>2. pkt["poll"] = NULL
        BY <1>5 DEF PollDequeue, Control, PacketHeld
  <2>3. Cardinality(Holders') = Cardinality(Holders) + 1
        BY <2>1, <2>2, HoldersTake
  <2> QED
      BY <2>1, <2>3 DEF BuffersConserved, Holders
<1>6. CASE PollPacket
  <2>1. pkt["poll"] # NULL /\ pkt' = [pkt EXCEPT !["poll"] = NULL]
        BY <1>6 DEF PollPacket, Control, PacketHeld
  <2>2. pool' = pool + 1 /\ rx_queue' = rx_queue
        BY <1>6 DEF PollPacket
  <2>3. Cardinality(Holders') = Cardinality(Holders) - 1 /\ Cardinality(Holders) > 0
        BY <2>1, HoldersGive
  <2> QED
      BY <2>2, <2>3 DEF BuffersConserved, Holders
<1>7. \/ UNCHANGED <<pool, rx_queue, pkt>> \/ Arrive \/ PollDequeue \/ PollPacket
      \/ \E c \in Callers : HandleRx(c) \/ ReleaseBuffer(c)
      BY DEF Next, Interrupt, snull_poll, snull_open, snull_release, snull_tx, HwTx,
             snull_tx_timeout, WakeQueue, ReadStatus, ClearStatus, ScheduleRx, HandleTx,
             PollStart, PollLeaveLoop, PollTest, PollEnable
<1> QED
    BY <1>1, <1>2, <1>3, <1>4, <1>5, <1>6, <1>7

-----------------------------------------------------------------------------
(* What the queue and the list of deliveries become.                        *)
LEMMA AppendFacts ==
  ASSUME NEW S, NEW s \in Seq(S), NEW x \in S
  PROVE  /\ Append(s, x) \in Seq(S) /\ Len(Append(s, x)) = Len(s) + 1
         /\ \A i \in 1..Len(s) : Append(s, x)[i] = s[i]
         /\ Append(s, x)[Len(s) + 1] = x
  OBVIOUS

LEMMA TailFacts ==
  ASSUME NEW S, NEW s \in Seq(S), s # << >>
  PROVE  /\ Tail(s) \in Seq(S) /\ Len(Tail(s)) = Len(s) - 1 /\ Len(s) \in Nat \ {0}
         /\ Head(s) \in S /\ Head(s) = s[1]
         /\ \A i \in 1..Len(s) - 1 : Tail(s)[i] = s[i + 1]
  OBVIOUS

LEMMA TypeStep ==
  ASSUME TypeOK, Control, BuffersConserved, Next
  PROVE  TypeOK'
<1>1. pool' \in 0..PoolSize
      BY BuffersStep
<1> USE DEF TypeOK, tx, rx, irq, napi
<1>2. CASE snull_open
      BY <1>2 DEF snull_open
<1>3. CASE snull_release
      BY <1>3 DEF snull_release
<1>4. ASSUME NEW s \in Skbs, snull_tx(s) PROVE TypeOK'
      BY <1>4 DEF snull_tx
<1>5. CASE HwTx
      BY <1>5, ZenonT(60) DEF HwTx
<1>6. CASE Arrive
  <2>1. arrived + 1 \in 1..MaxArrivals /\ arrived' = arrived + 1
        BY <1>6 DEF Arrive
  <2>2. rx_queue' = Append(rx_queue, arrived + 1)
        BY <1>6 DEF Arrive
  <2>3. rx_queue' \in Seq(1..MaxArrivals)
        BY <2>1, <2>2, AppendFacts
  <2>4. status' \in SUBSET {"RX", "TX"}
        BY <1>6 DEF Arrive
  <2>5. pc' \in [Contexts -> {"idle", "hw", "irq", "clear", "rx", "tx", "release", "wake",
                             "loop", "packet", "test", "enable"}]
        BY <1>6 DEF Arrive
  <2>6. UNCHANGED <<tx, irq, delivered, napi>> /\ arrived' \in 0..MaxArrivals
        BY <1>6, <2>1 DEF Arrive
  <2> QED
      BY <1>1, <2>3, <2>4, <2>5, <2>6
<1>7. CASE snull_tx_timeout
      BY <1>7 DEF snull_tx_timeout
<1>8. CASE WakeQueue
      BY <1>8 DEF WakeQueue, Control, TxSide
<1>9. ASSUME NEW c \in Callers, ReadStatus(c) PROVE TypeOK'
      BY <1>9 DEF ReadStatus
<1>10. ASSUME NEW c \in Callers, ClearStatus(c) PROVE TypeOK'
      BY <1>10 DEF ClearStatus
<1>11. ASSUME NEW c \in Callers, HandleRx(c) PROVE TypeOK'
  <2>1. CASE "RX" \in word[c] /\ rx_queue # << >>
    <3>1. Head(rx_queue) \in 1..MaxArrivals /\ Tail(rx_queue) \in Seq(1..MaxArrivals)
          BY <2>1, TailFacts
    <3>2. Append(delivered, Head(rx_queue)) \in Seq(1..MaxArrivals)
          BY <3>1, AppendFacts
    <3>3. delivered' \in Seq(1..MaxArrivals) /\ rx_queue' \in Seq(1..MaxArrivals)
          BY <1>11, <2>1, <3>1, <3>2 DEF HandleRx, snull_rx
    <3>4. /\ pkt' = [pkt EXCEPT ![c] = Head(rx_queue)] /\ pc' = [pc EXCEPT ![c] = "tx"]
          /\ UNCHANGED <<tx, pool, arrived, status, lock, word, napi>>
          BY <1>11, <2>1 DEF HandleRx
    <3>5. pkt' \in [Contexts -> 1..MaxArrivals \cup {NULL}]
          BY <3>1, <3>4
    <3>6. pc' \in [Contexts -> {"idle", "hw", "irq", "clear", "rx", "tx", "release", "wake",
                               "loop", "packet", "test", "enable"}]
          BY <3>4
    <3> QED
        BY <3>3, <3>4, <3>5, <3>6
  <2>2. CASE ~("RX" \in word[c] /\ rx_queue # << >>)
        BY <1>11, <2>2 DEF HandleRx
  <2> QED
      BY <2>1, <2>2
<1>12. ASSUME NEW c \in Callers, ScheduleRx(c) PROVE TypeOK'
      BY <1>12 DEF ScheduleRx
<1>13. ASSUME NEW c \in Callers, HandleTx(c) PROVE TypeOK'
      BY <1>13 DEF HandleTx
<1>14. ASSUME NEW c \in Callers, ReleaseBuffer(c) PROVE TypeOK'
      BY <1>1, <1>14 DEF ReleaseBuffer
<1>15. CASE PollStart
      BY <1>15 DEF PollStart
<1>16. CASE PollDequeue
      BY <1>16 DEF PollDequeue
<1>17. CASE PollPacket
  <2>1. pkt["poll"] \in 1..MaxArrivals /\ quota > 0
        BY <1>17 DEF PollPacket, Control, PacketHeld
  <2>2. Append(delivered, pkt["poll"]) \in Seq(1..MaxArrivals)
        BY <2>1, AppendFacts
  <2>3. delivered' \in Seq(1..MaxArrivals)
        BY <1>17, <2>2 DEF PollPacket
  <2>4. quota' \in 0..Weight
        BY <1>17, <2>1 DEF PollPacket
  <2> QED
      BY <1>1, <1>17, <2>3, <2>4 DEF PollPacket
<1>18. CASE PollLeaveLoop
      BY <1>18 DEF PollLeaveLoop
<1>19. CASE PollTest
  <2>1. /\ UNCHANGED <<tx, rx, irq, status, use_napi, rx_ints, quota>>
        /\ polling' \in BOOLEAN
        BY <1>19 DEF PollTest
  <2>2. pc' \in [Contexts -> {"idle", "hw", "irq", "clear", "rx", "tx", "release", "wake",
                             "loop", "packet", "test", "enable"}]
        BY <1>19 DEF PollTest
  <2> QED
      BY <2>1, <2>2
<1>20. CASE PollEnable
      BY <1>20 DEF PollEnable
<1> QED
    BY <1>2, <1>3, <1>4, <1>5, <1>6, <1>7, <1>8, <1>9, <1>10, <1>11, <1>12, <1>13,
       <1>14, <1>15, <1>16, <1>17, <1>18, <1>19, <1>20 DEF Next, Interrupt, snull_poll

-----------------------------------------------------------------------------
(* The order of packets: those delivered, then the one the poll has, then   *)
(* those in the queue, all of them arrived.                                 *)
Increasing(s) == \A i, j \in 1..Len(s) : i < j => s[i] < s[j]
Below(s, x)   == \A i \in 1..Len(s) : s[i] < x
Above(x, s)   == \A i \in 1..Len(s) : x < s[i]

Order ==
  /\ Increasing(delivered) /\ Increasing(rx_queue)
  /\ Below(delivered, arrived + 1) /\ Below(rx_queue, arrived + 1)
  /\ \A i \in 1..Len(delivered) : Above(delivered[i], rx_queue)
  /\ pkt["poll"] # NULL =>
       Below(delivered, pkt["poll"]) /\ Above(pkt["poll"], rx_queue) /\ pkt["poll"] <= arrived

LEMMA IncreasingAppend ==
  ASSUME NEW s \in Seq(Nat), NEW x \in Nat, Increasing(s), Below(s, x)
  PROVE  Increasing(Append(s, x))
<1>1. \A i \in 1..Len(s) + 1 : i \in 1..Len(s) \/ i = Len(s) + 1
      OBVIOUS
<1> QED
    BY <1>1, AppendFacts DEF Increasing, Below

LEMMA BelowAppend ==
  ASSUME NEW s \in Seq(Nat), NEW x \in Nat, NEW y \in Nat, Below(s, y), x < y
  PROVE  Below(Append(s, x), y)
<1>1. \A i \in 1..Len(s) + 1 : i \in 1..Len(s) \/ i = Len(s) + 1
      OBVIOUS
<1> QED
    BY <1>1, AppendFacts DEF Below

LEMMA AboveAppend ==
  ASSUME NEW s \in Seq(Nat), NEW x \in Nat, NEW y \in Nat, Above(y, s), y < x
  PROVE  Above(y, Append(s, x))
<1>1. \A i \in 1..Len(s) + 1 : i \in 1..Len(s) \/ i = Len(s) + 1
      OBVIOUS
<1> QED
    BY <1>1, AppendFacts DEF Above

(* The head of an increasing queue is below the rest, which keeps its bounds.*)
LEMMA TailOrder ==
  ASSUME NEW s \in Seq(Nat), s # << >>, Increasing(s)
  PROVE  /\ Increasing(Tail(s)) /\ Above(Head(s), Tail(s)) /\ Head(s) \in Nat
         /\ \A y \in Nat : Below(s, y) => Below(Tail(s), y) /\ Head(s) < y
         /\ \A y \in Nat : Above(y, s) => Above(y, Tail(s)) /\ y < Head(s)
<1>1. /\ Tail(s) \in Seq(Nat) /\ Len(Tail(s)) = Len(s) - 1 /\ Len(s) \in Nat \ {0}
      /\ Head(s) \in Nat /\ Head(s) = s[1]
      /\ \A i \in 1..Len(s) - 1 : Tail(s)[i] = s[i + 1]
      BY TailFacts
<1>2. \A i \in 1..Len(s) - 1 : i + 1 \in 1..Len(s) /\ 1 < i + 1
      BY <1>1
<1>3. 1 \in 1..Len(s)
      BY <1>1
<1>4. Increasing(Tail(s))
  <2> SUFFICES ASSUME NEW i \in 1..Len(Tail(s)), NEW j \in 1..Len(Tail(s)), i < j
               PROVE  Tail(s)[i] < Tail(s)[j]
      BY DEF Increasing
  <2>1. /\ Tail(s)[i] = s[i + 1] /\ Tail(s)[j] = s[j + 1] /\ i + 1 < j + 1
        /\ i + 1 \in 1..Len(s) /\ j + 1 \in 1..Len(s)
        BY <1>1, <1>2
  <2> QED
      BY <2>1 DEF Increasing
<1>5. Above(Head(s), Tail(s))
      BY <1>1, <1>2, <1>3 DEF Increasing, Above
<1>6. \A y \in Nat : Below(s, y) => Below(Tail(s), y) /\ Head(s) < y
      BY <1>1, <1>2, <1>3 DEF Below
<1>7. \A y \in Nat : Above(y, s) => Above(y, Tail(s)) /\ y < Head(s)
      BY <1>1, <1>2, <1>3 DEF Above
<1> QED
    BY <1>1, <1>4, <1>5, <1>6, <1>7

LEMMA OrderTypes ==
  ASSUME TypeOK
  PROVE  /\ delivered \in Seq(Nat) /\ rx_queue \in Seq(Nat) /\ arrived \in Nat
         /\ \A i \in 1..Len(delivered) : delivered[i] \in Nat
         /\ pkt["poll"] # NULL => pkt["poll"] \in Nat
  BY DEF TypeOK

(* Delivering a packet that is above all delivered and below the queue.     *)
LEMMA DeliverOrder ==
  ASSUME NEW d \in Seq(Nat), NEW q \in Seq(Nat), NEW x \in Nat,
         Increasing(d), Below(d, x), Above(x, q),
         \A i \in 1..Len(d) : Above(d[i], q)
  PROVE  /\ Increasing(Append(d, x))
         /\ \A i \in 1..Len(Append(d, x)) : Above(Append(d, x)[i], q)
<1>1. \A i \in 1..Len(Append(d, x)) : i \in 1..Len(d) \/ i = Len(d) + 1
      BY AppendFacts
<1>2. \A i \in 1..Len(Append(d, x)) : Above(Append(d, x)[i], q)
      BY <1>1, AppendFacts
<1> QED
    BY <1>2, IncreasingAppend

LEMMA OrderStep ==
  ASSUME TypeOK, Control, Order, Next
  PROVE  Order'
<1> USE OrderTypes
<1>1. CASE UNCHANGED <<delivered, rx_queue, arrived, pkt["poll"]>>
      BY <1>1 DEF Order, Increasing, Below, Above
<1>2. CASE Arrive
  <2>1. /\ arrived' = arrived + 1 /\ rx_queue' = Append(rx_queue, arrived + 1)
        /\ UNCHANGED <<delivered, pkt>>
        BY <1>2 DEF Arrive, irq
  <2>2. Increasing(rx_queue') /\ Below(rx_queue', arrived + 2)
    <3>1. Below(rx_queue, arrived + 2)
          BY DEF Order, Below, TypeOK
    <3> QED
        BY <2>1, <3>1, IncreasingAppend, BelowAppend DEF Order
  <2>3. Below(delivered, arrived + 2)
        BY DEF Order, Below, TypeOK
  <2>4. ASSUME NEW i \in 1..Len(delivered) PROVE Above(delivered[i], rx_queue')
    <3>1. Above(delivered[i], rx_queue) /\ delivered[i] < arrived + 1 /\ delivered[i] \in Nat
          BY DEF Order, Below
    <3> QED
        BY <2>1, <3>1, AboveAppend
  <2>5. pkt["poll"] # NULL => Above(pkt["poll"], rx_queue') /\ pkt["poll"] <= arrived + 1
        BY <2>1, AboveAppend DEF Order
  <2>6. arrived' + 1 = arrived + 2
        BY <2>1
  <2> QED
      BY <2>1, <2>2, <2>3, <2>4, <2>5, <2>6 DEF Order
<1>3. ASSUME NEW c \in Callers, HandleRx(c) PROVE Order'
  <2>1. CASE ~("RX" \in word[c] /\ rx_queue # << >>)
        BY <1>1, <1>3, <2>1 DEF HandleRx
  <2>2. CASE "RX" \in word[c] /\ rx_queue # << >>
    <3>1. pkt["poll"] = NULL /\ pkt'["poll"] = NULL
          BY <1>3, <2>2 DEF HandleRx, Control, PacketHeld, TypeOK
    <3>2. /\ rx_queue' = Tail(rx_queue) /\ arrived' = arrived
          /\ delivered' \in {Append(delivered, Head(rx_queue)), delivered}
          BY <1>3, <2>2 DEF HandleRx, snull_rx
    <3>3. /\ Increasing(rx_queue') /\ Below(rx_queue', arrived + 1)
          /\ Head(rx_queue) \in Nat /\ Head(rx_queue) < arrived + 1
          /\ Above(Head(rx_queue), rx_queue') /\ rx_queue' \in Seq(Nat)
          BY <2>2, <3>2, TailOrder, TailFacts DEF Order
    <3>4. /\ \A i \in 1..Len(delivered) : Above(delivered[i], rx_queue')
          /\ Below(delivered, Head(rx_queue))
          BY <2>2, <3>2, TailOrder DEF Order, Below
    <3>5. CASE delivered' = delivered
          BY <3>1, <3>2, <3>3, <3>4, <3>5 DEF Order
    <3>6. CASE delivered' = Append(delivered, Head(rx_queue))
      <4>1. Increasing(delivered') /\ \A i \in 1..Len(delivered') : Above(delivered'[i], rx_queue')
            BY <3>3, <3>4, <3>6, DeliverOrder DEF Order
      <4>2. Below(delivered, arrived + 1) /\ arrived + 1 \in Nat
            BY DEF Order
      <4>3. Below(delivered', arrived + 1)
            BY <3>3, <3>6, <4>2, BelowAppend
      <4> QED
          BY <3>1, <3>2, <3>3, <4>1, <4>3 DEF Order
    <3> QED
        BY <3>2, <3>5, <3>6
  <2> QED
      BY <2>1, <2>2
<1>4. CASE PollDequeue
  <2>1. /\ rx_queue # << >> /\ rx_queue' = Tail(rx_queue) /\ pkt'["poll"] = Head(rx_queue)
        /\ UNCHANGED <<delivered, arrived>>
        BY <1>4 DEF PollDequeue, TypeOK
  <2>2. /\ Increasing(rx_queue') /\ Below(rx_queue', arrived + 1)
        /\ Head(rx_queue) \in Nat /\ Head(rx_queue) <= arrived
        /\ Above(Head(rx_queue), rx_queue')
        BY <2>1, TailOrder DEF Order
  <2>3. /\ \A i \in 1..Len(delivered) : Above(delivered[i], rx_queue')
        /\ Below(delivered, Head(rx_queue))
        BY <2>1, TailOrder DEF Order, Below
  <2> QED
      BY <2>1, <2>2, <2>3 DEF Order
<1>5. CASE PollPacket
  <2>1. /\ pkt["poll"] # NULL /\ pkt'["poll"] = NULL
        /\ UNCHANGED <<rx_queue, arrived>>
        /\ delivered' \in {Append(delivered, pkt["poll"]), delivered}
        BY <1>5 DEF PollPacket, Control, PacketHeld, TypeOK
  <2>2. CASE delivered' = delivered
        BY <2>1, <2>2 DEF Order
  <2>3. CASE delivered' = Append(delivered, pkt["poll"])
    <3>1. Increasing(delivered') /\ \A i \in 1..Len(delivered') : Above(delivered'[i], rx_queue)
          BY <2>1, <2>3, DeliverOrder DEF Order
    <3>2. Below(delivered', arrived + 1)
          BY <2>1, <2>3, BelowAppend DEF Order
    <3> QED
        BY <2>1, <3>1, <3>2 DEF Order
  <2> QED
      BY <2>1, <2>2, <2>3
<1>6. \/ UNCHANGED <<delivered, rx_queue, arrived, pkt["poll"]>>
      \/ Arrive \/ PollDequeue \/ PollPacket
      \/ \E c \in Callers : HandleRx(c)
      BY DEF TypeOK, tx, rx, irq, napi, Next, Interrupt, snull_poll, snull_open, snull_release,
             snull_tx, HwTx, snull_tx_timeout, WakeQueue, ReadStatus, ClearStatus, ScheduleRx,
             HandleTx, ReleaseBuffer, PollStart, PollLeaveLoop, PollTest, PollEnable
<1> QED
    BY <1>1, <1>2, <1>3, <1>4, <1>5, <1>6

-----------------------------------------------------------------------------
SnullInv == TypeOK /\ BuffersConserved /\ Control /\ MaskedWhilePolled /\ Order

LEMMA SnullInvInit == Init => SnullInv
<1> SUFFICES ASSUME Init PROVE SnullInv
    OBVIOUS
<1> USE DEF Init
<1>1. TypeOK
  <2>1. rx_queue \in Seq(1..MaxArrivals) /\ delivered \in Seq(1..MaxArrivals)
        OBVIOUS
  <2>2. pool \in 0..PoolSize /\ arrived \in 0..MaxArrivals /\ quota \in 0..Weight
        OBVIOUS
  <2> QED
      BY <2>1, <2>2 DEF TypeOK
<1>2. Control /\ MaskedWhilePolled
      BY DEF Control, Places, LockHeld, TxSide, TxServed, RxServed, PollListed, PacketHeld,
             MaskedWhilePolled, InHandler
<1>3. Order
      BY DEF Order, Increasing, Below, Above
<1>4. Holders = {} /\ Len(rx_queue) = 0 /\ pool = PoolSize
      BY DEF Holders
<1>5. BuffersConserved
      BY <1>4, Conserved, FS_EmptySet
<1> QED
    BY <1>1, <1>2, <1>3, <1>5 DEF SnullInv

LEMMA SnullInvStep == SnullInv /\ [Next]_vars => SnullInv'
<1>1. CASE SnullInv /\ Next
      BY <1>1, ControlStep, BuffersStep, TypeStep, OrderStep DEF SnullInv
<1>2. CASE SnullInv /\ UNCHANGED vars
      BY <1>2 DEF SnullInv, TypeOK, BuffersConserved, Control, Places, LockHeld, TxSide, TxRaised,
                  TxServed, RxServed, PollListed, PacketHeld, MaskedWhilePolled, InHandler,
                  Order, Increasing, vars
<1> QED
    BY <1>1, <1>2

LEMMA SnullInvHolds == Spec => []SnullInv
  BY SnullInvInit, SnullInvStep, PTL DEF Spec

(* Every variable keeps to its values; in particular a pool never has more  *)
(* buffers than it was made with, and a poll takes no more than its quota.  *)
THEOREM SnullTypeCorrect == Spec => []TypeOK
<1>1. SnullInv => TypeOK
      BY DEF SnullInv
<1> QED
    BY <1>1, SnullInvHolds, PTL

(* Every packet buffer is in one place, on the paths of snull_rx and of     *)
(* snull_poll that find no memory too.                                      *)
THEOREM BuffersAreConserved == Spec => []BuffersConserved
<1>1. SnullInv => BuffersConserved
      BY DEF SnullInv
<1> QED
    BY <1>1, SnullInvHolds, PTL

(* The handler, in whichever context, frees only a socket buffer that the   *)
(* driver answers for.                                                      *)
THEOREM FreedOnce == Spec => []SkbFreedOnce
<1>1. SnullInv => SkbFreedOnce
      BY DEF SnullInv, Control, TxServed, InHandler, SkbFreedOnce, TypeOK, Places
<1> QED
    BY <1>1, SnullInvHolds, PTL

(* Packets are delivered in order and at most once, whether interrupts or   *)
(* polls take them from the queue.                                          *)
THEOREM ReceivedInOrder == Spec => []RxInOrder
<1>1. SnullInv => RxInOrder
  <2> SUFFICES ASSUME SnullInv PROVE RxInOrder
      OBVIOUS
  <2>1. delivered \in Seq(Nat) /\ rx_queue \in Seq(Nat)
        BY OrderTypes DEF SnullInv
  <2>2. /\ \A i, j \in 1..Len(delivered) : i < j => delivered[i] < delivered[j]
        /\ \A i, j \in 1..Len(rx_queue) : i < j => rx_queue[i] < rx_queue[j]
        /\ \A i \in 1..Len(delivered), j \in 1..Len(rx_queue) : delivered[i] < rx_queue[j]
        BY DEF SnullInv, Order, Increasing, Above
  <2> DEFINE seen == delivered \o rx_queue
  <2>3. /\ Len(seen) = Len(delivered) + Len(rx_queue)
        /\ \A i \in 1..Len(delivered) : seen[i] = delivered[i]
        /\ \A i \in 1..Len(seen) : i > Len(delivered) => seen[i] = rx_queue[i - Len(delivered)]
        BY <2>1
  <2>4. \A i \in 1..Len(seen) : i \in 1..Len(delivered) \/ i - Len(delivered) \in 1..Len(rx_queue)
        BY <2>1, <2>3
  <2>5. ASSUME NEW i \in 1..Len(seen), NEW j \in 1..Len(seen), i < j PROVE seen[i] < seen[j]
    <3>1. CASE j \in 1..Len(delivered)
      <4>1. i \in 1..Len(delivered)
            BY <2>1, <2>5, <3>1
      <4> QED
          BY <2>2, <2>3, <2>5, <3>1, <4>1
    <3>2. CASE i \in 1..Len(delivered) /\ j \notin 1..Len(delivered)
      <4>1. j > Len(delivered) /\ j - Len(delivered) \in 1..Len(rx_queue)
            BY <2>1, <2>3, <2>4, <3>2
      <4>2. seen[i] = delivered[i] /\ seen[j] = rx_queue[j - Len(delivered)]
            BY <2>3, <3>2, <4>1
      <4> HIDE DEF seen
      <4> QED
          BY <2>2, <3>2, <4>1, <4>2
    <3>3. CASE i \notin 1..Len(delivered) /\ j \notin 1..Len(delivered)
      <4>1. /\ i > Len(delivered) /\ i - Len(delivered) \in 1..Len(rx_queue)
            /\ j > Len(delivered) /\ j - Len(delivered) \in 1..Len(rx_queue)
            BY <2>1, <2>3, <2>4, <3>3
      <4>2. /\ seen[i] = rx_queue[i - Len(delivered)]
            /\ seen[j] = rx_queue[j - Len(delivered)]
            BY <2>3, <4>1
      <4>3. i - Len(delivered) < j - Len(delivered)
            BY <2>1, <2>5
      <4> HIDE DEF seen
      <4> QED
          BY <2>2, <4>1, <4>2, <4>3
    <3> QED
        BY <3>1, <3>2, <3>3
  <2> QED
      BY <2>5 DEF RxInOrder
<1> QED
    BY <1>1, SnullInvHolds, PTL

(* Receive interrupts are off exactly while a poll is due or running.       *)
THEOREM MaskedOnlyWhilePolled == Spec => []MaskedWhilePolled
<1>1. SnullInv => MaskedWhilePolled
      BY DEF SnullInv
<1> QED
    BY <1>1, SnullInvHolds, PTL

-----------------------------------------------------------------------------
(* Sequences with one element before them.                                  *)
LEMMA PrefixFacts ==
  ASSUME NEW x \in Nat, NEW y \in Nat, NEW q \in Seq(Nat)
  PROVE  /\ <<x>> \o q \in Seq(Nat) /\ Len(<<x>> \o q) = 1 + Len(q)
         /\ <<x>> \o q # << >> /\ Head(<<x>> \o q) = x /\ Tail(<<x>> \o q) = q
         /\ Append(<<x>> \o q, y) = <<x>> \o Append(q, y)
         /\ << >> \o q = q /\ q # << >> => <<Head(q)>> \o Tail(q) = q
  OBVIOUS

LEMMA AppendBehindOne ==
  ASSUME NEW x \in Nat, NEW y \in Nat, NEW q \in Seq(Nat)
  PROVE  Append(<<x>> \o q, y) = <<x>> \o Append(q, y)
  OBVIOUS

LEMMA HeadAndTail ==
  ASSUME NEW q \in Seq(Nat), q # << >>
  PROVE  <<Head(q)>> \o Tail(q) = q
  OBVIOUS

LEMMA RoomForArrival ==
  ASSUME SnullInv, pool > 0
  PROVE  Len(Waiting) < PoolSize
<1>1. /\ pool + Len(rx_queue) + Cardinality(Holders) = PoolSize
      /\ Cardinality(Holders) \in Nat /\ rx_queue \in Seq(Nat) /\ pool \in Nat
      BY Conserved, HoldersFinite, OrderTypes DEF SnullInv, TypeOK
<1>2. CASE pkt["poll"] = NULL
      BY <1>1, <1>2, PrefixFacts DEF Waiting
<1>3. CASE pkt["poll"] # NULL
  <2>1. "poll" \in Holders
        BY <1>3 DEF Holders
  <2>2. Cardinality(Holders) # 0
        BY <2>1, HoldersFinite, FS_EmptySet
  <2>3. pkt["poll"] \in Nat
        BY <1>3, OrderTypes DEF SnullInv
  <2>4. Len(Waiting) = 1 + Len(rx_queue)
        BY <1>1, <1>3, <2>3, PrefixFacts DEF Waiting
  <2> QED
      BY <1>1, <2>2, <2>4
<1> QED
    BY <1>2, <1>3

LEMMA QueueStep ==
  ASSUME SnullInv, [Next]_vars
  PROVE  [Queue!PacketArrives \/ Queue!PacketLeaves]_<<arrived, Waiting, delivered>>
<1>0. /\ rx_queue \in Seq(Nat) /\ arrived \in Nat /\ (pkt["poll"] # NULL => pkt["poll"] \in Nat)
      /\ pkt \in [Contexts -> 1..MaxArrivals \cup {NULL}]
      BY OrderTypes DEF SnullInv, TypeOK
<1>1. CASE UNCHANGED <<arrived, rx_queue, delivered, pkt["poll"]>>
      BY <1>1 DEF Waiting
<1>2. CASE Arrive
  <2>1. /\ arrived < MaxArrivals /\ arrived' = arrived + 1 /\ pool > 0
        /\ rx_queue' = Append(rx_queue, arrived + 1) /\ UNCHANGED <<pkt, delivered>>
        BY <1>2 DEF Arrive, irq
  <2>2. Len(Waiting) < PoolSize
        BY <2>1, RoomForArrival
  <2>3. Waiting' = Append(Waiting, arrived + 1)
    <3>1. CASE pkt["poll"] = NULL
      <4>1. rx_queue \in Seq(Nat) /\ rx_queue' \in Seq(Nat)
            BY <1>0, <2>1
      <4>2. Waiting = rx_queue /\ Waiting' = rx_queue'
            BY <2>1, <3>1, <4>1, PrefixFacts DEF Waiting
      <4> QED
          BY <2>1, <4>2
    <3>2. CASE pkt["poll"] # NULL
      <4>1. Waiting = <<pkt["poll"]>> \o rx_queue
            BY <3>2 DEF Waiting
      <4>2. Waiting' = <<pkt["poll"]>> \o Append(rx_queue, arrived + 1)
            BY <2>1, <3>2 DEF Waiting
      <4>3. pkt["poll"] \in Nat /\ arrived + 1 \in Nat /\ rx_queue \in Seq(Nat)
            BY <1>0, <3>2
      <4>4. Append(<<pkt["poll"]>> \o rx_queue, arrived + 1)
              = <<pkt["poll"]>> \o Append(rx_queue, arrived + 1)
            BY <4>3, AppendBehindOne, Zenon
      <4> QED
          BY <4>1, <4>2, <4>4, Zenon
    <3> QED
        BY <3>1, <3>2
  <2> QED
      BY <2>1, <2>2, <2>3 DEF Queue!PacketArrives
<1>3. ASSUME NEW c \in Callers, HandleRx(c), "RX" \in word[c], rx_queue # << >>
      PROVE  Queue!PacketLeaves
  <2>1. ~use_napi /\ c # "poll"
        BY <1>3 DEF HandleRx
  <2>2. pkt["poll"] = NULL
        BY <2>1 DEF SnullInv, Control, PacketHeld
  <2>3. /\ pkt' = [pkt EXCEPT ![c] = Head(rx_queue)] /\ rx_queue' = Tail(rx_queue)
        /\ delivered' \in {Append(delivered, Head(rx_queue)), delivered} /\ UNCHANGED arrived
        BY <1>3 DEF HandleRx, snull_rx
  <2>4. pkt'["poll"] = NULL
        BY <1>0, <2>1, <2>2, <2>3
  <2>5. rx_queue' \in Seq(Nat)
        BY <1>0, <1>3, <2>3
  <2>6. Waiting = rx_queue /\ Waiting' = Tail(rx_queue)
        BY <1>0, <2>2, <2>3, <2>4, <2>5, PrefixFacts DEF Waiting
  <2> QED
      BY <1>3, <2>3, <2>6 DEF Queue!PacketLeaves
<1>4. ASSUME NEW c \in Callers, HandleRx(c), ~("RX" \in word[c] /\ rx_queue # << >>)
      PROVE  UNCHANGED <<arrived, rx_queue, delivered, pkt["poll"]>>
      BY <1>4 DEF HandleRx
<1>5. ASSUME NEW c \in Callers, ReleaseBuffer(c)
      PROVE  UNCHANGED <<arrived, rx_queue, delivered, pkt["poll"]>>
      BY <1>0, <1>5 DEF ReleaseBuffer
<1>6. CASE PollDequeue
  <2>1. pkt["poll"] = NULL
        BY <1>6 DEF PollDequeue, SnullInv, Control, PacketHeld
  <2>2. /\ rx_queue # << >> /\ rx_queue' = Tail(rx_queue) /\ pkt'["poll"] = Head(rx_queue)
        /\ UNCHANGED <<arrived, delivered>>
        BY <1>0, <1>6 DEF PollDequeue
  <2>3. Head(rx_queue) \in Nat
        BY <1>0, <2>2
  <2>4. Waiting = rx_queue
        BY <1>0, <2>1, PrefixFacts DEF Waiting
  <2>5. pkt'["poll"] # NULL
        BY <2>2, <2>3
  <2>6. Waiting' = <<Head(rx_queue)>> \o Tail(rx_queue)
        BY <2>2, <2>5 DEF Waiting
  <2>7. Waiting' = Waiting
    <3>1. rx_queue \in Seq(Nat) /\ rx_queue # << >>
          BY <1>0, <2>2
    <3>2. <<Head(rx_queue)>> \o Tail(rx_queue) = rx_queue
          BY <3>1, HeadAndTail, ZenonT(30)
    <3> QED
        BY <2>4, <2>6, <3>2
  <2> QED
      BY <2>2, <2>7
<1>7. CASE PollPacket
  <2>1. pkt["poll"] # NULL
        BY <1>7 DEF PollPacket, SnullInv, Control, PacketHeld
  <2>2. /\ delivered' \in {Append(delivered, pkt["poll"]), delivered} /\ pkt'["poll"] = NULL
        /\ UNCHANGED <<arrived, rx_queue>>
        BY <1>0, <1>7 DEF PollPacket
  <2>3. Waiting = <<pkt["poll"]>> \o rx_queue
        BY <2>1 DEF Waiting
  <2>4. Waiting' = << >> \o rx_queue
        BY <2>2 DEF Waiting
  <2>5. Waiting = <<pkt["poll"]>> \o rx_queue /\ Waiting' = rx_queue
        BY <1>0, <2>3, <2>4, PrefixFacts
  <2>6. Waiting # << >> /\ Head(Waiting) = pkt["poll"] /\ Tail(Waiting) = rx_queue
        BY <1>0, <2>1, <2>5, PrefixFacts
  <2> QED
      BY <2>2, <2>5, <2>6 DEF Queue!PacketLeaves
<1>8. CASE UNCHANGED vars
      BY <1>1, <1>8 DEF vars
<1>9. CASE /\ Next /\ ~Arrive /\ ~PollDequeue /\ ~PollPacket
           /\ \A c \in Callers : ~HandleRx(c) /\ ~ReleaseBuffer(c)
  <2>1. UNCHANGED <<arrived, rx_queue, delivered, pkt>>
        BY <1>9 DEF Next, Interrupt, snull_poll, tx, rx, irq, napi, snull_open, snull_release,
             snull_tx, HwTx, snull_tx_timeout, WakeQueue, ReadStatus, ClearStatus, ScheduleRx,
             HandleTx, PollStart, PollLeaveLoop, PollTest, PollEnable
  <2> QED
      BY <1>1, <2>1
<1> QED
    BY <1>1, <1>2, <1>3, <1>4, <1>5, <1>6, <1>7, <1>8, <1>9

(* Both ways of receiving, in all their steps and all their contexts,       *)
(* implement one queue of packets.                                          *)
THEOREM ReceptionIsAQueue == Spec => ImplementsPacketQueue
<1>1. Init => Queue!QueueInit
      BY DEF Init, Waiting, Queue!QueueInit
<1>2. SnullInv /\ [Next]_vars =>
        [Queue!PacketArrives \/ Queue!PacketLeaves]_Queue!queueVars
      BY QueueStep DEF Queue!queueVars
<1> QED
    BY <1>1, <1>2, SnullInvHolds, PTL DEF Spec, ImplementsPacketQueue, Queue!QueueSpec

-----------------------------------------------------------------------------
(* No socket buffer is lost track of while the peer stays out of the        *)
(* handler: a transmit interrupt that is raised is in the status word until *)
(* the context that raised it has read it, and the buffer is handed back    *)
(* before the queue takes the next.                                         *)
HandedBack == \A s \in Skbs : owner[s] = "stack"

Tracking ==
  /\ SkbTracked
  /\ \A c \in {"xmit", "watchdog"} :
       /\ pc[c] \in {"irq", "clear"} => "TX" \in status
       /\ pc[c] \in InHandler => "TX" \in word[c]
       /\ pc[c] \in {"release", "wake"} => HandedBack
  /\ pc["xmit"] = "idle" /\ pc["watchdog"] = "idle" /\ (queue = "started" \/ ~up) => HandedBack
  /\ "lost" \notin Answers /\ up => queue = "started"

LEMMA TrackingStep ==
  ASSUME TypeOK, Control, Tracking, pc["peer"] = "idle", Next,
         Closes => "lost" \notin Answers
  PROVE  Tracking'
<1> USE DEF Control, TypeOK, Places, LockHeld, TxSide, InHandler, Tracking, HandedBack,
            SkbTracked, tx, rx, irq, napi
<1>1. CASE snull_open
      BY <1>1 DEF snull_open
<1>2. CASE snull_release
      BY <1>2 DEF snull_release
<1>3. ASSUME NEW s \in Skbs, snull_tx(s) PROVE Tracking'
      BY <1>3 DEF snull_tx
<1>4. CASE HwTx
      BY <1>4 DEF HwTx
<1>5. CASE Arrive
      BY <1>5 DEF Arrive
<1>6. CASE snull_tx_timeout
      BY <1>6 DEF snull_tx_timeout
<1>7. CASE WakeQueue
      BY <1>7 DEF WakeQueue
<1>8. ASSUME NEW c \in Callers, ReadStatus(c) PROVE Tracking'
      BY <1>8 DEF ReadStatus
<1>9. ASSUME NEW c \in Callers, ClearStatus(c) PROVE Tracking'
      BY <1>9 DEF ClearStatus
<1>10. ASSUME NEW c \in Callers, HandleRx(c) PROVE Tracking'
      BY <1>10 DEF HandleRx
<1>11. ASSUME NEW c \in Callers, ScheduleRx(c) PROVE Tracking'
      BY <1>11 DEF ScheduleRx
<1>12. ASSUME NEW c \in Callers, HandleTx(c) PROVE Tracking'
  <2>1. c \in {"xmit", "watchdog"} /\ "TX" \in word[c]
        BY <1>12 DEF HandleTx
  <2>2. owner' = [owner EXCEPT ![skb] = "stack"]
        BY <1>12, <2>1 DEF HandleTx
  <2>3. HandedBack'
        BY <2>2
  <2> QED
      BY <1>12, <2>1, <2>3 DEF HandleTx
<1>13. ASSUME NEW c \in Callers, ReleaseBuffer(c) PROVE Tracking'
      BY <1>13 DEF ReleaseBuffer
<1>14. CASE snull_poll
      BY <1>14 DEF snull_poll, PollStart, PollDequeue, PollPacket, PollLeaveLoop, PollTest,
                   PollEnable
<1> QED
    BY <1>1, <1>2, <1>3, <1>4, <1>5, <1>6, <1>7, <1>8, <1>9, <1>10, <1>11, <1>12, <1>13,
       <1>14 DEF Next, Interrupt

LEMMA TrackingKept ==
  ASSUME Closes => "lost" \notin Answers
  PROVE  SnullInv /\ Tracking /\ pc["peer"] = "idle" /\ [Next]_vars => Tracking'
<1> SUFFICES ASSUME SnullInv, Tracking, pc["peer"] = "idle", [Next]_vars PROVE Tracking'
    OBVIOUS
<1>1. CASE Next
      BY <1>1, TrackingStep DEF SnullInv
<1>2. CASE UNCHANGED vars
      BY <1>2 DEF vars, Tracking, HandedBack, SkbTracked, InHandler
<1> QED
    BY <1>1, <1>2

LEMMA TrackingInit == Init => Tracking
  BY DEF Init, Tracking, HandedBack, SkbTracked, InHandler

(* As long as the peer does not run this interface's handler, the transmit  *)
(* path and the watchdog keep every socket buffer known, through lost       *)
(* interrupts and timeouts; an interface that loses interrupts must not be  *)
(* taken down, which stops the queue with a buffer in it.                   *)
THEOREM TrackedWithoutPeer ==
  ASSUME Closes => "lost" \notin Answers
  PROVE  Spec /\ [](pc["peer"] = "idle") => []SkbTracked
<1>1. SnullInv /\ Tracking /\ pc["peer"] = "idle" /\ [Next]_vars => Tracking'
      BY TrackingKept
<1>2. Tracking => SkbTracked
      BY DEF Tracking
<1> QED
    BY <1>1, <1>2, TrackingInit, SnullInvHolds, PTL DEF Spec

(* The peer runs the handler only for a packet it sends.                    *)
LEMMA PeerStaysIdle ==
  ASSUME PoolSize = 0 \/ MaxArrivals = 0
  PROVE  Spec => [](pc["peer"] = "idle")
<1>1. Init => pc["peer"] = "idle"
      BY DEF Init
<1>2. SnullInv /\ pc["peer"] = "idle" /\ [Next]_vars => (pc["peer"] = "idle")'
  <2> SUFFICES ASSUME SnullInv, pc["peer"] = "idle", [Next]_vars PROVE (pc["peer"] = "idle")'
      OBVIOUS
  <2>1. ~Arrive
        BY DEF Arrive, SnullInv, TypeOK
  <2>2. CASE UNCHANGED vars
        BY <2>2 DEF vars
  <2>3. CASE Next
        BY <2>1, <2>3 DEF Next, Interrupt, snull_poll, snull_open, snull_release, snull_tx, HwTx,
           snull_tx_timeout, WakeQueue, ReadStatus, ClearStatus, HandleRx, ScheduleRx, HandleTx,
           ReleaseBuffer, PollStart, PollDequeue, PollPacket, PollLeaveLoop, PollTest, PollEnable,
           SnullInv, TypeOK
  <2> QED
      BY <2>2, <2>3
<1> QED
    BY <1>1, <1>2, SnullInvHolds, PTL DEF Spec

(* So an interface nothing arrives on never loses track of a socket buffer. *)
THEOREM SkbsAreTracked ==
  ASSUME PoolSize = 0 \/ MaxArrivals = 0, Closes => "lost" \notin Answers
  PROVE  Spec => []SkbTracked
  BY TrackedWithoutPeer, PeerStaysIdle, PTL
-----------------------------------------------------------------------------
(* Before the first transmission priv->skb is NULL; nothing then leads to    *)
(* the part of the handler that frees it.                                    *)
NothingSentYet ==
  skb = NULL =>
    /\ pc["xmit"] = "idle" /\ pc["watchdog"] = "idle"
    /\ up => queue = "started"

LEMMA NothingSentStep == TypeOK /\ NothingSentYet /\ [Next]_vars => NothingSentYet'
<1> SUFFICES ASSUME TypeOK, NothingSentYet, [Next]_vars PROVE NothingSentYet'
    OBVIOUS
<1> USE DEF NothingSentYet, TypeOK
<1>1. CASE UNCHANGED <<skb, up, queue, pc>>
      BY <1>1
<1>2. CASE snull_open \/ snull_release
      BY <1>2 DEF snull_open, snull_release
<1>3. ASSUME NEW s \in Skbs, snull_tx(s) PROVE NothingSentYet'
      BY <1>3 DEF snull_tx
<1>4. CASE HwTx \/ snull_tx_timeout \/ WakeQueue
  <2>1. skb' = skb
        BY <1>4 DEF HwTx, snull_tx_timeout, WakeQueue, tx
  <2>2. skb # NULL
        BY <1>4 DEF HwTx, snull_tx_timeout, WakeQueue
  <2> QED
      BY <2>1, <2>2
<1>5. CASE Arrive
      BY <1>5 DEF Arrive, tx
<1>6. ASSUME NEW c \in Callers, Interrupt(c) PROVE NothingSentYet'
  <2>1. UNCHANGED <<skb, up, queue>> /\ pc[c] # "idle"
        BY <1>6 DEF Interrupt, ReadStatus, ClearStatus, HandleRx, ScheduleRx, HandleTx,
                    ReleaseBuffer, tx
  <2>2. \E l : Goto(c, l)
        BY <1>6 DEF Interrupt, ReadStatus, ClearStatus, HandleRx, ScheduleRx, HandleTx,
                    ReleaseBuffer
  <2> QED
      BY <2>1, <2>2
<1>7. CASE snull_poll
  <2>1. UNCHANGED <<skb, up, queue>>
        BY <1>7 DEF snull_poll, PollStart, PollDequeue, PollPacket, PollLeaveLoop, PollTest,
                    PollEnable, tx
  <2>2. \E l : Goto("poll", l)
        BY <1>7 DEF snull_poll, PollStart, PollDequeue, PollPacket, PollLeaveLoop, PollTest,
                    PollEnable
  <2> QED
      BY <2>1, <2>2
<1> QED
    BY <1>1, <1>2, <1>3, <1>4, <1>5, <1>6, <1>7 DEF Next, vars

(* The transmit queue of an interface that is up is stopped only over a      *)
(* socket buffer the driver has, so that the watchdog's timeout fills in an  *)
(* interrupt for a transmission that took place; and what the handler frees  *)
(* is such a buffer, never NULL.                                             *)
TimeoutFindsWork ==
  /\ up /\ queue = "stopped" /\ pc["watchdog"] = "idle" =>
       skb \in Skbs /\ owner[skb] = "driver"
  /\ \A c \in Callers : pc[c] = "tx" /\ "TX" \in word[c] =>
       skb \in Skbs /\ owner[skb] = "driver"

(* Whatever interrupts are lost, however often the interface goes up and     *)
(* down, and whichever contexts run the handler at once, the timeout finds   *)
(* a transmission to finish and the handler a socket buffer to free.         *)
THEOREM TimeoutHasWork == Spec => []TimeoutFindsWork
<1>1. Init => NothingSentYet
      BY DEF Init, NothingSentYet
<1>2. SnullInv => TypeOK
      BY DEF SnullInv
<1>3. Spec => []NothingSentYet
      BY <1>1, <1>2, NothingSentStep, SnullInvHolds, PTL DEF Spec
<1>4. SnullInv /\ NothingSentYet => TimeoutFindsWork
  <2> SUFFICES ASSUME SnullInv, NothingSentYet PROVE TimeoutFindsWork
      OBVIOUS
  <2>1. TypeOK /\ TxServed
        BY DEF SnullInv, Control
  <2>2. up /\ queue = "stopped" => skb \in Skbs
        BY <2>1 DEF TypeOK, NothingSentYet
  <2>3. ASSUME NEW c \in Callers, pc[c] = "tx", "TX" \in word[c]
        PROVE  skb \in Skbs /\ owner[skb] = "driver"
    <3>1. owner[skb] = "driver" /\ TxRaised({"irq"} \cup InHandler)
          BY <2>1, <2>3 DEF TxServed, InHandler
    <3>2. pc["xmit"] # "idle" \/ pc["watchdog"] # "idle"
          BY <3>1 DEF TxRaised, InHandler
    <3> QED
        BY <2>1, <3>1, <3>2 DEF TypeOK, NothingSentYet
  <2> QED
      BY <2>1, <2>2, <2>3 DEF TxServed, TimeoutFindsWork
<1> QED
    BY <1>3, <1>4, SnullInvHolds, PTL
-----------------------------------------------------------------------------
(* How many steps of the poll a packet is from being taken, at the i-th      *)
(* place of the queue.                                                       *)
PollRank ==
  CASE pc["poll"] = "packet" -> 4
    [] pc["poll"] = "loop" /\ quota = 0 -> 3
    [] pc["poll"] = "test" -> 2
    [] pc["poll"] = "idle" -> 1
    [] OTHER -> 0
Until(i) == 6 * i + PollRank

(* A packet that waits on an interface on the list of polls is taken or      *)
(* stays in the queue of an interface on that list; a step of the poll       *)
(* brings it nearer to being taken, and no other step puts it back.          *)
PollsAdvance ==
  polling => \A i \in DOMAIN rx_queue :
    \/ i = 1 /\ pkt'["poll"] = rx_queue[1] /\ snull_poll
    \/ /\ polling'
       /\ \E j \in DOMAIN rx_queue' :
            /\ rx_queue'[j] = rx_queue[i]
            /\ \/ snull_poll /\ Until(j)' < Until(i)
               \/ ~snull_poll /\ Until(j)' = Until(i)

LEMMA PollsAdvanceStep ==
  ASSUME SnullInv, SnullInv', [Next]_vars
  PROVE  PollsAdvance
<1> SUFFICES ASSUME polling, NEW i \in DOMAIN rx_queue
             PROVE  \/ i = 1 /\ pkt'["poll"] = rx_queue[1] /\ snull_poll
                    \/ /\ polling'
                       /\ \E j \in DOMAIN rx_queue' :
                            /\ rx_queue'[j] = rx_queue[i]
                            /\ \/ snull_poll /\ Until(j)' < Until(i)
                               \/ ~snull_poll /\ Until(j)' = Until(i)
    BY DEF PollsAdvance
<1>0. /\ rx_queue \in Seq(1..MaxArrivals) /\ Len(rx_queue) \in Nat
      /\ DOMAIN rx_queue = 1..Len(rx_queue) /\ i \in 1..Len(rx_queue) /\ rx_queue # << >>
      /\ DOMAIN rx_queue' = 1..Len(rx_queue')
      /\ pc \in [Contexts -> {"idle", "hw", "irq", "clear", "rx", "tx", "release", "wake",
                              "loop", "packet", "test", "enable"}]
      /\ pkt \in [Contexts -> 1..MaxArrivals \cup {NULL}] /\ quota \in 0..Weight
      BY DEF SnullInv, TypeOK
<1>1. use_napi /\ pc["poll"] \in {"idle", "loop", "packet", "test"}
      BY DEF SnullInv, Control, Places, PollListed, PacketHeld
<1>2. PollRank \in 0..4 /\ PollRank' \in 0..4
      BY DEF PollRank
<1>3. CASE snull_poll /\ rx_queue' = rx_queue
  <2>1. /\ PollStart \/ PollPacket \/ PollLeaveLoop \/ PollTest
        /\ polling' /\ PollRank' < PollRank
    <3>1. ~PollDequeue
      <4> SUFFICES ASSUME PollDequeue PROVE FALSE
          OBVIOUS
      <4>1. Len(rx_queue') = Len(rx_queue) - 1
            BY <1>0, TailFacts DEF PollDequeue
      <4>2. Len(rx_queue') = Len(rx_queue) /\ Len(rx_queue) \in Nat
            BY <1>0, <1>3
      <4> QED
          BY <4>1, <4>2
    <3>2. ~PollEnable
          BY <1>1 DEF PollEnable
    <3>3. CASE PollStart
          BY <1>0, <3>3, SnullAssumption DEF PollStart, PollRank
    <3>4. CASE PollPacket
          BY <1>0, <3>4 DEF PollPacket, PollRank
    <3>5. CASE PollLeaveLoop
          BY <1>0, <3>5 DEF PollLeaveLoop, PollRank
    <3>6. CASE PollTest
          BY <1>0, <3>6 DEF PollTest, PollRank
    <3> QED
        BY <1>3, <3>1, <3>2, <3>3, <3>4, <3>5, <3>6 DEF snull_poll
  <2>2. Until(i)' < Until(i)
    <3>1. i \in Nat /\ PollRank \in 0..4 /\ PollRank' \in 0..4 /\ PollRank' < PollRank
          BY <1>0, <1>2, <2>1
    <3>2. 6 * i + PollRank' < 6 * i + PollRank
          BY <3>1
    <3> QED
        BY <3>2 DEF Until
  <2> QED
      BY <1>3, <2>1, <2>2
<1>4. CASE PollDequeue
  <2>1. /\ rx_queue' = Tail(rx_queue) /\ pkt'["poll"] = Head(rx_queue) /\ polling'
        /\ PollRank = 0 /\ snull_poll
        BY <1>0, <1>4 DEF PollDequeue, PollRank, napi, snull_poll
  <2>2. /\ Len(rx_queue') = Len(rx_queue) - 1 /\ Head(rx_queue) = rx_queue[1]
        /\ \A k \in 1..Len(rx_queue) - 1 : rx_queue'[k] = rx_queue[k + 1]
        BY <1>0, <2>1, TailFacts
  <2>3. CASE i = 1
        BY <2>1, <2>2, <2>3
  <2>4. CASE i # 1
    <3>1. i - 1 \in DOMAIN rx_queue' /\ rx_queue'[i - 1] = rx_queue[i]
      <4>1. i - 1 \in 1..Len(rx_queue) - 1 /\ (i - 1) + 1 = i
            BY <1>0, <2>4
      <4> QED
          BY <1>0, <2>2, <4>1
    <3>2. Until(i - 1)' < Until(i)
      <4>1. i \in Nat /\ PollRank = 0 /\ PollRank' \in 0..4
            BY <1>0, <1>2, <2>1
      <4>2. 6 * (i - 1) + PollRank' < 6 * i + PollRank
            BY <4>1
      <4> QED
          BY <4>2 DEF Until
    <3> QED
        BY <2>1, <3>1, <3>2
  <2> QED
      BY <2>3, <2>4
<1>5. CASE ~snull_poll
  <2>1. /\ pc'["poll"] = pc["poll"] /\ quota' = quota /\ polling' \in {polling, TRUE}
        /\ rx_queue' = rx_queue \/ (Arrive /\ rx_queue' = Append(rx_queue, arrived + 1))
    <3> DEFINE Kept == pc'["poll"] = pc["poll"] /\ quota' = quota /\ polling' \in {polling, TRUE}
    <3>1. CASE UNCHANGED vars
          BY <3>1 DEF vars
    <3>2. CASE snull_open \/ snull_release
          BY <3>2 DEF snull_open, snull_release, rx, napi
    <3>3. CASE HwTx \/ (\E s \in Skbs : snull_tx(s))
      <4>1. UNCHANGED <<rx_queue, quota, polling>> /\ \E l : Goto("xmit", l)
            BY <3>3 DEF HwTx, snull_tx, rx, napi
      <4> QED
          BY <1>0, <4>1
    <3>4. CASE snull_tx_timeout \/ WakeQueue
      <4>1. UNCHANGED <<rx_queue, quota, polling>> /\ \E l : Goto("watchdog", l)
            BY <3>4 DEF snull_tx_timeout, WakeQueue, rx, napi
      <4> QED
          BY <1>0, <4>1
    <3>5. CASE Arrive
      <4>1. /\ rx_queue' = Append(rx_queue, arrived') /\ arrived' = arrived + 1
            /\ UNCHANGED <<quota, polling>>
            /\ UNCHANGED pc \/ Goto("peer", "irq")
            BY <3>5 DEF Arrive, napi
      <4> QED
          BY <1>0, <3>5, <4>1
    <3>6. ASSUME NEW c \in Callers, Interrupt(c) PROVE Kept /\ rx_queue' = rx_queue
      <4>1. \E l : Goto(c, l)
            BY <3>6 DEF Interrupt, ReadStatus, ClearStatus, HandleRx, ScheduleRx, HandleTx,
                        ReleaseBuffer
      <4>2. quota' = quota /\ polling' \in {polling, TRUE} /\ rx_queue' = rx_queue
            BY <1>1, <3>6 DEF Interrupt, ReadStatus, ClearStatus, HandleRx, ScheduleRx,
                              HandleTx, ReleaseBuffer, rx, napi
      <4> QED
          BY <1>0, <4>1, <4>2
    <3> QED
        BY <1>5, <3>1, <3>2, <3>3, <3>4, <3>5, <3>6 DEF Next
  <2>2. i \in DOMAIN rx_queue' /\ rx_queue'[i] = rx_queue[i]
    <3>1. CASE rx_queue' = rx_queue
          BY <3>1
    <3>2. CASE Arrive /\ rx_queue' = Append(rx_queue, arrived + 1)
      <4>1. arrived + 1 \in 1..MaxArrivals
            BY <3>2 DEF Arrive, SnullInv, TypeOK
      <4> QED
          BY <1>0, <3>2, <4>1, AppendFacts
    <3> QED
        BY <2>1, <3>1, <3>2
  <2>3. Until(i)' = Until(i)
        BY <2>1 DEF Until, PollRank
  <2> QED
      BY <1>5, <2>1, <2>2, <2>3
<1>6. snull_poll => rx_queue' = rx_queue \/ PollDequeue
      BY DEF snull_poll, PollStart, PollPacket, PollLeaveLoop, PollTest, PollEnable, rx
<1> QED
    BY <1>3, <1>4, <1>5, <1>6

(* What PolledPacketsTaken needs besides scheduling: whatever the quota of   *)
(* each poll, the memory for socket buffers and the packets that follow, a   *)
(* packet on a polled interface is a bounded number of poll steps from being *)
(* taken, and the interface stays on the list until then.                    *)
THEOREM PolledPacketsComeUp == Spec => [][PollsAdvance]_vars
<1>1. SnullInv /\ SnullInv' /\ [Next]_vars => PollsAdvance
      BY PollsAdvanceStep
<1> QED
    BY <1>1, SnullInvHolds, PTL DEF Spec
-----------------------------------------------------------------------------
(* How many steps a socket buffer the driver has is from being freed: of     *)
(* the hardware, of the handler in the transmit path or in the watchdog, or  *)
(* the timeout, which is due when neither is at work.                        *)
HandlerRank(l) == CASE l = "irq" -> 4 [] l = "clear" -> 3 [] l = "rx" -> 2 [] l = "tx" -> 1
                    [] OTHER -> 0
StepsToFree ==
  IF pc["xmit"] = "hw" THEN 6
  ELSE IF pc["xmit"] # "idle" THEN HandlerRank(pc["xmit"])
  ELSE IF pc["watchdog"] # "idle" THEN HandlerRank(pc["watchdog"])
  ELSE 5

TxStep == HwTx \/ snull_tx_timeout \/ (\E c \in {"xmit", "watchdog"} : Interrupt(c))

(* While the driver has a socket buffer, the hardware, the handler or the    *)
(* watchdog's timer is due; each of their steps brings it nearer to being    *)
(* freed, and no other step takes it back.                                   *)
TransmissionsAdvance ==
  \A s \in Skbs : owner[s] = "driver" =>
    /\ StepsToFree \in 1..6
    /\ StepsToFree = 5 => up /\ queue = "stopped"
    /\ owner'[s] = "driver" => IF TxStep THEN StepsToFree' < StepsToFree
                               ELSE StepsToFree' = StepsToFree

LEMMA TransmissionsAdvanceStep ==
  ASSUME SnullInv, Tracking, Tracking', pc["peer"] = "idle", [Next]_vars
  PROVE  TransmissionsAdvance
<1> SUFFICES ASSUME NEW s \in Skbs, owner[s] = "driver"
             PROVE  /\ StepsToFree \in 1..6
                    /\ StepsToFree = 5 => up /\ queue = "stopped"
                    /\ owner'[s] = "driver" => IF TxStep THEN StepsToFree' < StepsToFree
                                               ELSE StepsToFree' = StepsToFree
    BY DEF TransmissionsAdvance
<1>1. TypeOK /\ TxSide /\ Places /\ s = skb /\ ~HandedBack
      BY DEF SnullInv, Control, Tracking, SkbTracked, HandedBack
<1>2. /\ pc["xmit"] \in {"idle", "hw", "irq"} \cup InHandler
      /\ pc["watchdog"] \in {"idle", "irq"} \cup InHandler
      /\ pc["xmit"] = "idle" \/ pc["watchdog"] = "idle"
      BY <1>1 DEF Tracking, Places, TxSide
<1>3. up /\ (pc["xmit"] = "idle" /\ pc["watchdog"] = "idle" => queue = "stopped")
      BY <1>1 DEF Tracking, TxSide, TypeOK
<1>4. StepsToFree \in 1..6 /\ (StepsToFree = 5 => up /\ queue = "stopped")
      BY <1>2, <1>3 DEF StepsToFree, HandlerRank, InHandler
<1>5. ASSUME owner'[s] = "driver"
      PROVE  IF TxStep THEN StepsToFree' < StepsToFree ELSE StepsToFree' = StepsToFree
  <2>0. pc \in [Contexts -> {"idle", "hw", "irq", "clear", "rx", "tx", "release", "wake",
                             "loop", "packet", "test", "enable"}]
        BY <1>1 DEF TypeOK
  <2>1. ~snull_open /\ ~WakeQueue /\ \A t \in Skbs : ~snull_tx(t)
        BY <1>1, <1>2, <1>3 DEF snull_open, WakeQueue, snull_tx, InHandler
  <2>2. ~HandedBack'
        BY <1>5 DEF HandedBack
  <2>3. ~snull_release
        BY <2>2 DEF snull_release, Tracking
  <2>4. CASE HwTx
    <3>1. pc["xmit"] = "hw" /\ (Goto("xmit", "irq") \/ Goto("xmit", "idle")) /\ TxStep
          BY <2>4 DEF HwTx, TxStep
    <3>2. pc["watchdog"] = "idle" /\ pc'["watchdog"] = "idle" /\ pc'["xmit"] \in {"irq", "idle"}
          BY <1>2, <2>0, <3>1
    <3> QED
        BY <3>1, <3>2 DEF StepsToFree, HandlerRank
  <2>5. CASE snull_tx_timeout
    <3>1. /\ pc["xmit"] = "idle" /\ pc["watchdog"] = "idle" /\ TxStep
          /\ pc'["xmit"] = "idle" /\ pc'["watchdog"] = "irq"
          BY <2>0, <2>5 DEF snull_tx_timeout, TxStep
    <3> QED
        BY <3>1 DEF StepsToFree, HandlerRank
  <2>6. ASSUME NEW c \in {"xmit", "watchdog"}, Interrupt(c)
        PROVE  StepsToFree' < StepsToFree
    <3>1. ~HandleTx(c)
      <4> SUFFICES ASSUME HandleTx(c) PROVE FALSE
          OBVIOUS
      <4>1. "TX" \in word[c]
            BY DEF HandleTx, Tracking, InHandler
      <4>2. owner' = [owner EXCEPT ![skb] = "stack"]
            BY <4>1 DEF HandleTx
      <4> QED
          BY <1>1, <1>5, <4>2 DEF TypeOK
    <3>2. ~ReleaseBuffer(c)
          BY <1>1 DEF ReleaseBuffer, Tracking
    <3>3. \/ pc[c] = "irq" /\ Goto(c, "clear")
          \/ pc[c] = "clear" /\ Goto(c, "rx")
          \/ pc[c] = "rx" /\ Goto(c, "tx")
          BY <2>6, <3>1, <3>2
          DEF Interrupt, ReadStatus, ClearStatus, HandleRx, ScheduleRx
    <3>4. \A d \in {"xmit", "watchdog"} : d # c => pc[d] = "idle" /\ pc'[d] = "idle"
          BY <1>2, <2>0, <3>3
    <3> QED
        BY <2>0, <3>3, <3>4 DEF StepsToFree, HandlerRank
  <2>7. CASE ~TxStep
    <3>1. pc'["xmit"] = pc["xmit"] /\ pc'["watchdog"] = pc["watchdog"]
      <4>1. CASE UNCHANGED vars
            BY <4>1 DEF vars
      <4>2. CASE Arrive
            BY <2>0, <4>2 DEF Arrive
      <4>3. ~Interrupt("peer")
            BY DEF Interrupt, ReadStatus, ClearStatus, HandleRx, ScheduleRx, HandleTx,
                   ReleaseBuffer
      <4>4. CASE snull_poll
        <5>1. \E l : Goto("poll", l)
              BY <4>4 DEF snull_poll, PollStart, PollDequeue, PollPacket, PollLeaveLoop,
                          PollTest, PollEnable
        <5> QED
            BY <2>0, <5>1
      <4> QED
          BY <2>1, <2>3, <2>7, <4>1, <4>2, <4>3, <4>4 DEF Next, TxStep
    <3> QED
        BY <2>7, <3>1 DEF StepsToFree, HandlerRank
  <2> QED
      BY <2>4, <2>5, <2>6, <2>7 DEF TxStep
<1> QED
    BY <1>4, <1>5

(* What SkbsFreed needs besides scheduling: as long as the peer does not run *)
(* the handler, and if an interface that loses interrupts is not taken down, *)
(* every socket buffer is at most six steps of hardware, handler and timeout *)
(* from being freed, and one of them is always due.                          *)
THEOREM TransmissionsComeToTheirEnd ==
  ASSUME Closes => "lost" \notin Answers
  PROVE  Spec /\ [](pc["peer"] = "idle") => [][TransmissionsAdvance]_vars
<1>1. SnullInv /\ Tracking /\ pc["peer"] = "idle" /\ [Next]_vars => Tracking'
      BY TrackingKept
<1>2. SnullInv /\ Tracking /\ Tracking' /\ pc["peer"] = "idle" /\ [Next]_vars
        => TransmissionsAdvance
      BY TransmissionsAdvanceStep
<1> QED
    BY <1>1, <1>2, TrackingInit, SnullInvHolds, PTL DEF Spec
=============================================================================
