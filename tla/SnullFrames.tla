------------------------------ MODULE SnullFrames ------------------------------
(***************************************************************************)
(* What snull does with the bytes of a packet: snull_tx pads short ones in   *)
(* an array on its stack (Networking/Opening-Closing.c), snull_rx or the     *)
(* loop of snull_poll (Books/tempdocs.c) builds a socket buffer around each  *)
(* frame that has arrived, hands it up and counts.  The hardware side hands  *)
(* the bytes it was given to the peer.                                       *)
(***************************************************************************)
EXTENDS Integers, Sequences, FiniteSets

CONSTANTS
  Payloads,   \* the packets sent: sequences of bytes, the header first
  Stale,      \* a byte of the stack nobody has written
  ETH_ZLEN,   \* the least length of a frame
  ETH_HLEN,   \* the length of its header
  MaxFrames   \* bound: packets sent

FrameAssumption ==
  /\ ETH_HLEN \in Nat /\ ETH_ZLEN \in Nat /\ ETH_HLEN <= ETH_ZLEN
  /\ MaxFrames \in Nat /\ Stale \in 0..255
  /\ \A s \in Payloads : s \in Seq(0..255) /\ Len(s) >= ETH_HLEN

ASSUME FrameAssumption

VARIABLES
  sent,      \* the data of the socket buffers given to snull_tx, in order
  wire,      \* the frames on their way
  polled,    \* whether packets are taken by polls (use_napi)
  handed_up, \* the socket buffers given to the network layer, by number of packet
  spent,     \* what polls have taken from the budget
  stats      \* rx_packets, rx_bytes, rx_dropped

frameVars == <<sent, wire, polled, handed_up, spent, stats>>

(* How many of the packets sent have arrived.                                *)
Done == Len(sent) - Len(wire)

Zeros(n) == [i \in 1..n |-> 0]
StaleBytes(n) == [i \in 1..n |-> Stale]
Memcpy(to, from) == from \o SubSeq(to, Len(from) + 1, Len(to))

-----------------------------------------------------------------------------
(* A socket buffer: its space is bytes[1 .. end], of which [data, tail) is   *)
(* in use; head is 1.                                                        *)
dev_alloc_skb(len) == [bytes |-> StaleBytes(len), data |-> 1, tail |-> 1, end |-> len]
skb_put(skb, src) ==
  [skb EXCEPT !.bytes = SubSeq(@, 1, skb.tail - 1) \o Memcpy(SubSeq(@, skb.tail, skb.end), src),
              !.tail = @ + Len(src)]
skb_pull(skb, len) == [skb EXCEPT !.data = @ + len]
skb_tailroom(skb) == skb.end - skb.tail + 1
SkbData(skb) == SubSeq(skb.bytes, skb.data, skb.tail - 1)
SkbHead(skb) == SubSeq(skb.bytes, 1, skb.data - 1)

-----------------------------------------------------------------------------
FrameInit ==
  /\ sent = << >> /\ wire = << >>
  /\ polled \in BOOLEAN
  /\ handed_up = [n \in {} |-> dev_alloc_skb(0)] /\ spent = 0
  /\ stats = [rx_packets |-> 0, rx_bytes |-> 0, rx_dropped |-> 0]

(* Mutant: the array is not cleared.                                         *)
ShortpktUncleared(data) == Memcpy(StaleBytes(ETH_ZLEN), data)

(* The array on the stack: cleared, then the data copied to its front.       *)
Shortpkt(data) == Memcpy(Zeros(ETH_ZLEN), data)

(* snull_tx.                                                                 *)
TxFrame(data) == IF Len(data) < ETH_ZLEN THEN Shortpkt(data) ELSE data

Transmit(data) ==
  /\ Len(sent) < MaxFrames
  /\ sent' = Append(sent, data)
  /\ wire' = Append(wire, TxFrame(data))
  /\ UNCHANGED <<polled, handed_up, spent, stats>>

(* dev_alloc_skb fails: the frame is gone, and counted.                      *)
FrameDropped ==
  /\ wire # << >>
  /\ wire' = Tail(wire)
  /\ stats' = [stats EXCEPT !.rx_dropped = @ + 1]
  /\ UNCHANGED handed_up

(* The frame goes to the front of a buffer two bytes longer, eth_type_trans  *)
(* takes the header off.                                                     *)
BuildSkb(frame) == skb_pull(skb_put(dev_alloc_skb(Len(frame) + 2), frame), ETH_HLEN)

(* Mutant: the bytes are counted when the header is off (skb->len).          *)
FrameReceivedPulled ==
  /\ wire # << >>
  /\ wire' = Tail(wire)
  /\ handed_up' = [n \in DOMAIN handed_up \cup {Done + 1} |->
                     IF n = Done + 1 THEN BuildSkb(Head(wire)) ELSE handed_up[n]]
  /\ stats' = [stats EXCEPT !.rx_packets = @ + 1,
                            !.rx_bytes = @ + Len(SkbData(BuildSkb(Head(wire))))]

FrameReceived ==
  /\ wire # << >>
  /\ wire' = Tail(wire)
  /\ handed_up' = [n \in DOMAIN handed_up \cup {Done + 1} |->
                     IF n = Done + 1 THEN BuildSkb(Head(wire)) ELSE handed_up[n]]
  /\ stats' = [stats EXCEPT !.rx_packets = @ + 1, !.rx_bytes = @ + Len(Head(wire))]

(* snull_rx.                                                                 *)
Receive == ~polled /\ (FrameReceived \/ FrameDropped) /\ UNCHANGED <<sent, polled, spent>>

(* The loop body of snull_poll: a dropped packet costs nothing (continue).   *)
PollReceive ==
  /\ polled
  /\ \/ FrameReceived /\ spent' = spent + 1
     \/ FrameDropped /\ UNCHANGED spent
  /\ UNCHANGED <<sent, polled>>

FrameNext == (\E data \in Payloads : Transmit(data)) \/ Receive \/ PollReceive

FrameSpec == FrameInit /\ [][FrameNext]_frameVars

-----------------------------------------------------------------------------
FrameTypeOK ==
  /\ \A i \in DOMAIN sent : sent[i] \in Payloads
  /\ Len(wire) <= Len(sent)
  /\ polled \in BOOLEAN /\ spent \in Nat
  /\ \A n \in DOMAIN handed_up :
       /\ n \in 1..Done
       /\ 1 <= handed_up[n].data /\ handed_up[n].data <= handed_up[n].tail
       /\ skb_tailroom(handed_up[n]) >= 0
  /\ stats \in [{"rx_packets", "rx_bytes", "rx_dropped"} -> Nat]

FrameLen(data) == IF Len(data) < ETH_ZLEN THEN ETH_ZLEN ELSE Len(data)

(* A frame is what was sent, followed up to the least length by zeros.       *)
IsFrameOf(frame, data) ==
  /\ Len(frame) = FrameLen(data)
  /\ \A i \in DOMAIN frame : frame[i] = IF i <= Len(data) THEN data[i] ELSE 0

(* "We copy short packets into a separate array that we can explicitly       *)
(* zero-pad" and leak nothing: whatever the stack held, each frame under way *)
(* is one of the packets sent, in the order they were sent, and each handed  *)
(* up is the very packet that arrived, without a byte that nobody sent; only *)
(* the header is outside the data.                                           *)
NothingStaleSent ==
  /\ \A i \in DOMAIN wire : IsFrameOf(wire[i], sent[Done + i])
  /\ \A n \in DOMAIN handed_up :
       IsFrameOf(SkbHead(handed_up[n]) \o SkbData(handed_up[n]), sent[n])

(* Every octet of the frames handed up: the packet's number and the place.   *)
Octets == UNION {{n} \X (1..FrameLen(sent[n])) : n \in DOMAIN handed_up}

(* The statistics tell what happened, by interrupt and by poll: a frame that *)
(* arrived is counted once, as received if it was handed up and as dropped   *)
(* otherwise; the bytes counted are the lengths of all frames handed up,     *)
(* header and padding included; and the budget pays for those a poll handed  *)
(* up, and for none it dropped.                                              *)
FramesAccounted ==
  /\ stats.rx_packets = Cardinality(DOMAIN handed_up)
  /\ stats.rx_packets + stats.rx_dropped = Done
  /\ stats.rx_bytes = Cardinality(Octets)
  /\ spent = IF polled THEN stats.rx_packets ELSE 0
=============================================================================
