-------------------------------- MODULE Snull --------------------------------
(***************************************************************************)
(* The snull interface of Books/tempdocs.c (parts of it are also in         *)
(* Networking/Opening-Closing.c and Networking_doc.c): transmission, the    *)
(* transmit timeout, the interrupt handler, and reception by interrupt or,  *)
(* when the module is loaded with use_napi, by polling.                     *)
(*                                                                         *)
(* The interface is software: its status word is a variable, and whoever    *)
(* moves a packet runs the handler itself.  So the handler runs in three    *)
(* contexts: the transmit path of this interface, the one of its peer, and  *)
(* the watchdog of the network layer.  A fourth runs snull_poll.  The       *)
(* hardware side (snull_hw_tx) and the network layer are external.          *)
(***************************************************************************)
EXTENDS Sequences, Integers, FiniteSets

CONSTANTS
  Skbs,         \* the socket buffers the network layer sends
  NULL,         \* no socket buffer, no packet, no context
  Closes,       \* whether the interface may be taken down
  Answers,      \* what the hardware may do with a transmission, see HwTx
  PoolSize,     \* the packet buffers of the peer
  Modes,        \* the values of use_napi
  Weight,       \* the most packets one poll may take (2 in the code)
  MaxArrivals   \* bound: packets that arrive

(* Who runs the handler, and the poll.                                      *)
Callers  == {"xmit", "peer", "watchdog"}
Contexts == Callers \cup {"poll"}

ASSUME SnullAssumption ==
  /\ NULL \notin Skbs \cup Callers \cup Nat
  /\ Answers \subseteq {"now", "lost"} /\ Closes \in BOOLEAN
  /\ PoolSize \in Nat /\ MaxArrivals \in Nat
  /\ Modes \subseteq BOOLEAN /\ Weight \in Nat \ {0}

VARIABLES
  skb,        \* priv->skb
  status,     \* priv->status, as the set of its bits
  rx_queue,   \* priv->rx_queue: the packets received and not handled
  lock,       \* priv->lock: the context that has it
  up,         \* the interface is up
  queue,      \* the transmit queue: "stopped" or "started"
  owner,      \* whose each socket buffer is: "stack" or "driver"
  pc,         \* where each context is
  word,       \* the statusword each has read
  pkt,        \* the packet each has taken from rx_queue
  pool,       \* packet buffers not in use
  arrived,    \* how many packets have arrived; they are numbered
  delivered,  \* the packets given to the network layer, in order
  use_napi,   \* the module's parameter
  rx_ints,    \* priv->rx_int_enabled: receive interrupts are enabled
  polling,    \* the interface is on the network layer's list of polls
  quota       \* what is left of the quota of the poll that is running

tx   == <<skb, up, queue, owner>>
rx   == <<rx_queue, pool, arrived, delivered>>
irq  == <<lock, word, pkt>>
napi == <<use_napi, rx_ints, polling, quota>>
vars == <<skb, status, rx_queue, lock, up, queue, owner, pc, word, pkt, pool, arrived, delivered,
          use_napi, rx_ints, polling, quota>>


Init ==
  /\ skb = NULL /\ status = {} /\ lock = NULL
  /\ up = FALSE /\ queue = "stopped"
  /\ owner = [s \in Skbs |-> "stack"]
  /\ pc   = [c \in Contexts |-> "idle"]
  /\ word = [c \in Contexts |-> {}]
  /\ pkt  = [c \in Contexts |-> NULL]
  /\ rx_queue = << >> /\ pool = PoolSize /\ arrived = 0 /\ delivered = << >>
  /\ use_napi \in Modes /\ rx_ints = TRUE /\ polling = FALSE /\ quota = 0

Goto(c, l) == pc' = [pc EXCEPT ![c] = l]

-----------------------------------------------------------------------------
(* ifconfig up.                                                             *)
snull_open ==
  /\ ~up
  /\ up' = TRUE /\ queue' = "started"
  /\ UNCHANGED <<skb, owner, status, rx, irq, pc, napi>>

(* Mutant: the transmit queue is not stopped.                               *)
ReleaseStarted ==
  /\ Closes /\ up /\ pc["xmit"] = "idle" /\ pc["watchdog"] = "idle"
  /\ up' = FALSE
  /\ UNCHANGED <<queue, skb, owner, status, rx, irq, pc, napi>>

(* ifconfig down.  The network layer takes no interface down while it is in *)
(* its transmit function or its timeout function.                           *)
snull_release ==
  /\ Closes /\ up /\ pc["xmit"] = "idle" /\ pc["watchdog"] = "idle"
  /\ up' = FALSE /\ queue' = "stopped"
  /\ UNCHANGED <<skb, owner, status, rx, irq, pc, napi>>

(* snull_tx, called under the network layer's transmit lock while the queue *)
(* is started: the driver now answers for the socket buffer.                *)
snull_tx(s) ==
  /\ pc["xmit"] = "idle" /\ pc["watchdog"] = "idle"
  /\ queue = "started" /\ owner[s] = "stack"
  /\ owner' = [owner EXCEPT ![s] = "driver"]
  /\ skb' = s
  /\ Goto("xmit", "hw")
  /\ UNCHANGED <<up, queue, status, rx, irq, napi>>

(***************************************************************************)
(* snull_hw_tx.  The transmission is over before it returns and the handler *)
(* is run ("now"); or the lockup that can be simulated: no interrupt comes  *)
(* and the queue is stopped ("lost").  The second leaves the status word    *)
(* alone, the snull_tx_timeout that fills in the interrupt sets it.         *)
(***************************************************************************)
HwTx ==
  /\ pc["xmit"] = "hw"
  /\ \/ /\ "now" \in Answers
        /\ status' = status \cup {"TX"} /\ Goto("xmit", "irq")
        /\ UNCHANGED queue
     \/ /\ "lost" \in Answers
        /\ queue' = "stopped" /\ Goto("xmit", "idle")
        /\ UNCHANGED status
  /\ UNCHANGED <<skb, up, owner, rx, irq, napi>>

(* The peer's snull_hw_tx: a packet in one of its buffers goes to this      *)
(* interface's queue and, if receive interrupts are enabled, the handler is *)
(* run.                                                                     *)
Arrive ==
  /\ pc["peer"] = "idle" /\ arrived < MaxArrivals /\ pool > 0
  /\ arrived' = arrived + 1 /\ pool' = pool - 1
  /\ rx_queue' = Append(rx_queue, arrived')
  /\ IF rx_ints
     THEN status' = status \cup {"RX"} /\ Goto("peer", "irq")
     ELSE UNCHANGED <<status, pc>>
  /\ UNCHANGED <<tx, irq, delivered, napi>>

(* Mutant: the timeout runs the handler without the status it stands for.   *)
TimeoutSetsNothing ==
  /\ pc["watchdog"] = "idle" /\ pc["xmit"] = "idle"
  /\ up /\ queue = "stopped"
  /\ Goto("watchdog", "irq")
  /\ UNCHANGED <<tx, rx, irq, status, napi>>

(* snull_tx_timeout, called under the transmit lock when a stopped queue    *)
(* has had no transmission for the timeout: fill in the missing interrupt.  *)
snull_tx_timeout ==
  /\ pc["watchdog"] = "idle" /\ pc["xmit"] = "idle"
  /\ up /\ queue = "stopped"
  /\ status' = {"TX"} /\ Goto("watchdog", "irq")
  /\ UNCHANGED <<tx, rx, irq, napi>>

(* After the handler it counts the error and wakes the queue.               *)
WakeQueue ==
  /\ pc["watchdog"] = "wake"
  /\ queue' = "started"
  /\ Goto("watchdog", "idle")
  /\ UNCHANGED <<skb, up, owner, status, rx, irq, napi>>

-----------------------------------------------------------------------------
(* snull_regular_interrupt, step by step.                                   *)
ReadStatus(c) ==
  /\ pc[c] = "irq" /\ lock = NULL
  /\ lock' = c
  /\ word' = [word EXCEPT ![c] = status]
  /\ Goto(c, "clear")
  /\ UNCHANGED <<tx, rx, status, pkt, napi>>

(* Mutant: the status word is left as it was.                               *)
StatusKept(c) ==
  /\ pc[c] = "clear"
  /\ Goto(c, "rx")
  /\ UNCHANGED <<tx, rx, irq, status, napi>>

ClearStatus(c) ==
  /\ pc[c] = "clear"
  /\ status' = {}
  /\ Goto(c, "rx")
  /\ UNCHANGED <<tx, rx, irq, napi>>

(* snull_rx gives the packet to the network layer, or drops it when there   *)
(* is no memory for a socket buffer.                                        *)
snull_rx(p) == delivered' \in {Append(delivered, p), delivered}

(* Mutant: the packet is handled and stays in the queue.                    *)
HandleRxKeeps(c) ==
  /\ pc[c] = "rx" /\ (use_napi => "RX" \notin word[c])
  /\ IF "RX" \in word[c] /\ rx_queue # << >>
     THEN /\ pkt' = [pkt EXCEPT ![c] = Head(rx_queue)]
          /\ snull_rx(Head(rx_queue))
     ELSE UNCHANGED <<pkt, delivered>>
  /\ Goto(c, "tx")
  /\ UNCHANGED <<tx, rx_queue, pool, arrived, status, lock, word, napi>>

(* Mutant: what is behind the packet is lost.                               *)
HandleRxLoses(c) ==
  /\ pc[c] = "rx" /\ (use_napi => "RX" \notin word[c])
  /\ IF "RX" \in word[c] /\ rx_queue # << >>
     THEN /\ pkt' = [pkt EXCEPT ![c] = Head(rx_queue)]
          /\ rx_queue' = << >>
          /\ snull_rx(Head(rx_queue))
     ELSE UNCHANGED <<pkt, rx_queue, delivered>>
  /\ Goto(c, "tx")
  /\ UNCHANGED <<tx, pool, arrived, status, lock, word, napi>>

(* One packet is taken from the queue.                                      *)
HandleRx(c) ==
  /\ pc[c] = "rx" /\ (use_napi => "RX" \notin word[c])
  /\ IF "RX" \in word[c] /\ rx_queue # << >>
     THEN /\ pkt' = [pkt EXCEPT ![c] = Head(rx_queue)]
          /\ rx_queue' = Tail(rx_queue)
          /\ snull_rx(Head(rx_queue))
     ELSE UNCHANGED <<pkt, rx_queue, delivered>>
  /\ Goto(c, "tx")
  /\ UNCHANGED <<tx, pool, arrived, status, lock, word, napi>>

(* The same place of the handler when it has been changed for use_napi:     *)
(* the packet stays in the queue, receive interrupts are disabled and a     *)
(* poll is asked for.                                                       *)
ScheduleRx(c) ==
  /\ pc[c] = "rx" /\ use_napi /\ "RX" \in word[c]
  /\ rx_ints' = FALSE /\ polling' = TRUE
  /\ Goto(c, "tx")
  /\ UNCHANGED <<tx, rx, irq, status, use_napi, quota>>

HandleTx(c) ==
  /\ pc[c] = "tx"
  /\ owner' = IF "TX" \in word[c] THEN [owner EXCEPT ![skb] = "stack"] ELSE owner
  /\ lock' = NULL
  /\ word' = [word EXCEPT ![c] = {}]
  /\ Goto(c, "release")
  /\ UNCHANGED <<skb, up, queue, rx, status, pkt, napi>>

(* The packet's buffer goes back outside the lock.                          *)
ReleaseBuffer(c) ==
  /\ pc[c] = "release"
  /\ pool' = IF pkt[c] = NULL THEN pool ELSE pool + 1
  /\ pkt' = [pkt EXCEPT ![c] = NULL]
  /\ Goto(c, IF c = "watchdog" THEN "wake" ELSE "idle")
  /\ UNCHANGED <<tx, rx_queue, arrived, delivered, status, lock, word, napi>>

Interrupt(c) ==
  \/ ReadStatus(c) \/ ClearStatus(c) \/ HandleRx(c) \/ ScheduleRx(c)
  \/ HandleTx(c) \/ ReleaseBuffer(c)

-----------------------------------------------------------------------------
(* snull_poll, called by the network layer again and again while the        *)
(* interface is on its list.  quota is the smaller of what the interface    *)
(* and the network layer have left, which is never nothing when it calls.   *)
PollStart ==
  /\ pc["poll"] = "idle" /\ polling
  /\ quota' \in 1..Weight
  /\ Goto("poll", "loop")
  /\ UNCHANGED <<tx, rx, irq, status, use_napi, rx_ints, polling>>

PollDequeue ==
  /\ pc["poll"] = "loop" /\ quota > 0 /\ rx_queue # << >>
  /\ pkt' = [pkt EXCEPT !["poll"] = Head(rx_queue)]
  /\ rx_queue' = Tail(rx_queue)
  /\ Goto("poll", "packet")
  /\ UNCHANGED <<tx, status, lock, word, pool, arrived, delivered, napi>>

(* Mutant: a packet that finds no memory keeps its buffer.                  *)
PollDropKeepsBuffer ==
  /\ pc["poll"] = "packet"
  /\ \/ /\ delivered' = Append(delivered, pkt["poll"])
        /\ quota' = quota - 1 /\ pool' = pool + 1
     \/ UNCHANGED <<delivered, quota, pool>>
  /\ pkt' = [pkt EXCEPT !["poll"] = NULL]
  /\ Goto("poll", "loop")
  /\ UNCHANGED <<tx, status, lock, word, rx_queue, arrived, use_napi, rx_ints, polling>>

(* The packet goes to the network layer, or is dropped when there is no     *)
(* memory, which does not count; either way its buffer is free.             *)
PollPacket ==
  /\ pc["poll"] = "packet"
  /\ \/ /\ delivered' = Append(delivered, pkt["poll"])
        /\ quota' = quota - 1
     \/ UNCHANGED <<delivered, quota>>
  /\ pool' = pool + 1
  /\ pkt' = [pkt EXCEPT !["poll"] = NULL]
  /\ Goto("poll", "loop")
  /\ UNCHANGED <<tx, status, lock, word, rx_queue, arrived, use_napi, rx_ints, polling>>

PollLeaveLoop ==
  /\ pc["poll"] = "loop" /\ (quota = 0 \/ rx_queue = << >>)
  /\ quota' = 0
  /\ Goto("poll", "test")
  /\ UNCHANGED <<tx, rx, irq, status, use_napi, rx_ints, polling>>

(* Mutants: the poll always says it is done; or never enables interrupts.   *)
PollAlwaysDone ==
  /\ pc["poll"] = "test"
  /\ polling' = FALSE /\ Goto("poll", "enable")
  /\ UNCHANGED <<tx, rx, irq, status, use_napi, rx_ints, quota>>
PollForgetsInts ==
  /\ pc["poll"] = "enable"
  /\ Goto("poll", "idle")
  /\ UNCHANGED <<tx, rx, irq, status, napi>>

(* An empty queue ends polling: netif_rx_complete, then interrupts.         *)
PollTest ==
  /\ pc["poll"] = "test"
  /\ IF rx_queue = << >>
     THEN polling' = FALSE /\ Goto("poll", "enable")
     ELSE Goto("poll", "idle") /\ UNCHANGED polling
  /\ UNCHANGED <<tx, rx, irq, status, use_napi, rx_ints, quota>>

PollEnable ==
  /\ pc["poll"] = "enable"
  /\ rx_ints' = TRUE
  /\ Goto("poll", "idle")
  /\ UNCHANGED <<tx, rx, irq, status, use_napi, polling, quota>>

snull_poll ==
  \/ PollStart \/ PollDequeue \/ PollPacket \/ PollLeaveLoop \/ PollTest \/ PollEnable

Next ==
  \/ snull_open \/ snull_release
  \/ \E s \in Skbs : snull_tx(s)
  \/ HwTx \/ Arrive
  \/ snull_tx_timeout \/ WakeQueue
  \/ \E c \in Callers : Interrupt(c)
  \/ snull_poll

Spec == Init /\ [][Next]_vars

(* The contexts are code that runs to its end, a spinlock lets everyone in, *)
(* and the watchdog's timer goes off when a queue stays stopped.            *)
Fairness ==
  /\ WF_vars(HwTx) /\ WF_vars(WakeQueue) /\ WF_vars(snull_tx_timeout)
  /\ \A c \in Callers : SF_vars(ReadStatus(c)) /\ WF_vars(Interrupt(c))

FairSpec == Spec /\ Fairness

(* The network layer goes through its list of polls.                        *)
PollSpec == Spec /\ WF_vars(snull_poll)

-----------------------------------------------------------------------------
TypeOK ==
  /\ skb \in Skbs \cup {NULL}
  /\ status \subseteq {"RX", "TX"}
  /\ rx_queue \in Seq(1..MaxArrivals) /\ delivered \in Seq(1..MaxArrivals)
  /\ lock \in Callers \cup {NULL}
  /\ up \in BOOLEAN /\ queue \in {"started", "stopped"}
  /\ queue = "started" => up
  /\ owner \in [Skbs -> {"stack", "driver"}]
  /\ pc \in [Contexts -> {"idle", "hw", "irq", "clear", "rx", "tx", "release", "wake",
                         "loop", "packet", "test", "enable"}]
  /\ word \in [Contexts -> SUBSET {"RX", "TX"}]
  /\ pkt \in [Contexts -> 1..MaxArrivals \cup {NULL}]
  /\ pool \in 0..PoolSize /\ arrived \in 0..MaxArrivals
  /\ use_napi \in Modes /\ rx_ints \in BOOLEAN /\ polling \in BOOLEAN /\ quota \in 0..Weight

(* The handler frees a socket buffer only while the driver answers for it:  *)
(* no interrupt is taken for a transmission that is already over, whichever *)
(* contexts share the status word.                                          *)
SkbFreedOnce ==
  \A c \in Contexts : pc[c] = "tx" /\ "TX" \in word[c] => owner[skb] = "driver"

(* "The driver [must] not lose track of any socket buffers that have been   *)
(* entrusted to it": every buffer it answers for is the one priv->skb names.*)
SkbTracked == \A s \in Skbs : owner[s] = "driver" => s = skb

(* Whatever contexts run the handler at once, a packet goes to the network  *)
(* layer at most once, after those that came before it, and not while it is *)
(* still in the queue.                                                      *)
RxInOrder ==
  LET seen == delivered \o rx_queue
  IN  \A i, j \in 1..Len(seen) : i < j => seen[i] < seen[j]

(* Every packet buffer is free, in the queue or in the hands of one context.*)
BuffersConserved ==
  pool + Len(rx_queue) + Cardinality({c \in Contexts : pkt[c] # NULL}) = PoolSize

(* Receive interrupts are disabled exactly while a poll is asked for or has *)
(* not come to its end: the interface is never left deaf, and no handler    *)
(* asks for a poll while another is running.                                *)
MaskedWhilePolled == rx_ints <=> ~polling /\ pc["poll"] = "idle"

(* A packet the poll has taken from the list waits until it has built its    *)
(* socket buffer.                                                            *)
Waiting == (IF pkt["poll"] = NULL THEN << >> ELSE <<pkt["poll"]>>) \o rx_queue

Queue == INSTANCE PacketQueue
  WITH Capacity <- PoolSize, count <- arrived, waiting <- Waiting, handed_up <- delivered

(* By interrupt and by poll alike, with every context at work at once, the  *)
(* receive side is a queue: no packet is lost in it, taken twice or taken   *)
(* out of turn, and no step does more than one of these things.             *)
ImplementsPacketQueue == Queue!QueueSpec

(* A packet that is in the queue while the interface is polled is taken,    *)
(* whatever the quota of each poll and however many packets follow it.      *)
PolledPacketsTaken ==
  \A n \in 1..MaxArrivals :
    (polling /\ \E i \in DOMAIN rx_queue : rx_queue[i] = n)
      ~> ~\E i \in DOMAIN rx_queue : rx_queue[i] = n

(* Every socket buffer given to the driver is freed in the end.             *)
SkbsFreed == \A s \in Skbs : (owner[s] = "driver") ~> (owner[s] = "stack")
=============================================================================
