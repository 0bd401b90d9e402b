------------------------------ MODULE PacketQueue ------------------------------
(***************************************************************************)
(* What the receive side of an interface promises, however it is built:     *)
(* packets wait in the order they arrive in, at most Capacity of them, and  *)
(* the first to wait is the next to be delivered or dropped.                *)
(***************************************************************************)
EXTENDS Integers, Sequences

CONSTANTS
  Capacity,    \* the most packets that wait
  MaxArrivals  \* bound: packets that arrive

VARIABLES
  count,     \* how many packets have arrived; they are numbered
  waiting,   \* those not handled yet
  handed_up  \* those delivered

queueVars == <<count, waiting, handed_up>>

QueueInit == count = 0 /\ waiting = << >> /\ handed_up = << >>

PacketArrives ==
  /\ count < MaxArrivals /\ Len(waiting) < Capacity
  /\ count' = count + 1
  /\ waiting' = Append(waiting, count')
  /\ UNCHANGED handed_up

PacketLeaves ==
  /\ waiting # << >>
  /\ waiting' = Tail(waiting)
  /\ handed_up' \in {handed_up, Append(handed_up, Head(waiting))}
  /\ UNCHANGED count

QueueSpec == QueueInit /\ [][PacketArrives \/ PacketLeaves]_queueVars
=============================================================================
