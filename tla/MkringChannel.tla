---------------------------- MODULE MkringChannel ----------------------------
(***************************************************************************)
(* What one directional mkring queue promises to the kernel code above it: *)
(* a bounded FIFO channel of messages followed by a local receive queue.   *)
(* The k-th message accepted by the queue is the number k: the queue never *)
(* looks at a payload, so numbering the messages loses nothing and makes   *)
(* loss, duplication and reordering visible.                               *)
(***************************************************************************)
EXTENDS Naturals, Sequences

CONSTANTS
  N    \* capacity: mkring.desc_num

VARIABLES
  sent,     \* how many messages the channel has accepted
  chan,     \* accepted, not yet taken out by the receiving kernel
  rx_msgs   \* taken out, waiting for mkring_recv

cvars == <<sent, chan, rx_msgs>>

Init ==
  /\ sent = 0
  /\ chan = <<>>
  /\ rx_msgs = <<>>

Send ==
  /\ Len(chan) < N
  /\ sent' = sent + 1
  /\ chan' = Append(chan, sent + 1)
  /\ UNCHANGED rx_msgs

\* The receiving kernel takes the oldest message; it may have no memory to
\* keep it.
Take ==
  /\ chan # <<>>
  /\ chan' = Tail(chan)
  /\ rx_msgs' \in {Append(rx_msgs, Head(chan)), rx_msgs}
  /\ UNCHANGED sent

Recv ==
  /\ rx_msgs # <<>>
  /\ rx_msgs' = Tail(rx_msgs)
  /\ UNCHANGED <<sent, chan>>

Next == Send \/ Take \/ Recv

Spec == Init /\ [][Next]_cvars
==============================================================================
