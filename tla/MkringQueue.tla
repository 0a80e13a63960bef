----------------------------- MODULE MkringQueue -----------------------------
(***************************************************************************)
(* One directional mkring queue src -> dst (mkring/mkring.c): descriptors, *)
(* avail ring and used ring in memory shared by the two kernels, the       *)
(* sender's private view (struct mkring_queue in ctx->txq[dst]) and the    *)
(* receiver's (ctx->rxq[src]).                                             *)
(*                                                                         *)
(* The two kernels run concurrently and every access to shared memory that *)
(* the other side can observe is a step of its own.  Within a kernel       *)
(* tx_lock and proc_lock serialise the critical sections, so one program   *)
(* counter per lock stands for any number of threads; threads that have    *)
(* left tx_lock and not yet called notify() are counted in to_notify.      *)
(***************************************************************************)
EXTENDS Naturals, Sequences, FiniteSets

CONSTANTS
  N,             \* desc_num
  W,             \* number of values of a ring index (2^16 in the code)
  MaxSends,      \* bound: messages the environment ever sends
  NotifyMayFail  \* whether notify() can return an error

ASSUME QueueAssumption ==
  /\ N \in Nat \ {0}
  /\ W \in Nat
  /\ N < W
  /\ MaxSends \in Nat
  /\ NotifyMayFail \in BOOLEAN

VARIABLES
  \* memory shared by the two kernels
  data,            \* payload (message number) held by each descriptor
  avail_ring, avail_idx,
  used_ring, used_idx,
  \* the sender: ctx->txq[dst]
  inflight, free_cnt, last_used_idx,
  txpc,            \* where the holder of tx_lock is
  tx_used,         \* its local used_idx
  tx_id,           \* its local id
  to_notify,       \* enqueued messages whose notify() call is still to come
  \* the receiver: ctx->rxq[src]
  last_avail_idx,
  rxpc,            \* where the holder of proc_lock is
  rx_avail,        \* its local avail_idx
  rx_id,           \* its local id
  rx_msgs,
  ipi,             \* an interrupt of the mkring vector is pending
  \* history: never read by the code
  sent, taken, reclaimed

shm    == <<data, avail_ring, avail_idx, used_ring, used_idx>>
txvars == <<inflight, free_cnt, last_used_idx, txpc, tx_used, tx_id>>
rxvars == <<last_avail_idx, rxpc, rx_avail, rx_id, rx_msgs>>
hist   == <<sent, taken, reclaimed>>
vars   == <<shm, txvars, to_notify, rxvars, ipi, hist>>

Desc  == 0 .. N - 1
Index == 0 .. W - 1

MutInc(i) == i + 1  \* an index wider than 16 bits

\* u16 increment, and the ring slot of an index
Inc(i)  == (i + 1) % W
Slot(i) == i % N

\* the u16 index that stands for a count
Wrap(c) == c % W

Init ==
  /\ data = [d \in Desc |-> 0]
  /\ avail_ring = [s \in Desc |-> 0]
  /\ used_ring = [s \in Desc |-> 0]
  /\ avail_idx = 0
  /\ used_idx = 0
  /\ inflight = {}
  /\ free_cnt = N
  /\ last_used_idx = 0
  /\ txpc = "idle"
  /\ tx_used = 0
  /\ tx_id = 0
  /\ to_notify = 0
  /\ last_avail_idx = 0
  /\ rxpc = "idle"
  /\ rx_avail = 0
  /\ rx_id = 0
  /\ rx_msgs = <<>>
  /\ ipi = FALSE
  /\ sent = 0
  /\ taken = 0
  /\ reclaimed = 0

------------------------------------------------------------------------------
(* The sending kernel: mkring_send, mkring_tx_enqueue.                     *)

MutTxLock ==  \* takes the published index for the used one
  /\ txpc = "idle"
  /\ sent < MaxSends
  /\ txpc' = "reclaim"
  /\ tx_used' = avail_idx
  /\ UNCHANGED <<shm, inflight, free_cnt, last_used_idx, tx_id, to_notify,
                 rxvars, ipi, hist>>

\* Take tx_lock and read used_idx.
TxLock ==
  /\ txpc = "idle"
  /\ sent < MaxSends
  /\ txpc' = "reclaim"
  /\ tx_used' = used_idx
  /\ UNCHANGED <<shm, inflight, free_cnt, last_used_idx, tx_id, to_notify,
                 rxvars, ipi, hist>>

MutTxReclaim ==  \* reads the slot after the one that was published
  /\ txpc = "reclaim"
  /\ last_used_idx # tx_used
  /\ LET id == used_ring[Slot(Inc(last_used_idx))]
     IN  IF id \in inflight
           THEN /\ inflight' = inflight \ {id}
                /\ free_cnt' = free_cnt + 1
           ELSE UNCHANGED <<inflight, free_cnt>>
  /\ last_used_idx' = Inc(last_used_idx)
  /\ reclaimed' = reclaimed + 1
  /\ UNCHANGED <<shm, txpc, tx_used, tx_id, to_notify, rxvars, ipi, sent,
                 taken>>

MutTxReclaimUntested ==  \* counts the descriptor without clearing its bit
  /\ txpc = "reclaim"
  /\ last_used_idx # tx_used
  /\ free_cnt' = free_cnt + 1
  /\ last_used_idx' = Inc(last_used_idx)
  /\ reclaimed' = reclaimed + 1
  /\ UNCHANGED <<shm, inflight, txpc, tx_used, tx_id, to_notify, rxvars, ipi,
                 sent, taken>>

\* One turn of the loop of mkring_tx_reclaim_locked.
TxReclaim ==
  /\ txpc = "reclaim"
  /\ last_used_idx # tx_used
  /\ LET id == used_ring[Slot(last_used_idx)]
     IN  IF id \in Desc /\ id \in inflight
           THEN /\ inflight' = inflight \ {id}
                /\ free_cnt' = free_cnt + 1
           ELSE UNCHANGED <<inflight, free_cnt>>
  /\ last_used_idx' = Inc(last_used_idx)
  /\ reclaimed' = reclaimed + 1
  /\ UNCHANGED <<shm, txpc, tx_used, tx_id, to_notify, rxvars, ipi, sent,
                 taken>>

\* No descriptor: unlock and return -EAGAIN.
TxFull ==
  /\ txpc = "reclaim"
  /\ last_used_idx = tx_used
  /\ free_cnt = 0 \/ Desc \subseteq inflight
  /\ txpc' = "idle"
  /\ UNCHANGED <<shm, inflight, free_cnt, last_used_idx, tx_used, tx_id,
                 to_notify, rxvars, ipi, hist>>

MutTxFill ==  \* ignores the bitmap
  /\ txpc = "reclaim"
  /\ last_used_idx = tx_used
  /\ free_cnt # 0
  /\ \E id \in Desc :
       /\ inflight' = inflight \cup {id}
       /\ data' = [data EXCEPT ![id] = sent + 1]
       /\ tx_id' = id
  /\ free_cnt' = free_cnt - 1
  /\ txpc' = "ring"
  /\ UNCHANGED <<avail_ring, avail_idx, used_ring, used_idx, last_used_idx,
                 tx_used, to_notify, rxvars, ipi, hist>>

\* find_first_zero_bit, take the descriptor and fill it.
TxFill ==
  /\ txpc = "reclaim"
  /\ last_used_idx = tx_used
  /\ free_cnt # 0
  /\ \E id \in Desc \ inflight :
       /\ \A j \in Desc \ inflight : id <= j
       /\ inflight' = inflight \cup {id}
       /\ data' = [data EXCEPT ![id] = sent + 1]
       /\ tx_id' = id
  /\ free_cnt' = free_cnt - 1
  /\ txpc' = "ring"
  /\ UNCHANGED <<avail_ring, avail_idx, used_ring, used_idx, last_used_idx,
                 tx_used, to_notify, rxvars, ipi, hist>>

MutTxRing ==  \* off by one slot
  /\ txpc = "ring"
  /\ avail_ring' = [avail_ring EXCEPT ![Slot(Inc(avail_idx))] = tx_id]
  /\ txpc' = "publish"
  /\ UNCHANGED <<data, avail_idx, used_ring, used_idx, inflight, free_cnt,
                 last_used_idx, tx_used, tx_id, to_notify, rxvars, ipi, hist>>

\* Write the id into the avail ring.
TxRing ==
  /\ txpc = "ring"
  /\ avail_ring' = [avail_ring EXCEPT ![Slot(avail_idx)] = tx_id]
  /\ txpc' = "publish"
  /\ UNCHANGED <<data, avail_idx, used_ring, used_idx, inflight, free_cnt,
                 last_used_idx, tx_used, tx_id, to_notify, rxvars, ipi, hist>>

\* Publish avail_idx and unlock.
TxPublish ==
  /\ txpc = "publish"
  /\ avail_idx' = Inc(avail_idx)
  /\ sent' = sent + 1
  /\ to_notify' = to_notify + 1
  /\ txpc' = "idle"
  /\ UNCHANGED <<data, avail_ring, used_ring, used_idx, inflight, free_cnt,
                 last_used_idx, tx_used, tx_id, rxvars, ipi, taken, reclaimed>>

\* notify(): raise the interrupt on the receiving kernel.  Interrupts that
\* are already pending coalesce.
Notify ==
  /\ to_notify > 0
  /\ to_notify' = to_notify - 1
  /\ ipi' = TRUE
  /\ UNCHANGED <<shm, txvars, rxvars, hist>>

\* notify() fails: mkring_send returns its error, the message stays queued.
NotifyFail ==
  /\ NotifyMayFail
  /\ to_notify > 0
  /\ to_notify' = to_notify - 1
  /\ UNCHANGED <<shm, txvars, rxvars, ipi, hist>>

------------------------------------------------------------------------------
(* The receiving kernel: mkring_handle_ipi_all, mkring_process_rx_queue.   *)

\* The interrupt handler scans the queues of all peers, so an interrupt from
\* any peer enters this queue: the action has no guard on ipi.
RxIrq ==
  /\ rxpc = "idle"
  /\ ipi' = FALSE
  /\ rx_avail' = avail_idx
  /\ rxpc' = "loop"
  /\ UNCHANGED <<shm, txvars, to_notify, last_avail_idx, rx_id, rx_msgs, hist>>

\* Read the next descriptor id.
RxRead ==
  /\ rxpc = "loop"
  /\ last_avail_idx # rx_avail
  /\ rx_id' = avail_ring[Slot(last_avail_idx)]
  /\ rxpc' = "copy"
  /\ UNCHANGED <<shm, txvars, to_notify, last_avail_idx, rx_avail, rx_msgs,
                 ipi, hist>>

\* mkring_rx_enqueue_local: copy the payload, or drop it when kmalloc fails;
\* an id out of range is not copied.
RxCopy ==
  /\ rxpc = "copy"
  /\ rx_msgs' \in IF rx_id \in Desc
                    THEN {Append(rx_msgs, data[rx_id]), rx_msgs}
                    ELSE {rx_msgs}
  /\ rxpc' = "used"
  /\ UNCHANGED <<shm, txvars, to_notify, last_avail_idx, rx_avail, rx_id, ipi,
                 hist>>

MutRxUsed ==  \* off by one slot
  /\ rxpc = "used"
  /\ used_ring' = [used_ring EXCEPT ![Slot(Inc(used_idx))] = rx_id]
  /\ rxpc' = "advance"
  /\ UNCHANGED <<data, avail_ring, avail_idx, used_idx, txvars, to_notify,
                 last_avail_idx, rx_avail, rx_id, rx_msgs, ipi, hist>>

\* Write the used element.
RxUsed ==
  /\ rxpc = "used"
  /\ used_ring' = [used_ring EXCEPT ![Slot(used_idx)] = rx_id]
  /\ rxpc' = "advance"
  /\ UNCHANGED <<data, avail_ring, avail_idx, used_idx, txvars, to_notify,
                 last_avail_idx, rx_avail, rx_id, rx_msgs, ipi, hist>>

\* Publish used_idx and advance the private index.
RxAdvance ==
  /\ rxpc = "advance"
  /\ used_idx' = Inc(used_idx)
  /\ last_avail_idx' = Inc(last_avail_idx)
  /\ taken' = taken + 1
  /\ rxpc' = "reload"
  /\ UNCHANGED <<data, avail_ring, avail_idx, used_ring, txvars, to_notify,
                 rx_avail, rx_id, rx_msgs, ipi, sent, reclaimed>>

\* Read avail_idx again before the next turn.
RxReload ==
  /\ rxpc = "reload"
  /\ rx_avail' = avail_idx
  /\ rxpc' = "loop"
  /\ UNCHANGED <<shm, txvars, to_notify, last_avail_idx, rx_id, rx_msgs, ipi,
                 hist>>

MutRxExit ==  \* acknowledges the interrupt on the way out
  /\ rxpc = "loop"
  /\ last_avail_idx = rx_avail
  /\ rxpc' = "idle"
  /\ ipi' = FALSE
  /\ UNCHANGED <<shm, txvars, to_notify, last_avail_idx, rx_avail, rx_id,
                 rx_msgs, hist>>

\* Nothing left: unlock.
RxExit ==
  /\ rxpc = "loop"
  /\ last_avail_idx = rx_avail
  /\ rxpc' = "idle"
  /\ UNCHANGED <<shm, txvars, to_notify, last_avail_idx, rx_avail, rx_id,
                 rx_msgs, ipi, hist>>

\* mkring_recv takes the oldest message of the local list.
Recv ==
  /\ rx_msgs # <<>>
  /\ rx_msgs' = Tail(rx_msgs)
  /\ UNCHANGED <<shm, txvars, to_notify, last_avail_idx, rxpc, rx_avail,
                 rx_id, ipi, hist>>

------------------------------------------------------------------------------
TxStep == TxReclaim \/ TxFull \/ TxFill \/ TxRing \/ TxPublish
RxStep == RxRead \/ RxCopy \/ RxUsed \/ RxAdvance \/ RxReload \/ RxExit

Next == \/ TxLock \/ TxReclaim \/ TxFull \/ TxFill \/ TxRing \/ TxPublish
        \/ Notify \/ NotifyFail
        \/ RxIrq \/ RxRead \/ RxCopy \/ RxUsed \/ RxAdvance \/ RxReload \/ RxExit
        \/ Recv

Spec == Init /\ [][Next]_vars

\* A kernel thread inside a spinlock section keeps running; a pending
\* interrupt is eventually taken; a sender whose message was enqueued gets to
\* its notify() call; a client retries a refused send.
Fairness ==
  /\ WF_vars(TxStep)
  /\ WF_vars(RxStep)
  /\ WF_vars(ipi /\ RxIrq)
  /\ WF_vars(Notify)
  /\ WF_vars(TxLock)

FairSpec == Spec /\ Fairness
------------------------------------------------------------------------------
(* Properties.                                                             *)

RxHolds   == rxpc \in {"copy", "used", "advance"}
TxHolds   == txpc \in {"ring", "publish"}
Filling   == IF TxHolds THEN 1 ELSE 0

\* The descriptor that carries message k while it waits in the avail ring,
\* and while its return waits in the used ring.
Avail(k) == avail_ring[Slot(k - 1)]
Used(k)  == used_ring[Slot(k - 1)]

\* Types: indices stay 16-bit values (W of them), ids name descriptors, and
\* free_cnt stays within the capacity.
TypeOK ==
  /\ data \in [Desc -> Nat]
  /\ avail_ring \in [Desc -> Desc]
  /\ used_ring \in [Desc -> Desc]
  /\ {avail_idx, used_idx, last_used_idx, last_avail_idx, tx_used, rx_avail}
       \subseteq Index
  /\ inflight \subseteq Desc
  /\ free_cnt \in 0 .. N
  /\ txpc \in {"idle", "reclaim", "ring", "publish"}
  /\ rxpc \in {"idle", "loop", "copy", "used", "advance", "reload"}
  /\ {tx_id, rx_id} \subseteq Desc
  /\ to_notify \in Nat
  /\ rx_msgs \in Seq(Nat)
  /\ ipi \in BOOLEAN
  /\ {sent, taken, reclaimed} \subseteq Nat

\* The private and shared u16 indices are the true counts modulo W, and the
\* counts are ordered with at most N messages between reclaim and publish.
IndexInv ==
  /\ avail_idx = Wrap(sent)
  /\ used_idx = Wrap(taken)
  /\ last_avail_idx = Wrap(taken)
  /\ last_used_idx = Wrap(reclaimed)
  /\ reclaimed <= taken /\ taken <= sent
  /\ txpc = "reclaim" => \E u \in reclaimed .. taken : tx_used = Wrap(u)
  /\ rxpc = "loop" => \E a \in taken .. sent : rx_avail = Wrap(a)
  /\ RxHolds => taken < sent

\* Credits (mkring_tx_enqueue, mkring_tx_reclaim_locked): free_cnt is exactly
\* the capacity minus the messages between fill and reclaim, so no descriptor
\* is ever leaked or handed out twice.
CreditsExact == free_cnt + Filling + (sent - reclaimed) = N

\* Ownership: a descriptor between fill and reclaim is marked in flight and
\* still holds its own message, wherever it is: being filled, in the avail
\* ring, held by the receiver, or on its way back in the used ring.
OwnershipInv ==
  /\ \A k \in taken + 1 .. sent : Avail(k) \in inflight /\ data[Avail(k)] = k
  /\ \A k \in reclaimed + 1 .. taken : Used(k) \in inflight /\ data[Used(k)] = k
  /\ TxHolds => tx_id \in inflight /\ data[tx_id] = sent + 1
  /\ txpc = "publish" => avail_ring[Slot(sent)] = tx_id
  /\ RxHolds => rx_id = Avail(taken + 1)
  /\ rxpc = "advance" => used_ring[Slot(taken)] = rx_id

\* The inductive invariant.
IInv == TypeOK /\ IndexInv /\ CreditsExact /\ OwnershipInv

\* mkring_process_rx_queue copies message taken + 1 next: nothing is lost,
\* duplicated, reordered or overwritten between the two kernels, across any
\* number of wraps of the u16 indices.
CopiesNextMessage ==
  rxpc = "copy" => rx_id \in Desc /\ data[rx_id] = taken + 1

\* mkring_tx_enqueue trusts free_cnt and the bitmap to agree: a non-zero
\* free_cnt means find_first_zero_bit finds a bit, and free_cnt counts the
\* clear bits.
BitmapAgrees == free_cnt = N - Cardinality(inflight)

\* No step changes the payload of a descriptor that is published and not yet
\* given back by the receiver.
NoOverwrite ==
  [][\A k \in taken + 1 .. sent : data'[Avail(k)] = data[Avail(k)]]_vars

\* The queue implements the bounded FIFO channel.  A message leaves the
\* channel when the receiver has copied it.
Copied == IF rxpc \in {"used", "advance"} THEN 1 ELSE 0

ChanBar ==
  [i \in 1 .. (((avail_idx + W) - last_avail_idx) % W) - Copied |->
     data[avail_ring[Slot((last_avail_idx + Copied + i - 1) % W)]]]

Channel == INSTANCE MkringChannel WITH chan <- ChanBar

ImplementsChannel == Channel!Spec

\* Once an interrupt is pending, every message published so far is taken out
\* by the receiver, even if the publication races with the handler's exit.
DrainedAfterIpi ==
  \A k \in 1 .. MaxSends : (ipi /\ sent >= k) ~> (taken >= k)

\* As long as the receiver's interrupt handler keeps running, for whichever
\* peer, a sender that retries on -EAGAIN gets every message through: a full
\* ring is always reclaimed in the end, and a failed notify() only delays.
RetriedSendSucceeds == []<>(rxpc = "reload" \/ rxpc = "loop") => <>(sent = MaxSends)
==============================================================================
