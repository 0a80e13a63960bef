-------------------------- MODULE MkringQueueProofs --------------------------
(***************************************************************************)
(* Theorems about one mkring queue, for every number N of descriptors that *)
(* divides the number W of index values, as the default desc_num = 256     *)
(* divides 2^16, and for any number of messages.                           *)
(***************************************************************************)
EXTENDS MkringQueue, FiniteSetTheorems, SequenceTheorems, TLAPS

------------------------------------------------------------------------------
(* Modular arithmetic with a symbolic modulus.                             *)

\* Quotient and remainder exist.
LEMMA DivMod ==
  ASSUME NEW a \in Nat, NEW b \in Nat \ {0}
  PROVE  \E q \in Nat, r \in 0 .. b - 1 : a = b * q + r /\ a % b = r
<1>1. a \div b \in Nat /\ a % b \in 0 .. b - 1
  OBVIOUS
<1>2. a = b * (a \div b) + (a % b)
  OBVIOUS
<1> QED
  BY <1>1, <1>2, Zenon

\* The remainder is unique.
LEMMA ModUnique ==
  ASSUME NEW b \in Nat \ {0}, NEW q \in Nat, NEW r \in 0 .. b - 1
  PROVE  (b * q + r) % b = r
OBVIOUS

\* Incrementing a wrapped index wraps the incremented count (Inc).
LEMMA ModInc ==
  ASSUME NEW a \in Nat, NEW b \in Nat \ {0}
  PROVE  ((a % b) + 1) % b = (a + 1) % b
<1>1. PICK q \in Nat, r \in 0 .. b - 1 : a = b * q + r /\ a % b = r
  BY DivMod, Zenon
<1>2. CASE r + 1 < b
  <2>1. r + 1 \in 0 .. b - 1
    BY <1>2
  <2>2. (b * q + (r + 1)) % b = r + 1
    BY <2>1, ModUnique, Zenon
  <2>3. (b * 0 + (r + 1)) % b = r + 1
    BY <2>1, ModUnique, Zenon
  <2>4. a + 1 = b * q + (r + 1) /\ r + 1 = b * 0 + (r + 1)
    BY <1>1
  <2> QED
    BY <2>2, <2>3, <2>4, <1>1, Zenon
<1>3. CASE r + 1 = b
  <2>1. (b * (q + 1) + 0) % b = 0
    BY ModUnique
  <2>2. (b * 1 + 0) % b = 0
    BY ModUnique
  <2>3. a + 1 = b * (q + 1) + 0 /\ r + 1 = b * 1 + 0
    BY <1>1, <1>3
  <2> QED
    BY <2>1, <2>2, <2>3, <1>1, Zenon
<1> QED
  BY <1>1, <1>2, <1>3

\* When b divides c, reducing modulo c first does not change the remainder
\* modulo b: the slot of a wrapped index is the slot of the count.
LEMMA ModMod ==
  ASSUME NEW a \in Nat, NEW b \in Nat \ {0}, NEW c \in Nat \ {0}, c % b = 0
  PROVE  (a % c) % b = a % b
<1>1. PICK q \in Nat, r \in 0 .. c - 1 : a = c * q + r /\ a % c = r
  BY DivMod, Zenon
<1>2. PICK m \in Nat : c = b * m
  BY DivMod
<1>3. PICK s \in Nat, t \in 0 .. b - 1 : r = b * s + t /\ r % b = t
  <2>1. r \in Nat
    OBVIOUS
  <2> QED
    BY <2>1, DivMod, Zenon
<1>4. c * q = b * (m * q)
  BY <1>2
<1>5. m * q \in Nat
  OBVIOUS
<1>6. a = b * (m * q + s) + t
  BY <1>1, <1>3, <1>4, <1>5
<1>7. m * q + s \in Nat
  BY <1>5
<1>8. (b * (m * q + s) + t) % b = t
  BY <1>7, ModUnique, Zenon
<1> QED
  BY <1>8, <1>6, <1>3, <1>1, Zenon

\* Counts less than b apart have different remainders.
LEMMA ModInjective ==
  ASSUME NEW x \in Nat, NEW y \in Nat, NEW b \in Nat \ {0},
         x % b = y % b, x <= y, y < x + b
  PROVE  x = y
<1>1. PICK q \in Nat, r \in 0 .. b - 1 : x = b * q + r /\ x % b = r
  BY DivMod, Zenon
<1>2. PICK p \in Nat, u \in 0 .. b - 1 : y = b * p + u /\ y % b = u
  BY DivMod, Zenon
<1>3. y = b * p + r
  BY <1>1, <1>2, Zenon
<1>4. p - q \in Int /\ b * (p - q) = y - x
  BY <1>1, <1>3
<1>5. ~ (p - q >= 1)
  BY <1>1, <1>3, <1>4
<1>6. ~ (p - q <= -1)
  BY <1>1, <1>3, <1>4
<1>7. p = q
  BY <1>5, <1>6
<1> QED
  BY <1>7, <1>1, <1>3, Zenon

\* The slots of counts less than b apart are different slots, in 0 .. b - 1.
LEMMA ModDiffers ==
  ASSUME NEW x \in Nat, NEW y \in Nat, NEW b \in Nat \ {0}, x < y, y < x + b
  PROVE  x % b # y % b
<1> SUFFICES ASSUME x % b = y % b PROVE FALSE
  BY Zenon
<1>1. x <= y
  OBVIOUS
<1>2. x = y
  BY <1>1, ModInjective, Zenon
<1> QED
  BY <1>2

------------------------------------------------------------------------------
(* Indices and slots.                                                      *)

\* Slots are descriptors' ring positions and wrapped counts are indices.
LEMMA IndexTypes ==
  /\ \A c \in Nat : Slot(c) \in Desc
  /\ \A c \in Nat : Wrap(c) \in Index
BY QueueAssumption DEF Slot, Wrap, Desc, Index

\* u16 arithmetic on the indices agrees with arithmetic on the counts, and
\* so does the slot when N divides W.
LEMMA IndexArithmetic ==
  ASSUME W % N = 0
  PROVE  /\ \A c \in Nat : Inc(Wrap(c)) = Wrap(c + 1)
         /\ \A c \in Nat : Slot(Wrap(c)) = Slot(c)
<1> W \in Nat \ {0} /\ N \in Nat \ {0}
  BY QueueAssumption
<1>1. \A c \in Nat : Inc(Wrap(c)) = Wrap(c + 1)
  BY ModInc, Zenon DEF Inc, Wrap
<1>2. \A c \in Nat : Slot(Wrap(c)) = Slot(c)
  BY ModMod, ZenonT(60) DEF Slot, Wrap
<1> QED
  BY <1>1, <1>2, Zenon

\* Counts less than N apart use different slots.
LEMMA SlotsDiffer ==
  ASSUME NEW x \in Nat, NEW y \in Nat, x < y, y < x + N
  PROVE  Slot(x) # Slot(y)
BY QueueAssumption, ModDiffers, Zenon DEF Slot

------------------------------------------------------------------------------
(* The inductive invariant.                                                *)

\* mkring_queue_setup on fresh shared memory establishes the invariant.
LEMMA InitInv == Init => IInv
<1> SUFFICES ASSUME Init PROVE IInv
  BY Zenon
<1>1. Wrap(0) = 0 /\ 0 \in Index /\ 0 \in Desc
  BY QueueAssumption DEF Wrap, Index, Desc
<1>2. TypeOK
  BY QueueAssumption, <1>1 DEF Init, TypeOK
<1>3. IndexInv
  BY <1>1 DEF Init, IndexInv, RxHolds
<1>4. CreditsExact
  BY QueueAssumption DEF Init, CreditsExact, Filling, TxHolds
<1>5. OwnershipInv
  BY DEF Init, OwnershipInv, TxHolds, RxHolds
<1> QED
  BY <1>2, <1>3, <1>4, <1>5, Zenon DEF IInv

\* Taking tx_lock only samples used_idx.
LEMMA TxLockInv == ASSUME IInv, TxLock PROVE IInv'
<1> USE DEF IInv, TxLock, shm, rxvars, hist
<1>1. TypeOK'
  BY Zenon DEF TypeOK
<1>2. IndexInv'
  <2>1. taken \in reclaimed .. taken
    BY DEF IndexInv, TypeOK
  <2> QED
    BY <2>1, Zenon DEF IndexInv, RxHolds
<1>3. CreditsExact'
  BY Zenon DEF CreditsExact, Filling, TxHolds
<1>4. OwnershipInv'
  BY Zenon DEF OwnershipInv, Avail, Used, TxHolds, RxHolds
<1> QED
  BY <1>1, <1>2, <1>3, <1>4, Zenon

\* The descriptor reclaimed is the one of message reclaimed + 1, which is in
\* flight: one credit comes back for one message.
LEMMA TxReclaimInv == ASSUME W % N = 0, IInv, TxReclaim PROVE IInv'
<1> USE DEF IInv, TxReclaim, shm, rxvars
<1> DEFINE id == used_ring[Slot(last_used_idx)]
<1>1. PICK u \in reclaimed .. taken : tx_used = Wrap(u)
  BY Zenon DEF IndexInv
<1>2. {sent, taken, reclaimed} \subseteq Nat
  BY Zenon DEF TypeOK
<1>3. reclaimed + 1 \in reclaimed .. taken /\ u \in reclaimed + 1 .. taken
  BY <1>1, <1>2 DEF IndexInv
<1>4. id = Used(reclaimed + 1)
  BY <1>2, IndexArithmetic DEF IndexInv, Used
<1>5. id \in inflight /\ id \in Desc /\ data[id] = reclaimed + 1
  <2>1. reclaimed + 1 \in reclaimed + 1 .. taken
    BY <1>2, <1>3
  <2> QED
    BY <1>4, <2>1, Zenon DEF OwnershipInv, TypeOK
<1>6. inflight' = inflight \ {id} /\ free_cnt' = free_cnt + 1
  BY <1>5, Zenon
<1>7. last_used_idx' = Wrap(reclaimed + 1)
  BY <1>2, IndexArithmetic, Zenon DEF IndexInv
<1> HIDE DEF id
<1>8. CreditsExact'
  <2>1. free_cnt \in Int
    BY QueueAssumption DEF TypeOK
  <2>2. txpc' = txpc /\ sent' = sent /\ reclaimed' = reclaimed + 1
    BY Zenon
  <2> QED
    BY <1>2, <1>6, <2>1, <2>2 DEF CreditsExact, Filling, TxHolds
<1>9. TypeOK'
  <2>1. free_cnt' \in 0 .. N
    BY <1>2, <1>3, <1>6, QueueAssumption, SMTT(60) DEF CreditsExact, Filling, TxHolds,
       TypeOK, IndexInv
  <2>2. last_used_idx' \in Index
    BY <1>2, <1>7, IndexTypes
  <2> QED
    BY <1>2, <1>6, <2>1, <2>2, SMTT(60) DEF TypeOK
<1>10. IndexInv'
  BY <1>1, <1>2, <1>3, <1>7 DEF IndexInv, RxHolds
<1>11. OwnershipInv'
  <2>1. \A k \in taken + 1 .. sent : Avail(k) \in inflight' /\ data[Avail(k)] = k
    BY <1>2, <1>3, <1>5, <1>6 DEF OwnershipInv
  <2>2. \A k \in reclaimed + 2 .. taken :
           Used(k) \in inflight' /\ data[Used(k)] = k
    BY <1>2, <1>3, <1>5, <1>6 DEF OwnershipInv
  <2> QED
    BY <1>2, <2>1, <2>2 DEF OwnershipInv, Avail, Used, TxHolds, RxHolds
<1> QED
  BY <1>8, <1>9, <1>10, <1>11, Zenon

\* A refused send changes nothing but the lock.
LEMMA TxFullInv == ASSUME IInv, TxFull PROVE IInv'
<1> USE DEF IInv, TxFull, shm, rxvars, hist
<1>1. TypeOK'
  BY Zenon DEF TypeOK
<1>2. IndexInv'
  BY Zenon DEF IndexInv, RxHolds
<1>3. CreditsExact'
  BY Zenon DEF CreditsExact, Filling, TxHolds
<1>4. OwnershipInv'
  BY Zenon DEF OwnershipInv, Avail, Used, TxHolds, RxHolds
<1> QED
  BY <1>1, <1>2, <1>3, <1>4, Zenon

\* The descriptor filled is not in flight, hence carries no message that is
\* still between fill and reclaim.
LEMMA TxFillInv == ASSUME IInv, TxFill PROVE IInv'
<1> USE DEF IInv, TxFill, rxvars, hist
<1>1. PICK id \in Desc \ inflight :
         /\ inflight' = inflight \cup {id}
         /\ data' = [data EXCEPT ![id] = sent + 1]
         /\ tx_id' = id
  BY Zenon
<1>2. {sent, taken, reclaimed} \subseteq Nat /\ free_cnt \in 0 .. N
  BY Zenon DEF TypeOK
<1>3. TypeOK'
  BY <1>1, <1>2, QueueAssumption DEF TypeOK
<1>4. IndexInv'
  BY Zenon DEF IndexInv, RxHolds
<1>5. CreditsExact'
  BY <1>2, QueueAssumption DEF CreditsExact, Filling, TxHolds
<1>6. OwnershipInv'
  <2>1. \A d \in inflight : d \in inflight' /\ data'[d] = data[d]
    BY <1>1 DEF TypeOK
  <2>2. tx_id' \in inflight' /\ data'[tx_id'] = sent + 1
    BY <1>1 DEF TypeOK
  <2> QED
    BY <1>2, <2>1, <2>2 DEF OwnershipInv, Avail, Used, TxHolds, RxHolds
<1> QED
  BY <1>3, <1>4, <1>5, <1>6, Zenon

\* The slot written is free: the slots of the messages still to be read are
\* less than N counts away.
LEMMA TxRingInv == ASSUME W % N = 0, IInv, TxRing PROVE IInv'
<1> USE DEF IInv, TxRing, rxvars, hist
<1>1. {sent, taken, reclaimed} \subseteq Nat /\ free_cnt \in 0 .. N
  BY Zenon DEF TypeOK
<1>2. avail_ring' = [avail_ring EXCEPT ![Slot(sent)] = tx_id]
  BY <1>1, IndexArithmetic, Zenon DEF IndexInv
<1>3. Slot(sent) \in Desc
  BY <1>1, IndexTypes, Zenon
<1>4. sent < reclaimed + N
  BY <1>1, QueueAssumption DEF CreditsExact, Filling, TxHolds
<1>5. \A k \in taken + 1 .. sent : Avail(k)' = Avail(k)
  <2> SUFFICES ASSUME NEW k \in taken + 1 .. sent PROVE Avail(k)' = Avail(k)
    BY Zenon
  <2>1. k - 1 \in Nat /\ k - 1 < sent /\ sent < (k - 1) + N
    BY <1>1, <1>4, QueueAssumption DEF IndexInv
  <2>2. Slot(k - 1) # Slot(sent)
    BY <1>1, <2>1, SlotsDiffer, Zenon
  <2>3. Slot(k - 1) \in Desc
    BY <2>1, IndexTypes, Zenon
  <2> QED
    BY <1>2, <2>2, <2>3, Zenon DEF Avail, TypeOK
<1>6. TypeOK'
  <2>1. avail_ring' \in [Desc -> Desc]
    BY <1>2, <1>3, ZenonT(60) DEF TypeOK
  <2>2. txpc' \in {"idle", "reclaim", "ring", "publish"}
    BY Zenon
  <2> QED
    BY <2>1, <2>2, Zenon DEF TypeOK
<1>7. IndexInv'
  BY Zenon DEF IndexInv, RxHolds
<1>8. CreditsExact'
  BY Zenon DEF CreditsExact, Filling, TxHolds
<1>9. OwnershipInv'
  <2>1. avail_ring'[Slot(sent)] = tx_id
    BY <1>2, <1>3, Zenon DEF TypeOK
  <2>2. RxHolds => Avail(taken + 1)' = Avail(taken + 1)
    BY <1>1, <1>5 DEF IndexInv
  <2>3. \A k \in taken + 1 .. sent : Avail(k)' \in inflight /\ data[Avail(k)'] = k
    BY <1>5, Zenon DEF OwnershipInv
  <2>4. \A k : Used(k)' = Used(k)
    BY Zenon DEF Used
  <2>5. RxHolds' = RxHolds
    BY Zenon DEF RxHolds
  <2>6. TxHolds' = TxHolds
    BY DEF TxHolds
  <2> QED
    BY <1>1, <2>1, <2>2, <2>3, <2>4, <2>5, <2>6, Zenon DEF OwnershipInv
<1> QED
  BY <1>6, <1>7, <1>8, <1>9, Zenon

\* Publishing makes the filled descriptor message sent + 1.
LEMMA TxPublishInv == ASSUME W % N = 0, IInv, TxPublish PROVE IInv'
<1> USE DEF IInv, TxPublish, rxvars
<1>1. {sent, taken, reclaimed} \subseteq Nat /\ free_cnt \in 0 .. N
  BY Zenon DEF TypeOK
<1>2. avail_idx' = Wrap(sent + 1)
  BY <1>1, IndexArithmetic, Zenon DEF IndexInv
<1>3. TypeOK'
  <2>1. avail_idx' \in Index
    BY <1>1, <1>2, IndexTypes
  <2>2. sent' \in Nat /\ to_notify' \in Nat
    BY <1>1 DEF TypeOK
  <2>3. txpc' \in {"idle", "reclaim", "ring", "publish"}
    BY Zenon
  <2> QED
    BY <2>1, <2>2, <2>3, ZenonT(60) DEF TypeOK
<1>4. IndexInv'
  <2>1. rxpc = "loop" => \E a \in taken .. sent + 1 : rx_avail = Wrap(a)
    BY <1>1 DEF IndexInv
  <2> QED
    BY <1>1, <1>2, <2>1 DEF IndexInv, RxHolds
<1>5. CreditsExact'
  BY <1>1, QueueAssumption DEF CreditsExact, Filling, TxHolds
<1>6. OwnershipInv'
  <2>1. Avail(sent + 1) = tx_id
    BY <1>1 DEF Avail, OwnershipInv
  <2>2. \A k \in taken + 1 .. sent + 1 :
           Avail(k) \in inflight /\ data[Avail(k)] = k
    BY <1>1, <2>1 DEF OwnershipInv, TxHolds
  <2>3. \A k : Avail(k)' = Avail(k) /\ Used(k)' = Used(k)
    BY Zenon DEF Avail, Used
  <2> QED
    BY <1>1, <2>2, <2>3, ZenonT(60) DEF OwnershipInv, TxHolds, RxHolds
<1> QED
  BY <1>3, <1>4, <1>5, <1>6, Zenon

\* Notifications and mkring_recv touch nothing the invariant is about.
LEMMA NotifyRecvInv ==
  ASSUME IInv, Notify \/ NotifyFail \/ Recv
  PROVE  IInv'
<1> USE DEF IInv, Notify, NotifyFail, Recv, shm, txvars, rxvars, hist
<1>1. TypeOK'
  <2>1. to_notify' \in Nat
    BY DEF TypeOK
  <2>2. ipi' \in BOOLEAN
    BY Zenon DEF TypeOK
  <2>3. rx_msgs' \in Seq(Nat)
    <3>1. CASE Recv
      <4>1. rx_msgs \in Seq(Nat) /\ rx_msgs # <<>> /\ rx_msgs' = Tail(rx_msgs)
        BY <3>1, Zenon DEF TypeOK
      <4> QED
        BY <4>1
    <3>2. CASE Notify \/ NotifyFail
      BY <3>2, Zenon DEF TypeOK
    <3> QED
      BY <3>1, <3>2, Zenon
  <2> QED
    BY <2>1, <2>2, <2>3, ZenonT(60) DEF TypeOK
<1>2. IndexInv'
  BY Zenon DEF IndexInv, RxHolds
<1>3. CreditsExact'
  BY Zenon DEF CreditsExact, Filling, TxHolds
<1>4. OwnershipInv'
  BY Zenon DEF OwnershipInv, Avail, Used, TxHolds, RxHolds
<1> QED
  BY <1>1, <1>2, <1>3, <1>4, ZenonT(60)

\* Entering and leaving the receive loop, and sampling avail_idx.
LEMMA RxScanInv == ASSUME IInv, RxIrq \/ RxReload \/ RxExit PROVE IInv'
<1> USE DEF IInv, RxIrq, RxReload, RxExit, shm, txvars, hist
<1>1. sent \in Nat /\ taken \in Nat /\ taken <= sent
  BY Zenon DEF TypeOK, IndexInv
<1>2. TypeOK'
  <2>1. rx_avail' \in Index
    BY Zenon DEF TypeOK
  <2>2. rxpc' \in {"idle", "loop", "copy", "used", "advance", "reload"}
    BY Zenon
  <2>3. ipi' \in BOOLEAN
    BY Zenon DEF TypeOK
  <2> QED
    BY <2>1, <2>2, <2>3, Zenon DEF TypeOK
<1>3. IndexInv'
  <2>1. rxpc' = "loop" => \E a \in taken .. sent : rx_avail' = Wrap(a)
    BY <1>1 DEF IndexInv
  <2> QED
    BY <2>1, Zenon DEF IndexInv, RxHolds
<1>4. CreditsExact'
  BY Zenon DEF CreditsExact, Filling, TxHolds
<1>5. OwnershipInv'
  BY Zenon DEF OwnershipInv, Avail, Used, TxHolds, RxHolds
<1> QED
  BY <1>2, <1>3, <1>4, <1>5, Zenon

\* The id read is the one of message taken + 1.
LEMMA RxReadInv == ASSUME W % N = 0, IInv, RxRead PROVE IInv'
<1> USE DEF IInv, RxRead, shm, txvars, hist
<1>1. sent \in Nat /\ taken \in Nat /\ taken <= sent
  BY Zenon DEF TypeOK, IndexInv
<1>2. taken < sent
  BY <1>1 DEF IndexInv
<1>3. rx_id' = Avail(taken + 1) /\ rx_id' \in Desc
  BY <1>1, IndexArithmetic, IndexTypes, SMTT(60) DEF IndexInv, Avail, TypeOK
<1>4. TypeOK'
  BY <1>3, Zenon DEF TypeOK
<1>5. IndexInv'
  BY <1>2, Zenon DEF IndexInv, RxHolds
<1>6. CreditsExact'
  BY Zenon DEF CreditsExact, Filling, TxHolds
<1>7. OwnershipInv'
  BY <1>3, Zenon DEF OwnershipInv, Avail, Used, TxHolds, RxHolds
<1> QED
  BY <1>4, <1>5, <1>6, <1>7, Zenon

\* Copying the payload only extends the local list.
LEMMA RxCopyInv == ASSUME IInv, RxCopy PROVE IInv'
<1> USE DEF IInv, RxCopy, shm, txvars, hist
<1>1. TypeOK'
  <2>1. rx_msgs \in Seq(Nat) /\ (rx_id \in Desc => data[rx_id] \in Nat)
    BY Zenon DEF TypeOK
  <2>2. rx_msgs' \in Seq(Nat)
    BY <2>1, SMTT(60)
  <2> QED
    BY <2>2, Zenon DEF TypeOK
<1>2. IndexInv'
  BY Zenon DEF IndexInv, RxHolds
<1>3. CreditsExact'
  BY Zenon DEF CreditsExact, Filling, TxHolds
<1>4. OwnershipInv'
  BY Zenon DEF OwnershipInv, Avail, Used, TxHolds, RxHolds
<1> QED
  BY <1>1, <1>2, <1>3, <1>4, Zenon

\* The used slot written is free: the returns not yet reclaimed are less
\* than N counts away.
LEMMA RxUsedInv == ASSUME W % N = 0, IInv, RxUsed PROVE IInv'
<1> USE DEF IInv, RxUsed, txvars, hist
<1>1. {sent, taken, reclaimed} \subseteq Nat /\ free_cnt \in 0 .. N
  BY Zenon DEF TypeOK
<1>2. used_ring' = [used_ring EXCEPT ![Slot(taken)] = rx_id]
  BY <1>1, IndexArithmetic, Zenon DEF IndexInv
<1>3. Slot(taken) \in Desc
  BY <1>1, IndexTypes, Zenon
<1>4. taken < reclaimed + N
  BY <1>1, QueueAssumption DEF CreditsExact, Filling, TxHolds, IndexInv, RxHolds
<1>5. \A k \in reclaimed + 1 .. taken : Used(k)' = Used(k)
  <2> SUFFICES ASSUME NEW k \in reclaimed + 1 .. taken PROVE Used(k)' = Used(k)
    BY Zenon
  <2>1. k - 1 \in Nat /\ k - 1 < taken /\ taken < (k - 1) + N
    BY <1>1, <1>4, QueueAssumption DEF IndexInv
  <2>2. Slot(k - 1) # Slot(taken)
    BY <1>1, <2>1, SlotsDiffer, Zenon
  <2>3. Slot(k - 1) \in Desc
    BY <2>1, IndexTypes, Zenon
  <2> QED
    BY <1>2, <2>2, <2>3, ZenonT(60) DEF Used, TypeOK
<1>6. TypeOK'
  <2>1. used_ring' \in [Desc -> Desc]
    BY <1>2, <1>3, Zenon DEF TypeOK
  <2>2. rxpc' \in {"idle", "loop", "copy", "used", "advance", "reload"}
    BY Zenon
  <2> QED
    BY <2>1, <2>2, Zenon DEF TypeOK
<1>7. IndexInv'
  BY Zenon DEF IndexInv, RxHolds
<1>8. CreditsExact'
  BY Zenon DEF CreditsExact, Filling, TxHolds
<1>9. OwnershipInv'
  <2>1. used_ring'[Slot(taken)] = rx_id
    BY <1>2, <1>3, Zenon DEF TypeOK
  <2>2. \A k \in reclaimed + 1 .. taken : Used(k)' \in inflight /\ data[Used(k)'] = k
    BY <1>5, Zenon DEF OwnershipInv
  <2>3. \A k : Avail(k)' = Avail(k)
    BY Zenon DEF Avail
  <2> QED
    BY <2>1, <2>2, <2>3, ZenonT(60) DEF OwnershipInv, TxHolds, RxHolds
<1> QED
  BY <1>6, <1>7, <1>8, <1>9, Zenon

\* Publishing used_idx hands message taken + 1 from the avail window to the
\* used window.
LEMMA RxAdvanceInv == ASSUME W % N = 0, IInv, RxAdvance PROVE IInv'
<1> USE DEF IInv, RxAdvance, txvars
<1>1. {sent, taken, reclaimed} \subseteq Nat /\ taken < sent
  BY Zenon DEF TypeOK, IndexInv, RxHolds
<1>2. used_idx' = Wrap(taken + 1) /\ last_avail_idx' = Wrap(taken + 1)
  BY <1>1, IndexArithmetic, Zenon DEF IndexInv
<1>3. TypeOK'
  <2>1. used_idx' \in Index /\ last_avail_idx' \in Index
    BY <1>1, <1>2, IndexTypes
  <2>2. taken' \in Nat
    BY <1>1
  <2>3. rxpc' \in {"idle", "loop", "copy", "used", "advance", "reload"}
    BY Zenon
  <2> QED
    BY <2>1, <2>2, <2>3, ZenonT(60) DEF TypeOK
<1>4. IndexInv'
  <2>1. txpc = "reclaim" => \E u \in reclaimed .. taken + 1 : tx_used = Wrap(u)
    BY <1>1 DEF IndexInv
  <2> QED
    BY <1>1, <1>2, <2>1, SMTT(60) DEF IndexInv, RxHolds
<1>5. CreditsExact'
  BY Zenon DEF CreditsExact, Filling, TxHolds
<1>6. OwnershipInv'
  <2>1. Used(taken + 1) = Avail(taken + 1)
    BY <1>1, SMTT(60) DEF Used, OwnershipInv, RxHolds
  <2>2. \A k \in reclaimed + 1 .. taken + 1 :
           Used(k) \in inflight /\ data[Used(k)] = k
    BY <1>1, <2>1 DEF OwnershipInv
  <2>3. \A k : Avail(k)' = Avail(k) /\ Used(k)' = Used(k)
    BY Zenon DEF Avail, Used
  <2> QED
    BY <1>1, <2>2, <2>3, SMTT(60) DEF OwnershipInv, TxHolds, RxHolds
<1> QED
  BY <1>3, <1>4, <1>5, <1>6, Zenon

\* Every step preserves the invariant.
LEMMA NextInv == ASSUME W % N = 0, IInv, [Next]_vars PROVE IInv'
<1>1. CASE UNCHANGED vars
  BY <1>1, SMTT(60) DEF vars, shm, txvars, rxvars, hist, IInv, TypeOK, IndexInv,
     CreditsExact, OwnershipInv, Avail, Used, Filling, TxHolds, RxHolds
<1>2. CASE Next
  BY <1>2, TxLockInv, TxReclaimInv, TxFullInv, TxFillInv, TxRingInv, TxPublishInv,
     NotifyRecvInv, RxScanInv, RxReadInv, RxCopyInv, RxUsedInv, RxAdvanceInv, Zenon
     DEF Next
<1> QED
  BY <1>1, <1>2, ZenonT(60)

\* The inductive invariant holds of the queue: types, the agreement of the
\* u16 indices with the true counts, exact credits and descriptor ownership.
THEOREM QueueInvariant == ASSUME W % N = 0 PROVE Spec => []IInv
<1>1. Init => IInv
  BY InitInv, Zenon
<1>2. IInv /\ [Next]_vars => IInv'
  BY NextInv, Zenon
<1> QED
  BY <1>1, <1>2, PTL DEF Spec

\* Every variable of the queue keeps its type.
THEOREM QueueTypes == ASSUME W % N = 0 PROVE Spec => []TypeOK
<1>1. IInv => TypeOK
  BY Zenon DEF IInv
<1> QED
  BY <1>1, QueueInvariant, PTL

\* mkring_tx_enqueue and mkring_tx_reclaim_locked never leak a descriptor nor
\* hand one out twice.
THEOREM QueueCredits == ASSUME W % N = 0 PROVE Spec => []CreditsExact
<1>1. IInv => CreditsExact
  BY Zenon DEF IInv
<1> QED
  BY <1>1, QueueInvariant, PTL

\* mkring_process_rx_queue copies exactly the next message: first in, first
\* out, no loss, no duplicate and no overwriting, through every index wrap.
THEOREM QueueInOrder == ASSUME W % N = 0 PROVE Spec => []CopiesNextMessage
<1>1. IInv => CopiesNextMessage
  <2> SUFFICES ASSUME IInv, rxpc = "copy"
               PROVE  rx_id \in Desc /\ data[rx_id] = taken + 1
    BY Zenon DEF CopiesNextMessage
  <2>1. taken + 1 \in taken + 1 .. sent
    BY DEF IInv, TypeOK, IndexInv, RxHolds
  <2> QED
    BY <2>1, Zenon DEF IInv, OwnershipInv, RxHolds, TypeOK
<1> QED
  BY <1>1, QueueInvariant, PTL

\* The sender never writes a descriptor the receiver may still read.
THEOREM QueueNoOverwrite == ASSUME W % N = 0 PROVE Spec => NoOverwrite
<1>1. ASSUME IInv, [Next]_vars, NEW k \in taken + 1 .. sent
      PROVE  data'[Avail(k)] = data[Avail(k)]
  <2>1. CASE TxFill
    <3>1. Avail(k) \in inflight
      BY <1>1, Zenon DEF IInv, OwnershipInv
    <3> QED
      BY <1>1, <2>1, <3>1, SMTT(60) DEF TxFill, IInv, TypeOK
  <2>2. CASE ~TxFill
    <3>1. data' = data
      BY <1>1, <2>2, ZenonT(60) DEF Next, vars, shm, TxLock, TxReclaim, TxFull, TxRing,
         TxPublish, Notify, NotifyFail, RxIrq, RxRead, RxCopy, RxUsed, RxAdvance,
         RxReload, RxExit, Recv
    <3> QED
      BY <3>1, Zenon
  <2> QED
    BY <2>1, <2>2, Zenon
<1>2. IInv /\ [Next]_vars
        => [\A k \in taken + 1 .. sent : data'[Avail(k)] = data[Avail(k)]]_vars
  BY <1>1, Zenon
<1> QED
  BY <1>2, QueueInvariant, PTL DEF Spec, NoOverwrite

\* The bitmap: one step keeps free_cnt equal to the number of clear bits.
LEMMA BitmapStep ==
  ASSUME W % N = 0, IInv, BitmapAgrees, [Next]_vars
  PROVE  BitmapAgrees'
<1>1. IsFiniteSet(inflight) /\ Cardinality(inflight) \in Nat
  <2>1. IsFiniteSet(Desc)
    BY QueueAssumption, FS_Interval DEF Desc
  <2>2. inflight \subseteq Desc
    BY Zenon DEF IInv, TypeOK
  <2>3. IsFiniteSet(inflight)
    BY <2>1, <2>2, FS_Subset, Zenon
  <2> QED
    BY <2>3, FS_CardinalityType, Zenon
<1>2. free_cnt = N - Cardinality(inflight) /\ N \in Nat
  BY QueueAssumption, Zenon DEF BitmapAgrees
<1>3. CASE TxReclaim
  <2>1. {sent, taken, reclaimed} \subseteq Nat
    BY Zenon DEF IInv, TypeOK
  <2>2. reclaimed + 1 \in reclaimed + 1 .. taken
    BY <1>3, <2>1 DEF TxReclaim, IInv, IndexInv
  <2>3. used_ring[Slot(last_used_idx)] \in inflight \cap Desc
    <3>1. used_ring[Slot(last_used_idx)] = Used(reclaimed + 1)
      BY <2>1, IndexArithmetic, SMTT(60) DEF IInv, IndexInv, Used
    <3>2. Used(reclaimed + 1) \in inflight /\ inflight \subseteq Desc
      BY <2>2, ZenonT(60) DEF IInv, OwnershipInv, TypeOK
    <3> QED
      BY <3>1, <3>2, Zenon
  <2>4. PICK d \in inflight : inflight' = inflight \ {d}
                              /\ free_cnt' = free_cnt + 1
    BY <1>3, <2>3, Zenon DEF TxReclaim
  <2>5. Cardinality(inflight') = Cardinality(inflight) - 1
    BY <1>1, <2>4, FS_RemoveElement, Zenon
  <2> QED
    BY <1>1, <1>2, <2>4, <2>5 DEF BitmapAgrees
<1>4. CASE TxFill
  <2>1. PICK d \in Desc \ inflight : inflight' = inflight \cup {d}
    BY <1>4, Zenon DEF TxFill
  <2>2. Cardinality(inflight') = Cardinality(inflight) + 1
    BY <1>1, <2>1, FS_AddElement, Zenon
  <2>3. free_cnt' = free_cnt - 1
    BY <1>4, Zenon DEF TxFill
  <2> QED
    BY <1>1, <1>2, <2>2, <2>3 DEF BitmapAgrees
<1>5. CASE ~TxReclaim /\ ~TxFill
  <2>1. inflight' = inflight /\ free_cnt' = free_cnt
    BY <1>5, Zenon DEF Next, vars, shm, txvars, TxLock, TxFull, TxRing, TxPublish,
       Notify, NotifyFail, RxIrq, RxRead, RxCopy, RxUsed, RxAdvance, RxReload, RxExit,
       Recv
  <2> QED
    BY <2>1, Zenon DEF BitmapAgrees
<1> QED
  BY <1>3, <1>4, <1>5, Zenon

\* free_cnt always counts the clear bits of the in-flight bitmap, so the
\* second -EAGAIN of mkring_tx_enqueue is unreachable.
THEOREM QueueBitmap == ASSUME W % N = 0 PROVE Spec => []BitmapAgrees
<1>1. Init => BitmapAgrees
  BY QueueAssumption, FS_EmptySet DEF Init, BitmapAgrees
<1>2. IInv /\ BitmapAgrees /\ [Next]_vars => BitmapAgrees'
  BY BitmapStep, Zenon
<1> QED
  BY <1>1, <1>2, QueueInvariant, PTL DEF Spec

------------------------------------------------------------------------------
(* The queue implements MkringChannel.                                     *)

\* The distance of two wrapped counts, and a sum with a wrapped count.
LEMMA ModDistance ==
  ASSUME NEW x \in Nat, NEW y \in Nat, NEW b \in Nat \ {0}, x <= y, y < x + b
  PROVE  (((y % b) + b) - (x % b)) % b = y - x
<1>1. PICK q \in Nat, r \in 0 .. b - 1 : x = b * q + r /\ x % b = r
  BY DivMod, Zenon
<1>2. PICK p \in Nat, u \in 0 .. b - 1 : y = b * p + u /\ y % b = u
  BY DivMod, Zenon
<1>3. p - q \in Int /\ y - x = b * (p - q) + (u - r)
  BY <1>1, <1>2
<1>4. ~ (p - q >= 2)
  BY <1>1, <1>2, <1>3
<1>5. ~ (p - q <= -1)
  BY <1>1, <1>2, <1>3
<1>6. CASE p - q = 0
  <2>1. y - x = u - r /\ y - x \in 0 .. b - 1
    BY <1>3, <1>6
  <2>2. (b * 1 + (y - x)) % b = y - x
    BY <2>1, ModUnique, Zenon
  <2>3. (u + b) - r = b * 1 + (y - x)
    BY <2>1
  <2> QED
    BY <1>1, <1>2, <2>2, <2>3, Zenon
<1>7. CASE p - q = 1
  <2>1. y - x = (u + b) - r /\ y - x \in 0 .. b - 1
    BY <1>3, <1>7
  <2>2. (b * 0 + (y - x)) % b = y - x
    BY <2>1, ModUnique, Zenon
  <2>3. b * 0 + (y - x) = (u + b) - r
    BY <2>1
  <2> QED
    BY <1>1, <1>2, <2>2, <2>3, Zenon
<1> QED
  BY <1>3, <1>4, <1>5, <1>6, <1>7

\* Adding to a wrapped count and wrapping again wraps the sum.
LEMMA ModSum ==
  ASSUME NEW a \in Nat, NEW c \in Nat, NEW b \in Nat \ {0}
  PROVE  ((a % b) + c) % b = (a + c) % b
<1>1. PICK q \in Nat, r \in 0 .. b - 1 : a = b * q + r /\ a % b = r
  BY DivMod, Zenon
<1>2. PICK p \in Nat, u \in 0 .. b - 1 : r + c = b * p + u
  <2>1. r + c \in Nat
    OBVIOUS
  <2> QED
    BY <2>1, DivMod, ZenonT(60)
<1>3. a + c = b * (q + p) + u
  BY <1>1, <1>2
<1>4. (b * (q + p) + u) % b = u
  BY ModUnique
<1>5. (b * p + u) % b = u
  BY ModUnique, Zenon
<1> QED
  BY <1>1, <1>2, <1>3, <1>4, <1>5, Zenon

\* The messages from b + 1 to s, in order.
Run(b, s) == [i \in 1 .. s - b |-> b + i]

\* Length, head, tail and extension of a run of consecutive message numbers.
LEMMA RunSeq ==
  ASSUME NEW b \in Nat, NEW s \in Nat, b <= s
  PROVE  /\ Run(b, s) \in Seq(Nat)
         /\ Len(Run(b, s)) = s - b
         /\ Append(Run(b, s), s + 1) = Run(b, s + 1)
         /\ b < s => /\ Run(b, s) # <<>>
                     /\ Head(Run(b, s)) = b + 1
                     /\ Tail(Run(b, s)) = Run(b + 1, s)
<1>1. Run(b, s) \in Seq(Nat) /\ Len(Run(b, s)) = s - b
  BY DEF Run
<1>2. Append(Run(b, s), s + 1) = Run(b, s + 1)
  BY <1>1 DEF Run
<1>3. ASSUME b < s
      PROVE  /\ Run(b, s) # <<>>
             /\ Head(Run(b, s)) = b + 1
             /\ Tail(Run(b, s)) = Run(b + 1, s)
  <2>1. Run(b, s) # <<>>
    BY <1>1, <1>3
  <2>2. Head(Run(b, s)) = b + 1
    BY <1>1, <1>3 DEF Run
  <2>3. Tail(Run(b, s)) = Run(b + 1, s)
    <3>1. /\ Tail(Run(b, s)) \in Seq(Nat)
          /\ Len(Tail(Run(b, s))) = (s - b) - 1
          /\ \A i \in 1 .. (s - b) - 1 : Tail(Run(b, s))[i] = Run(b, s)[i + 1]
      BY <1>1, <2>1, HeadTailProperties, Zenon
    <3>2. /\ Run(b + 1, s) \in Seq(Nat)
          /\ Len(Run(b + 1, s)) = (s - b) - 1
      BY <1>3 DEF Run
    <3>3. \A i \in 1 .. (s - b) - 1 : Run(b, s)[i + 1] = Run(b + 1, s)[i]
      BY <1>3 DEF Run
    <3> QED
      BY <3>1, <3>2, <3>3, SeqEqual, Zenon
  <2> QED
    BY <2>1, <2>2, <2>3, Zenon
<1> QED
  BY <1>1, <1>2, <1>3, Zenon

\* Under the invariant the abstract channel holds the messages that are
\* published and not yet copied, in order.
LEMMA ChanIsRun ==
  ASSUME W % N = 0, IInv
  PROVE  /\ ChanBar = Run(taken + Copied, sent)
         /\ taken + Copied \in Nat /\ sent \in Nat
         /\ taken + Copied <= sent
         /\ txpc = "publish" => sent - (taken + Copied) < N
         /\ txpc = "publish" => data[tx_id] = sent + 1
<1>1. {sent, taken, reclaimed} \subseteq Nat /\ free_cnt \in 0 .. N
      /\ N \in Nat \ {0} /\ W \in Nat \ {0} /\ N < W
  BY QueueAssumption DEF IInv, TypeOK
<1>2. Copied \in {0, 1} /\ taken + Copied <= sent
  BY <1>1 DEF Copied, IInv, IndexInv, RxHolds
<1>3. /\ reclaimed <= taken /\ taken <= sent
      /\ sent + Filling <= reclaimed + N
      /\ Filling \in {0, 1}
  BY <1>1 DEF IInv, IndexInv, CreditsExact, Filling
<1>4. ((avail_idx + W) - last_avail_idx) % W = sent - taken
  <2>1. taken <= sent /\ sent < taken + W
    BY <1>1, <1>3
  <2> QED
    BY <1>1, <2>1, ModDistance, ZenonT(60) DEF IInv, IndexInv, Wrap
<1>5. ASSUME NEW i \in 1 .. (sent - taken) - Copied
      PROVE  data[avail_ring[Slot((last_avail_idx + Copied + i - 1) % W)]]
               = (taken + Copied) + i
  <2> DEFINE c == Copied + i - 1
             k == (taken + Copied) + i
  <2>1. c \in Nat /\ k \in taken + 1 .. sent /\ taken + c = k - 1 /\ k - 1 \in Nat
    BY <1>1, <1>2, SMTT(60)
  <2>2. last_avail_idx = taken % W /\ last_avail_idx \in Nat
    BY <1>1 DEF IInv, IndexInv, Wrap
  <2>3. ((taken % W) + c) % W = (taken + c) % W
    BY <1>1, <2>1, ModSum
  <2>4. last_avail_idx + Copied + i - 1 = (taken % W) + c
    BY <1>1, <1>2, <2>2
  <2>5. (last_avail_idx + Copied + i - 1) % W = Wrap(k - 1)
    BY <2>1, <2>3, <2>4, Zenon DEF Wrap
  <2>6. Slot(Wrap(k - 1)) = Slot(k - 1)
    BY <2>1, IndexArithmetic, Zenon
  <2>7. data[avail_ring[Slot(k - 1)]] = k
    BY <2>1, Zenon DEF IInv, OwnershipInv, Avail
  <2> HIDE DEF c
  <2> QED
    BY <2>5, <2>6, <2>7, Zenon
<1>6. ChanBar = Run(taken + Copied, sent)
  <2>1. (sent - taken) - Copied = sent - (taken + Copied)
    BY <1>1, <1>2, SMTT(60)
  <2> QED
    BY <1>4, <1>5, <2>1, Zenon DEF ChanBar, Run
<1>7. ASSUME txpc = "publish"
      PROVE  sent - (taken + Copied) < N /\ data[tx_id] = sent + 1
  BY <1>1, <1>2, <1>3, <1>7, SMTT(60) DEF IInv, OwnershipInv, TxHolds, Filling
<1> QED
  BY <1>1, <1>2, <1>6, <1>7, SMTT(60)

\* The same after a step.
LEMMA ChanIsRunNext ==
  ASSUME W % N = 0
  PROVE  IInv' => (ChanBar = Run(taken + Copied, sent))'
<1>1. IInv => ChanBar = Run(taken + Copied, sent)
  BY ChanIsRun, Zenon
<1> QED
  BY <1>1, PTL

\* A step of the queue is a step of the channel or a stutter.
LEMMA ChannelStep ==
  ASSUME W % N = 0, IInv, IInv', [Next]_vars
  PROVE  [Channel!Next]_(Channel!cvars)
<1> DEFINE b == taken + Copied
<1>1. /\ ChanBar = Run(b, sent) /\ b \in Nat /\ sent \in Nat /\ b <= sent
      /\ txpc = "publish" => sent - b < N
  BY ChanIsRun, Zenon
<1> HIDE DEF b
<1>2. ChanBar' = Run(b', sent')
  BY ChanIsRunNext, Zenon DEF b
<1>3. CASE TxPublish
  <2>1. sent' = sent + 1 /\ b' = b /\ rx_msgs' = rx_msgs
    BY <1>3, Zenon DEF b, TxPublish, Copied, rxvars
  <2>2. /\ Append(Run(b, sent), sent + 1) = Run(b, sent + 1)
        /\ Len(Run(b, sent)) = sent - b
    BY <1>1, RunSeq, Zenon
  <2>3. ChanBar' = Append(ChanBar, sent + 1) /\ Len(ChanBar) < N
    BY <1>1, <1>2, <1>3, <2>1, <2>2, ZenonT(60) DEF TxPublish
  <2> QED
    BY <2>1, <2>3, Zenon DEF Channel!Next, Channel!Send
<1>4. CASE RxCopy
  <2>1. sent' = sent /\ b' = b + 1 /\ b < sent /\ rx_id \in Desc
        /\ data[rx_id] = b + 1
    <3>1. taken \in Nat /\ sent \in Nat /\ taken < sent /\ Copied = 0
      BY <1>4, ZenonT(60) DEF RxCopy, Copied, IInv, TypeOK, IndexInv, RxHolds
    <3>2. Copied' = 1 /\ taken' = taken /\ sent' = sent
      BY <1>4, ZenonT(60) DEF RxCopy, Copied, hist
    <3>3. rx_id \in Desc /\ data[rx_id] = taken + 1
      BY <1>4, <3>1, SMTT(60) DEF RxCopy, IInv, TypeOK, OwnershipInv, RxHolds
    <3> QED
      BY <3>1, <3>2, <3>3 DEF b
  <2>2. ChanBar # <<>> /\ ChanBar' = Tail(ChanBar) /\ Head(ChanBar) = b + 1
    <3>1. /\ Run(b, sent) # <<>>
          /\ Head(Run(b, sent)) = b + 1
          /\ Tail(Run(b, sent)) = Run(b + 1, sent)
      BY <1>1, <2>1, RunSeq, Zenon
    <3> QED
      BY <1>1, <1>2, <2>1, <3>1, Zenon
  <2>3. rx_msgs' \in {Append(rx_msgs, Head(ChanBar)), rx_msgs}
    BY <1>4, <2>1, <2>2, Zenon DEF RxCopy
  <2> QED
    BY <2>1, <2>2, <2>3, Zenon DEF Channel!Next, Channel!Take
<1>5. CASE Recv
  <2>1. sent' = sent /\ b' = b
    BY <1>5, Zenon DEF b, Recv, Copied, hist
  <2>2. ChanBar' = ChanBar
    BY <1>1, <1>2, <2>1, Zenon
  <2> QED
    BY <1>5, <2>1, <2>2, Zenon DEF Recv, Channel!Next, Channel!Recv
<1>6. CASE RxAdvance
  <2>1. sent' = sent /\ rx_msgs' = rx_msgs /\ b' = b
    BY <1>6 DEF b, RxAdvance, Copied, IInv, TypeOK
  <2>2. ChanBar' = ChanBar
    BY <1>1, <1>2, <2>1, Zenon
  <2> QED
    BY <2>1, <2>2, ZenonT(60) DEF Channel!cvars
<1>7. CASE UNCHANGED vars \/ TxLock \/ TxReclaim \/ TxFull \/ TxFill \/ TxRing
           \/ Notify \/ NotifyFail \/ RxIrq \/ RxRead \/ RxUsed \/ RxReload
           \/ RxExit
  <2>1. sent' = sent /\ taken' = taken /\ rx_msgs' = rx_msgs
        /\ Copied' = Copied
    BY <1>7, Zenon DEF vars, shm, txvars, rxvars, hist, Copied, TxLock, TxReclaim,
       TxFull, TxFill, TxRing, Notify, NotifyFail, RxIrq, RxRead, RxUsed, RxReload,
       RxExit
  <2>2. ChanBar' = ChanBar
    BY <1>1, <1>2, <2>1, Zenon DEF b
  <2> QED
    BY <2>1, <2>2, Zenon DEF Channel!cvars
<1> QED
  BY <1>3, <1>4, <1>5, <1>6, <1>7, ZenonT(60) DEF Next

\* mkring_send, the interrupt handler and mkring_recv together behave as one
\* FIFO channel that holds at most desc_num messages.
THEOREM QueueRefinement == ASSUME W % N = 0 PROVE Spec => ImplementsChannel
<1>1. Init => Channel!Init
  <2> SUFFICES ASSUME Init PROVE Channel!Init
    BY Zenon
  <2>1. ChanBar = Run(taken + Copied, sent) /\ Copied = 0
    BY InitInv, ChanIsRun, Zenon DEF Init, Copied
  <2>2. ChanBar = Run(0, 0)
    BY <2>1 DEF Init
  <2>3. Run(0, 0) = <<>>
    BY RunSeq
  <2> QED
    BY <2>2, <2>3, Zenon DEF Init, Channel!Init
<1>2. IInv /\ IInv' /\ [Next]_vars => [Channel!Next]_(Channel!cvars)
  BY ChannelStep, Zenon
<1> QED
  BY <1>1, <1>2, QueueInvariant, PTL DEF Spec, ImplementsChannel, Channel!Spec
==============================================================================
