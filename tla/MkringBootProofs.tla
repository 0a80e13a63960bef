-------------------------- MODULE MkringBootProofs ---------------------------
(***************************************************************************)
(* Proofs about MkringBoot for any set of kernels, any command lines and   *)
(* any contents of the shared memory at boot.                              *)
(***************************************************************************)
EXTENDS MkringBoot, TLAPS

Early   == {"size", "look", "claim", "wipe", "fill", "ready", "wait", "recheck",
            "check"}
Joining == {"bit", "setup", "up"}
Labels  == {"off", "failed"} \cup Early \cup Joining

Results == {"none", "ok", "EINVAL", "EOVERFLOW", "EBUSY", "ENOMEM", "ETIMEDOUT",
            "EAGAIN", "EPROTO"}

Types ==
  /\ pc \in [Kernel -> Labels]
  /\ mk_params \in [Kernel -> Params \cup {None}]
  /\ ret \in [Kernel -> Results]
  /\ avail \in [Queue -> Nat]
  /\ used \in [Queue -> Int]
  /\ last_avail_idx \in [Queue -> Nat]

\* No guest runs before the host's init_mk has returned.
HostFirst == pc[0] \notin {"up", "failed"} => \A k \in Kernel \ {0} : pc[k] = "off"

\* The area the host goes on with is READY and its own.
HostArea ==
  /\ pc[0] = "check" => init_state = "READY"
  /\ pc[0] \in Joining => init_state = "READY" /\ header = HeaderOf(mk_params[0])

\* Beside a host that is up no guest initialises, and those that passed
\* mkring_hdr_compatible agree with the header.
GuestsFollow ==
  pc[0] = "up" =>
    \A k \in Kernel \ {0} :
      /\ pc[k] \notin {"wipe", "fill", "ready", "wait"}
      /\ pc[k] \in Joining => header = HeaderOf(mk_params[k])

\* No receiver is ahead of its queue.
Behindhand ==
  /\ pc[0] \notin {"setup", "up", "failed"} => \A q \in Queue : last_avail_idx[q] = 0
  /\ pc[0] # "failed" => \A q \in Queue : last_avail_idx[q] <= avail[q]

NoGhostBit ==
  pc[0] \notin {"off", "size", "failed"} /\ mk_params[0].force_init = TRUE
    => ready_bitmap \subseteq joined

\* A kernel past the tests of mkring_init has parameters that passed them.
Fitting ==
  \A k \in Kernel :
    /\ pc[k] \notin {"off", "failed"} =>
         /\ mk_params[k] \in Params
         /\ LayoutOk(mk_params[k].desc_num, mk_params[k].msg_size)
    /\ pc[k] \notin {"off", "failed", "size"} => ~Unfit(mk_params[k])

\* The rest of TypeOK: the words and marks, and the private indices.
Words ==
  /\ init_state \in InitState
  /\ ready_bitmap \subseteq Kernel
  /\ joined \subseteq Kernel
  /\ todo \in [Kernel -> SUBSET Kernel]
  /\ ipi \in [Kernel -> BOOLEAN]

Indices ==
  /\ free_cnt \in [Queue -> Nat]
  /\ last_used_idx \in [Queue -> Int]
  /\ leftover \in [Queue -> Int]
  /\ pc[0] # "failed" => \A q \in Queue : used[q] >= 0 /\ last_used_idx[q] >= 0

\* k has set up its queues to and from d.
SetUp(k, d) ==
  /\ pc[k] \in {"setup", "up"}
  /\ d < mk_params[k].kernels
  /\ pc[k] = "setup" => d \notin todo[k]

\* Every kernel past the tests of mkring_init is one of those it counts.
Counted ==
  \A k \in Kernel : pc[k] \notin {"off", "failed"} => k < mk_params[k].kernels

\* The descriptors a sender may use at once if all that came back are its own.
Reclaimed(q) == free_cnt[q] + (used[q] - last_used_idx[q])

\* The descriptors a sender may still use and those its receiver has yet to
\* read or has returned are never more than there are and were forgotten: the
\* receiver's count is included from the moment it has set the queue up.
Fits(q) ==
  /\ last_used_idx[q] <= used[q]
  /\ free_cnt[q] <= mk_params[q[1]].desc_num
  /\ leftover[q] >= 0
  /\ Reclaimed(q) <= mk_params[q[1]].desc_num + leftover[q]
  /\ SetUp(q[2], q[1]) =>
       Reclaimed(q) + (avail[q] - last_avail_idx[q])
         <= mk_params[q[1]].desc_num + leftover[q]

Room ==
  pc[0] \in {"setup", "up"} => \A q \in Queue : SetUp(q[1], q[2]) => Fits(q)

BootInv ==
  /\ Types
  /\ HostFirst
  /\ HostArea
  /\ GuestsFollow
  /\ CompatibleBootSucceeds
  /\ Behindhand
  /\ NoGhostBit
  /\ Fitting
  /\ Words
  /\ Indices
  /\ Counted
  /\ Room

LEMMA InitTypes == Init => Types
  <1> SUFFICES ASSUME Init PROVE Types
    BY Zenon
  <1>1. PICK s \in Stale : avail = [q \in Queue |-> s.idx]
            /\ used = [q \in Queue |-> s.idx]
    BY Zenon DEF Init
  <1>2. s.idx \in Nat
    BY <1>1, StaleAssumption, Zenon
  <1> QED
    BY <1>1, <1>2 DEF Init, Types, Labels, Results, Zero

LEMMA InitBoot == Init => BootInv
  <1> SUFFICES ASSUME Init PROVE BootInv
    BY Zenon
  <1>1. Types
    BY InitTypes, Zenon
  <1>2. \A k \in Kernel : pc[k] = "off"
    BY Zenon DEF Init
  <1>3. \A q \in Queue : last_avail_idx[q] = 0
    BY Zenon DEF Init, Zero
  <1>4. Words
    <2>1. PICK s \in Stale : init_state = s.init_state /\ ready_bitmap = s.ready_bitmap
      BY Zenon DEF Init
    <2>2. s.init_state \in InitState /\ s.ready_bitmap \subseteq Kernel
      BY StaleAssumption, Zenon
    <2> QED
      BY <2>1, <2>2, Zenon DEF Init, Words
  <1>5. Indices
    <2>1. PICK s \in Stale : used = [q \in Queue |-> s.idx]
      BY Zenon DEF Init
    <2>2. s.idx \in Nat
      BY StaleAssumption, Zenon
    <2>3. free_cnt = Zero /\ last_used_idx = Zero /\ leftover = Zero
      BY Zenon DEF Init
    <2> QED
      BY <2>1, <2>2, <2>3 DEF Indices, Zero
  <1>6. Counted /\ Room
    BY <1>2, BootAssumption, Zenon DEF Counted, Room
  <1> QED
    BY <1>1, <1>2, <1>3, <1>4, <1>5, <1>6, BootAssumption DEF BootInv, Types, HostFirst,
       HostArea, GuestsFollow, Joining, CompatibleBootSucceeds, HostUp, Up, Behindhand,
       NoGhostBit, Fitting

\* Types are kept by every step.
LEMMA TypesStep == Types /\ [Next]_vars => Types'
  <1> SUFFICES ASSUME Types, [Next]_vars PROVE Types'
    BY Zenon
  <1> USE DEF Types, Labels, Early, Joining, Results, Goto
  <1>1. ASSUME NEW k \in Kernel, Boot(k) PROVE Types'
    <2>1. PICK line \in Lines[k] :
            /\ mk_params' = [mk_params EXCEPT ![k] = ParseParams(line)]
            /\ UNCHANGED shm
            /\ \/ Goto(k, "size") /\ UNCHANGED ret
               \/ Goto(k, "failed") /\ \E e \in Results : ret' = [ret EXCEPT ![k] = e]
      BY <1>1, Zenon DEF Boot, FailUnmapped
    <2>2. ParseParams(line) \in Params
      BY LinesAssumption, Zenon
    <2> QED
      BY <1>1, <2>1, <2>2 DEF Boot, shm, rings
  <1>2. ASSUME NEW k \in Kernel, Size(k) \/ ClearArea(k) PROVE Types'
    BY <1>2 DEF Size, ClearArea, Fail, Wipe, shm, rings, Zero
  <1>3. ASSUME NEW k \in Kernel,
               Look(k) \/ Claim(k) \/ MarkReady(k)
        PROVE  Types'
    BY <1>3, ZenonT(60) DEF Look, Claim, MarkReady, shm, rings
  <1>4. ASSUME NEW k \in Kernel, Fill(k) PROVE Types'
    BY <1>4 DEF Fill, rings
  <1>5. ASSUME NEW k \in Kernel,
               WaitShmReady(k) \/ Recheck(k) \/ Check(k) \/ SetupFails(k)
        PROVE  Types'
    BY <1>5 DEF WaitShmReady, Recheck, Check, SetupFails, Fail, shm, rings
  <1>6. ASSUME NEW k \in Kernel, SetReadyBit(k) \/ Publish(k) PROVE Types'
    BY <1>6, ZenonT(60) DEF SetReadyBit, Publish, shm, rings
  <1>7. ASSUME NEW k \in Kernel, QueueSetup(k) PROVE Types'
    <2>1. PICK d \in todo[k] :
            last_avail_idx' = [last_avail_idx EXCEPT ![<<d, k>>] = avail[<<d, k>>]]
      BY <1>7, Zenon DEF QueueSetup
    <2>2. last_avail_idx' \in [Queue -> Nat]
      BY <2>1, Zenon
    <2> QED
      BY <1>7, <2>2, Zenon DEF QueueSetup, shm
  <1>8. ASSUME NEW k \in Kernel, Interrupt(k) PROVE Types'
    BY <1>8 DEF Interrupt, local
  <1>9. ASSUME NEW k \in Kernel, Exit(k) \/ StopGuest(k) PROVE Types'
    BY <1>9, Zenon DEF Exit, StopGuest, shm, rings
  <1>10. ASSUME NEW q \in Queue, Send(q[1], q[2]) PROVE Types'
    BY <1>10 DEF Send, local, Queue
  <1>11. CASE UNCHANGED vars
    BY <1>11, Zenon DEF vars, shm, local, rings
  <1> QED
    BY <1>1, <1>2, <1>3, <1>4, <1>5, <1>6, <1>7, <1>8, <1>9, <1>10, <1>11, Zenon
       DEF Next

\* A guest boots only when the host has ended; the host does not boot again.
LEMMA HostFirstStep == Types /\ HostFirst /\ [Next]_vars => HostFirst'
  <1> SUFFICES ASSUME Types, HostFirst, [Next]_vars PROVE HostFirst'
    BY ZenonT(60)
  <1> USE BootAssumption DEF Types, Labels, Early, Joining, Goto, shm, local, rings,
          HostFirst
  <1>1. ASSUME NEW k \in Kernel, Boot(k) PROVE HostFirst'
    BY <1>1 DEF Boot, FailUnmapped
  <1>2. ASSUME NEW k \in Kernel, Size(k) \/ ClearArea(k) PROVE HostFirst'
    BY <1>2 DEF Size, ClearArea, Fail, Wipe
  <1>3. ASSUME NEW k \in Kernel, Look(k) \/ Claim(k) PROVE HostFirst'
    BY <1>3, Zenon DEF Look, Claim
  <1>4. ASSUME NEW k \in Kernel, Fill(k) \/ MarkReady(k) PROVE HostFirst'
    BY <1>4, ZenonT(60) DEF Fill, MarkReady
  <1>5. ASSUME NEW k \in Kernel, WaitShmReady(k) \/ Recheck(k) PROVE HostFirst'
    BY <1>5 DEF WaitShmReady, Recheck, Fail
  <1>6. ASSUME NEW k \in Kernel, Check(k) \/ SetupFails(k) PROVE HostFirst'
    BY <1>6, ZenonT(60) DEF Check, SetupFails, Fail
  <1>7. ASSUME NEW k \in Kernel, SetReadyBit(k) \/ Publish(k) PROVE HostFirst'
    BY <1>7, ZenonT(60) DEF SetReadyBit, Publish
  <1>8. ASSUME NEW k \in Kernel, QueueSetup(k) PROVE HostFirst'
    BY <1>8, Zenon DEF QueueSetup
  <1>9. ASSUME NEW k \in Kernel, Interrupt(k) PROVE HostFirst'
    BY <1>9, Zenon DEF Interrupt
  <1>10. ASSUME NEW k \in Kernel, Exit(k) \/ StopGuest(k) PROVE HostFirst'
    BY <1>10, Zenon DEF Exit, StopGuest
  <1>11. ASSUME NEW q \in Queue, Send(q[1], q[2]) PROVE HostFirst'
    BY <1>11, Zenon DEF Send
  <1>12. CASE UNCHANGED vars
    BY <1>12, Zenon DEF vars
  <1> QED
    BY <1>1, <1>2, <1>3, <1>4, <1>5, <1>6, <1>7, <1>8, <1>9, <1>10, <1>11, <1>12, Zenon
       DEF Next

\* While the host boots nobody else writes the area; afterwards nobody claims it.
LEMMA HostAreaStep == Types /\ HostFirst /\ HostArea /\ GuestsFollow /\ [Next]_vars
    => HostArea'
  <1> SUFFICES ASSUME Types, HostFirst, HostArea, GuestsFollow,
          [Next]_vars PROVE HostArea'
    BY Zenon
  <1> USE BootAssumption DEF Types, Labels, Early, Joining, Goto, shm, local, rings,
          HostFirst, HostArea, GuestsFollow, Compatible
  <1>1. ASSUME NEW k \in Kernel, Boot(k) PROVE HostArea'
    BY <1>1, ZenonT(60) DEF Boot, FailUnmapped
  <1>2. ASSUME NEW k \in Kernel, Size(k) \/ ClearArea(k) PROVE HostArea'
    BY <1>2 DEF Size, ClearArea, Fail, Wipe
  <1>3. ASSUME NEW k \in Kernel, Look(k) \/ Claim(k) PROVE HostArea'
    BY <1>3 DEF Look, Claim
  <1>4. ASSUME NEW k \in Kernel, Fill(k) \/ MarkReady(k) PROVE HostArea'
    BY <1>4, ZenonT(60) DEF Fill, MarkReady
  <1>5. ASSUME NEW k \in Kernel, WaitShmReady(k) \/ Recheck(k) PROVE HostArea'
    BY <1>5 DEF WaitShmReady, Recheck, Fail
  <1>6. ASSUME NEW k \in Kernel, Check(k) \/ SetupFails(k) PROVE HostArea'
    BY <1>6 DEF Check, SetupFails, Fail
  <1>7. ASSUME NEW k \in Kernel, SetReadyBit(k) \/ Publish(k) PROVE HostArea'
    BY <1>7, Zenon DEF SetReadyBit, Publish
  <1>8. ASSUME NEW k \in Kernel, QueueSetup(k) PROVE HostArea'
    BY <1>8, Zenon DEF QueueSetup
  <1>9. ASSUME NEW k \in Kernel, Interrupt(k) PROVE HostArea'
    BY <1>9, Zenon DEF Interrupt
  <1>10. ASSUME NEW k \in Kernel, Exit(k) \/ StopGuest(k) PROVE HostArea'
    BY <1>10, Zenon DEF Exit, StopGuest
  <1>11. ASSUME NEW q \in Queue, Send(q[1], q[2]) PROVE HostArea'
    BY <1>11, Zenon DEF Send
  <1>12. CASE UNCHANGED vars
    BY <1>12, Zenon DEF vars
  <1> QED
    BY <1>1, <1>2, <1>3, <1>4, <1>5, <1>6, <1>7, <1>8, <1>9, <1>10, <1>11, <1>12, Zenon
       DEF Next

\* A guest meets a READY area beside a host that is up.
LEMMA GuestsFollowStep == Types /\ HostFirst /\ HostArea /\ GuestsFollow
    /\ [Next]_vars => GuestsFollow'
  <1> SUFFICES ASSUME Types, HostFirst, HostArea, GuestsFollow,
          [Next]_vars PROVE GuestsFollow'
    BY Zenon
  <1> USE BootAssumption DEF Types, Labels, Early, Joining, Goto, shm, local, rings,
          HostFirst, HostArea, GuestsFollow, Compatible
  <1>1. ASSUME NEW k \in Kernel, Boot(k) PROVE GuestsFollow'
    BY <1>1 DEF Boot, FailUnmapped
  <1>2. ASSUME NEW k \in Kernel, Size(k) \/ ClearArea(k) PROVE GuestsFollow'
    BY <1>2 DEF Size, ClearArea, Fail, Wipe
  <1>3. ASSUME NEW k \in Kernel, Look(k) \/ Claim(k) PROVE GuestsFollow'
    BY <1>3 DEF Look, Claim
  <1>4. ASSUME NEW k \in Kernel, Fill(k) \/ MarkReady(k) PROVE GuestsFollow'
    BY <1>4, Zenon DEF Fill, MarkReady
  <1>5. ASSUME NEW k \in Kernel, WaitShmReady(k) \/ Recheck(k) PROVE GuestsFollow'
    BY <1>5 DEF WaitShmReady, Recheck, Fail
  <1>6. ASSUME NEW k \in Kernel, Check(k) \/ SetupFails(k) PROVE GuestsFollow'
    BY <1>6 DEF Check, SetupFails, Fail
  <1>7. ASSUME NEW k \in Kernel, SetReadyBit(k) \/ Publish(k) PROVE GuestsFollow'
    BY <1>7 DEF SetReadyBit, Publish
  <1>8. ASSUME NEW k \in Kernel, QueueSetup(k) PROVE GuestsFollow'
    BY <1>8, Zenon DEF QueueSetup
  <1>9. ASSUME NEW k \in Kernel, Interrupt(k) PROVE GuestsFollow'
    BY <1>9, Zenon DEF Interrupt
  <1>10. ASSUME NEW k \in Kernel, Exit(k) \/ StopGuest(k) PROVE GuestsFollow'
    BY <1>10, ZenonT(60) DEF Exit, StopGuest
  <1>11. ASSUME NEW q \in Queue, Send(q[1], q[2]) PROVE GuestsFollow'
    BY <1>11, Zenon DEF Send
  <1>12. CASE UNCHANGED vars
    BY <1>12, Zenon DEF vars
  <1> QED
    BY <1>1, <1>2, <1>3, <1>4, <1>5, <1>6, <1>7, <1>8, <1>9, <1>10, <1>11, <1>12, Zenon
       DEF Next

\* A guest fails for one of the listed reasons, and the reason stays.
LEMMA CompatibleStep == Types /\ HostFirst /\ HostArea /\ GuestsFollow
    /\ CompatibleBootSucceeds /\ [Next]_vars => CompatibleBootSucceeds'
  <1> SUFFICES ASSUME Types, HostFirst, HostArea, GuestsFollow, CompatibleBootSucceeds,
          [Next]_vars PROVE CompatibleBootSucceeds'
    BY ZenonT(60)
  <1> USE BootAssumption DEF Types, Labels, Early, Joining, Goto, shm, local, rings,
          HostFirst, HostArea, GuestsFollow, Compatible, CompatibleBootSucceeds, HostUp,
          Up
  <1>1. ASSUME NEW k \in Kernel, Boot(k) PROVE CompatibleBootSucceeds'
    BY <1>1, SMTT(60) DEF Boot, FailUnmapped
  <1>2. ASSUME NEW k \in Kernel, Size(k) \/ ClearArea(k) PROVE CompatibleBootSucceeds'
    BY <1>2 DEF Size, ClearArea, Fail, Wipe
  <1>3. ASSUME NEW k \in Kernel, Look(k) \/ Claim(k) PROVE CompatibleBootSucceeds'
    BY <1>3 DEF Look, Claim
  <1>4. ASSUME NEW k \in Kernel, Fill(k) \/ MarkReady(k) PROVE CompatibleBootSucceeds'
    BY <1>4, ZenonT(60) DEF Fill, MarkReady
  <1>5. ASSUME NEW k \in Kernel,
                   WaitShmReady(k) \/ Recheck(k) PROVE CompatibleBootSucceeds'
    BY <1>5 DEF WaitShmReady, Recheck, Fail
  <1>6. ASSUME NEW k \in Kernel, Check(k) \/ SetupFails(k) PROVE CompatibleBootSucceeds'
    BY <1>6 DEF Check, SetupFails, Fail
  <1>7. ASSUME NEW k \in Kernel,
                   SetReadyBit(k) \/ Publish(k) PROVE CompatibleBootSucceeds'
    BY <1>7 DEF SetReadyBit, Publish
  <1>8. ASSUME NEW k \in Kernel, QueueSetup(k) PROVE CompatibleBootSucceeds'
    BY <1>8, Zenon DEF QueueSetup
  <1>9. ASSUME NEW k \in Kernel, Interrupt(k) PROVE CompatibleBootSucceeds'
    BY <1>9, Zenon DEF Interrupt
  <1>10. ASSUME NEW k \in Kernel, Exit(k) \/ StopGuest(k) PROVE CompatibleBootSucceeds'
    BY <1>10, ZenonT(60) DEF Exit, StopGuest
  <1>11. ASSUME NEW q \in Queue, Send(q[1], q[2]) PROVE CompatibleBootSucceeds'
    BY <1>11, Zenon DEF Send
  <1>12. CASE UNCHANGED vars
    BY <1>12, Zenon DEF vars
  <1> QED
    BY <1>1, <1>2, <1>3, <1>4, <1>5, <1>6, <1>7, <1>8, <1>9, <1>10, <1>11, <1>12,
       ZenonT(60) DEF Next

\* Indices are reset only before the host has read any.
LEMMA BehindhandStep == Types /\ HostFirst /\ GuestsFollow /\ Behindhand
    /\ [Next]_vars => Behindhand'
  <1> SUFFICES ASSUME Types, HostFirst, GuestsFollow, Behindhand,
          [Next]_vars PROVE Behindhand'
    BY Zenon
  <1> USE BootAssumption DEF Types, Labels, Early, Joining, Goto, shm, local, rings,
          HostFirst, GuestsFollow, Behindhand, Zero
  <1>1. ASSUME NEW k \in Kernel, Boot(k) PROVE Behindhand'
    BY <1>1, SMTT(60) DEF Boot, FailUnmapped
  <1>2. ASSUME NEW k \in Kernel, Size(k) \/ ClearArea(k) PROVE Behindhand'
    BY <1>2 DEF Size, ClearArea, Fail, Wipe
  <1>3. ASSUME NEW k \in Kernel, Look(k) \/ Claim(k) PROVE Behindhand'
    BY <1>3, ZenonT(60) DEF Look, Claim
  <1>4. ASSUME NEW k \in Kernel, Fill(k) \/ MarkReady(k) PROVE Behindhand'
    BY <1>4, SMTT(60) DEF Fill, MarkReady
  <1>5. ASSUME NEW k \in Kernel, WaitShmReady(k) \/ Recheck(k) PROVE Behindhand'
    BY <1>5, SMTT(60) DEF WaitShmReady, Recheck, Fail
  <1>6. ASSUME NEW k \in Kernel, Check(k) \/ SetupFails(k) PROVE Behindhand'
    BY <1>6, SMTT(60) DEF Check, SetupFails, Fail
  <1>7. ASSUME NEW k \in Kernel, SetReadyBit(k) \/ Publish(k) PROVE Behindhand'
    BY <1>7, Zenon DEF SetReadyBit, Publish
  <1>8. ASSUME NEW k \in Kernel, QueueSetup(k) PROVE Behindhand'
    BY <1>8, SMTT(60) DEF QueueSetup
  <1>9. ASSUME NEW k \in Kernel, Interrupt(k) PROVE Behindhand'
    BY <1>9 DEF Interrupt
  <1>10. ASSUME NEW k \in Kernel, Exit(k) \/ StopGuest(k) PROVE Behindhand'
    BY <1>10, ZenonT(60) DEF Exit, StopGuest
  <1>11. ASSUME NEW q \in Queue, Send(q[1], q[2]) PROVE Behindhand'
    BY <1>11, SMTT(60) DEF Send
  <1>12. CASE UNCHANGED vars
    BY <1>12, Zenon DEF vars
  <1> QED
    BY <1>1, <1>2, <1>3, <1>4, <1>5, <1>6, <1>7, <1>8, <1>9, <1>10, <1>11, <1>12,
       ZenonT(60) DEF Next

\* The forced reset clears the bits; a bit set afterwards is recorded.
LEMMA NoGhostStep == Types /\ HostFirst /\ GuestsFollow /\ NoGhostBit /\ [Next]_vars
    => NoGhostBit'
  <1> SUFFICES ASSUME Types, HostFirst, GuestsFollow, NoGhostBit,
          [Next]_vars PROVE NoGhostBit'
    BY Zenon
  <1> USE BootAssumption DEF Types, Labels, Early, Joining, Goto, shm, local, rings,
          HostFirst, GuestsFollow, NoGhostBit
  <1>1. ASSUME NEW k \in Kernel, Boot(k) PROVE NoGhostBit'
    BY <1>1 DEF Boot, FailUnmapped
  <1>2. ASSUME NEW k \in Kernel, Size(k) \/ ClearArea(k) PROVE NoGhostBit'
    BY <1>2 DEF Size, ClearArea, Fail, Wipe
  <1>3. ASSUME NEW k \in Kernel, Look(k) \/ Claim(k) PROVE NoGhostBit'
    BY <1>3, Zenon DEF Look, Claim
  <1>4. ASSUME NEW k \in Kernel, Fill(k) \/ MarkReady(k) PROVE NoGhostBit'
    BY <1>4, ZenonT(60) DEF Fill, MarkReady
  <1>5. ASSUME NEW k \in Kernel, WaitShmReady(k) \/ Recheck(k) PROVE NoGhostBit'
    BY <1>5, ZenonT(60) DEF WaitShmReady, Recheck, Fail
  <1>6. ASSUME NEW k \in Kernel, Check(k) \/ SetupFails(k) PROVE NoGhostBit'
    BY <1>6, Zenon DEF Check, SetupFails, Fail
  <1>7. ASSUME NEW k \in Kernel, SetReadyBit(k) \/ Publish(k) PROVE NoGhostBit'
    BY <1>7, Zenon DEF SetReadyBit, Publish
  <1>8. ASSUME NEW k \in Kernel, QueueSetup(k) PROVE NoGhostBit'
    BY <1>8, Zenon DEF QueueSetup
  <1>9. ASSUME NEW k \in Kernel, Interrupt(k) PROVE NoGhostBit'
    BY <1>9, Zenon DEF Interrupt
  <1>10. ASSUME NEW k \in Kernel, Exit(k) \/ StopGuest(k) PROVE NoGhostBit'
    BY <1>10, Zenon DEF Exit, StopGuest
  <1>11. ASSUME NEW q \in Queue, Send(q[1], q[2]) PROVE NoGhostBit'
    BY <1>11, Zenon DEF Send
  <1>12. CASE UNCHANGED vars
    BY <1>12, Zenon DEF vars
  <1> QED
    BY <1>1, <1>2, <1>3, <1>4, <1>5, <1>6, <1>7, <1>8, <1>9, <1>10, <1>11, <1>12, Zenon
       DEF Next

\* Parameters are tested before pc moves on and stay until the next boot.
LEMMA FittingStep == Types /\ Fitting /\ [Next]_vars => Fitting'
  <1> SUFFICES ASSUME Types, Fitting, [Next]_vars PROVE Fitting'
    BY Zenon
  <1> USE LinesAssumption DEF Types, Labels, Early, Joining, Goto, shm, local, rings,
          Fitting
  <1>1. ASSUME NEW k \in Kernel, Boot(k) PROVE Fitting'
    BY <1>1, SMTT(60) DEF Boot, FailUnmapped
  <1>2. ASSUME NEW k \in Kernel, Size(k) \/ ClearArea(k) PROVE Fitting'
    BY <1>2, Zenon DEF Size, ClearArea, Fail, Wipe
  <1>3. ASSUME NEW k \in Kernel, Look(k) \/ Claim(k) PROVE Fitting'
    BY <1>3, Zenon DEF Look, Claim
  <1>4. ASSUME NEW k \in Kernel, Fill(k) \/ MarkReady(k) PROVE Fitting'
    BY <1>4, Zenon DEF Fill, MarkReady
  <1>5. ASSUME NEW k \in Kernel, WaitShmReady(k) \/ Recheck(k) PROVE Fitting'
    BY <1>5, Zenon DEF WaitShmReady, Recheck, Fail
  <1>6. ASSUME NEW k \in Kernel, Check(k) \/ SetupFails(k) PROVE Fitting'
    BY <1>6, Zenon DEF Check, SetupFails, Fail
  <1>7. ASSUME NEW k \in Kernel, SetReadyBit(k) \/ Publish(k) PROVE Fitting'
    BY <1>7, Zenon DEF SetReadyBit, Publish
  <1>8. ASSUME NEW k \in Kernel, QueueSetup(k) PROVE Fitting'
    BY <1>8, Zenon DEF QueueSetup
  <1>9. ASSUME NEW k \in Kernel, Interrupt(k) PROVE Fitting'
    BY <1>9, Zenon DEF Interrupt
  <1>10. ASSUME NEW k \in Kernel, Exit(k) \/ StopGuest(k) PROVE Fitting'
    BY <1>10, Zenon DEF Exit, StopGuest
  <1>11. ASSUME NEW q \in Queue, Send(q[1], q[2]) PROVE Fitting'
    BY <1>11, Zenon DEF Send
  <1>12. CASE UNCHANGED vars
    BY <1>12, Zenon DEF vars
  <1> QED
    BY <1>1, <1>2, <1>3, <1>4, <1>5, <1>6, <1>7, <1>8, <1>9, <1>10, <1>11, <1>12,
       ZenonT(60) DEF Next

\* The words and marks of the rest have their types.
LEMMA WordsStep == Types /\ Words /\ [Next]_vars => Words'
  <1> SUFFICES ASSUME Types, Words, [Next]_vars PROVE Words'
    BY Zenon
  <1> USE BootAssumption DEF shm, local, rings, Words, InitState
  <1>1. ASSUME NEW k \in Kernel, Boot(k) PROVE Words'
    BY <1>1, Zenon DEF Boot, FailUnmapped
  <1>2. ASSUME NEW k \in Kernel, Size(k) \/ ClearArea(k) PROVE Words'
    BY <1>2, Zenon DEF Size, ClearArea, Fail, Wipe, Zero
  <1>3. ASSUME NEW k \in Kernel, Look(k) \/ Claim(k) PROVE Words'
    BY <1>3, Zenon DEF Look, Claim
  <1>4. ASSUME NEW k \in Kernel, Fill(k) \/ MarkReady(k) PROVE Words'
    BY <1>4, Zenon DEF Fill, MarkReady
  <1>5. ASSUME NEW k \in Kernel, WaitShmReady(k) \/ Recheck(k) PROVE Words'
    BY <1>5, Zenon DEF WaitShmReady, Recheck, Fail
  <1>6. ASSUME NEW k \in Kernel, Check(k) \/ SetupFails(k) PROVE Words'
    BY <1>6, Zenon DEF Check, SetupFails, Fail
  <1>7. ASSUME NEW k \in Kernel, SetReadyBit(k) \/ Publish(k) PROVE Words'
    BY <1>7, Zenon DEF SetReadyBit, Publish
  <1>8. ASSUME NEW k \in Kernel, QueueSetup(k) PROVE Words'
    <2>1. todo' \in [Kernel -> SUBSET Kernel]
      <3>1. PICK d : todo' = [todo EXCEPT ![k] = @ \ {d}]
        BY <1>8, Zenon DEF QueueSetup
      <3>2. todo[k] \ {d} \subseteq Kernel
        BY Zenon
      <3> QED
        BY <3>1, <3>2, Zenon
    <2> QED
      BY <1>8, <2>1, Zenon DEF QueueSetup
  <1>9. ASSUME NEW k \in Kernel, Interrupt(k) PROVE Words'
    BY <1>9, Zenon DEF Interrupt
  <1>10. ASSUME NEW k \in Kernel, Exit(k) \/ StopGuest(k) PROVE Words'
    BY <1>10, Zenon DEF Exit, StopGuest
  <1>11. ASSUME NEW q \in Queue, Send(q[1], q[2]) PROVE Words'
    BY <1>11, Zenon DEF Send
  <1>12. CASE UNCHANGED vars
    BY <1>12, Zenon DEF vars
  <1> QED
    BY <1>1, <1>2, <1>3, <1>4, <1>5, <1>6, <1>7, <1>8, <1>9, <1>10, <1>11, <1>12, Zenon
       DEF Next

\* free_cnt is taken only where a descriptor is free, and the indices stay
\* above zero while the host has not failed.
LEMMA IndicesStep == Types /\ HostFirst /\ Behindhand /\ Fitting /\ Words /\ Indices
    /\ [Next]_vars => Indices'
  <1> SUFFICES ASSUME Types, HostFirst, Behindhand, Fitting, Words, Indices,
          [Next]_vars PROVE Indices'
    BY Zenon
  <1> USE BootAssumption DEF Types, Labels, Early, Joining, Goto, shm, local, rings,
          Indices
  <1>1. ASSUME NEW k \in Kernel, Boot(k) PROVE Indices'
    BY <1>1, Zenon DEF Boot, FailUnmapped
  <1>2. ASSUME NEW k \in Kernel, Size(k) \/ ClearArea(k) PROVE Indices'
    BY <1>2 DEF Size, ClearArea, Fail, Wipe, Zero
  <1>3. ASSUME NEW k \in Kernel, Look(k) \/ Claim(k) PROVE Indices'
    BY <1>3, Zenon DEF Look, Claim
  <1>4. ASSUME NEW k \in Kernel, Fill(k) \/ MarkReady(k) PROVE Indices'
    BY <1>4 DEF Fill, MarkReady
  <1>5. ASSUME NEW k \in Kernel, WaitShmReady(k) \/ Recheck(k) PROVE Indices'
    BY <1>5, Zenon DEF WaitShmReady, Recheck, Fail
  <1>6. ASSUME NEW k \in Kernel, Check(k) \/ SetupFails(k) PROVE Indices'
    BY <1>6, Zenon DEF Check, SetupFails, Fail
  <1>7. ASSUME NEW k \in Kernel, SetReadyBit(k) \/ Publish(k) PROVE Indices'
    BY <1>7, Zenon DEF SetReadyBit, Publish
  <1>8. ASSUME NEW k \in Kernel, QueueSetup(k) PROVE Indices'
    <2>1. PICK d \in todo[k] :
            /\ free_cnt' = [free_cnt EXCEPT ![<<k, d>>] = mk_params[k].desc_num]
            /\ last_used_idx' = [last_used_idx EXCEPT ![<<k, d>>] = used[<<k, d>>]]
            /\ Forget(k, d)
      BY <1>8, Zenon DEF QueueSetup
    <2>2. mk_params[k].desc_num \in Nat
      BY <1>8, Zenon DEF Fitting, Params, QueueSetup
    <2>3. leftover' \in [Queue -> Int]
      <3>1. PICK u, v :
              /\ leftover' = [leftover EXCEPT ![<<k, d>>] = u, ![<<d, k>>] = v]
              /\ u = avail[<<k, d>>] - last_avail_idx[<<k, d>>]
              /\ v \in {leftover[<<d, k>>], used[<<d, k>>] - last_used_idx[<<d, k>>]}
        BY <2>1, Zenon DEF Forget
      <3>2. /\ <<k, d>> \in Queue => u \in Int
            /\ <<d, k>> \in Queue => v \in Int
        BY <3>1
      <3> QED
        BY <3>1, <3>2, Zenon
    <2> QED
      BY <1>8, <2>1, <2>2, <2>3, Zenon DEF QueueSetup
  <1>9. ASSUME NEW k \in Kernel, Interrupt(k) PROVE Indices'
    BY <1>9 DEF Interrupt, Behindhand, HostFirst
  <1>10. ASSUME NEW k \in Kernel, Exit(k) \/ StopGuest(k) PROVE Indices'
    BY <1>10, Zenon DEF Exit, StopGuest
  <1>11. ASSUME NEW q \in Queue, Send(q[1], q[2]) PROVE Indices'
    <2>1. PICK n \in Reclaims(<<q[1], q[2]>>) :
            /\ free_cnt[<<q[1], q[2]>>] + n > 0
            /\ free_cnt' = [free_cnt EXCEPT ![<<q[1], q[2]>>] = @ + n - 1]
      BY <1>11, Zenon DEF Send
    <2>2. n \in Int
      BY <2>1, SMT DEF Reclaims
    <2>3. free_cnt' \in [Queue -> Nat]
      BY <2>1, <2>2 DEF Queue
    <2>4. /\ UNCHANGED <<pc, used, leftover>>
          /\ last_used_idx' = [last_used_idx EXCEPT ![<<q[1], q[2]>>] = used[<<q[1], q[2]>>]]
      BY <1>11, Zenon DEF Send
    <2> QED
      BY <2>3, <2>4 DEF Queue
  <1>12. CASE UNCHANGED vars
    BY <1>12, Zenon DEF vars
  <1> QED
    BY <1>1, <1>2, <1>3, <1>4, <1>5, <1>6, <1>7, <1>8, <1>9, <1>10, <1>11, <1>12, Zenon
       DEF Next

\* mkring_init refuses an id that is not below mkkernels.
LEMMA CountedStep == Types /\ Counted /\ [Next]_vars => Counted'
  <1> SUFFICES ASSUME Types, Counted, [Next]_vars PROVE Counted'
    BY Zenon
  <1> USE BootAssumption DEF Labels, Early, Joining, Goto, shm, local, rings, Types,
          Counted, ParamsOk
  <1>1. ASSUME NEW k \in Kernel, Boot(k) PROVE Counted'
    BY <1>1, IdsAssumption DEF Boot, FailUnmapped
  <1>2. ASSUME NEW k \in Kernel, Size(k) \/ ClearArea(k) PROVE Counted'
    BY <1>2, Zenon DEF Size, ClearArea, Fail, Wipe, Zero
  <1>3. ASSUME NEW k \in Kernel, Look(k) \/ Claim(k) PROVE Counted'
    BY <1>3, Zenon DEF Look, Claim
  <1>4. ASSUME NEW k \in Kernel, Fill(k) \/ MarkReady(k) PROVE Counted'
    BY <1>4, Zenon DEF Fill, MarkReady
  <1>5. ASSUME NEW k \in Kernel, WaitShmReady(k) \/ Recheck(k) PROVE Counted'
    BY <1>5, Zenon DEF WaitShmReady, Recheck, Fail
  <1>6. ASSUME NEW k \in Kernel, Check(k) \/ SetupFails(k) PROVE Counted'
    BY <1>6, Zenon DEF Check, SetupFails, Fail
  <1>7. ASSUME NEW k \in Kernel, SetReadyBit(k) \/ Publish(k) PROVE Counted'
    BY <1>7, Zenon DEF SetReadyBit, Publish
  <1>8. ASSUME NEW k \in Kernel, QueueSetup(k) PROVE Counted'
    BY <1>8, Zenon DEF QueueSetup
  <1>9. ASSUME NEW k \in Kernel, Interrupt(k) PROVE Counted'
    BY <1>9, Zenon DEF Interrupt
  <1>10. ASSUME NEW k \in Kernel, Exit(k) \/ StopGuest(k) PROVE Counted'
    BY <1>10, Zenon DEF Exit, StopGuest
  <1>11. ASSUME NEW q \in Queue, Send(q[1], q[2]) PROVE Counted'
    BY <1>11, Zenon DEF Send
  <1>12. CASE UNCHANGED vars
    BY <1>12, Zenon DEF vars
  <1> QED
    BY <1>1, <1>2, <1>3, <1>4, <1>5, <1>6, <1>7, <1>8, <1>9, <1>10, <1>11, <1>12, Zenon
       DEF Next

\* A step that sets up no queue.
SetUpKept ==
  \A k, d \in Kernel : pc'[0] \in {"setup", "up"} /\ k # d /\ SetUp(k, d)' =>
    /\ SetUp(k, d) /\ pc[0] \in {"setup", "up"}
    /\ mk_params'[k] = mk_params[k]

LEMMA RoomKept ==
  ASSUME Types, Indices, Room, UNCHANGED <<avail, used, rings>>, SetUpKept
  PROVE  Room'
  BY ZenonT(60) DEF SetUpKept, Room, Fits, Queue, Reclaimed, rings

\* A descriptor is taken when a message is sent, and is free again when its
\* message was read and returned.
LEMMA RoomStep ==
  Types /\ Words /\ Indices /\ Fitting /\ HostFirst /\ GuestsFollow /\ Behindhand
      /\ Room /\ [Next]_vars
    => Room'
  <1> SUFFICES ASSUME Types, Words, Indices, Fitting, HostFirst, GuestsFollow,
                      Behindhand, Room, [Next]_vars
               PROVE  Room'
    BY Zenon
  <1> USE BootAssumption DEF Types, Labels, Early, Joining, Goto, shm, local, rings,
          HostFirst, GuestsFollow
  <1>1. ASSUME NEW k \in Kernel, Boot(k) PROVE Room'
    <2>1. SetUpKept
      BY <1>1 DEF Boot, FailUnmapped, SetUpKept, SetUp
    <2> QED
      BY <1>1, <2>1, RoomKept, Zenon DEF Boot, FailUnmapped
  <1>2. ASSUME NEW k \in Kernel, Size(k) \/ ClearArea(k) PROVE Room'
    <2>1. CASE UNCHANGED <<avail, used, rings>>
      <3>1. SetUpKept
        BY <1>2, SMTT(60) DEF Size, ClearArea, Fail, SetUpKept, SetUp
      <3> QED
        BY <2>1, <3>1, RoomKept, ZenonT(60)
    <2>2. CASE ~UNCHANGED <<avail, used, rings>>
      BY <1>2, <2>2 DEF Size, ClearArea, Fail, Room
    <2> QED
      BY <2>1, <2>2, Zenon
  <1>3. ASSUME NEW k \in Kernel, Look(k) \/ Claim(k) PROVE Room'
    <2>1. SetUpKept
      BY <1>3, SMTT(60) DEF Look, Claim, SetUpKept, SetUp
    <2> QED
      BY <1>3, <2>1, RoomKept, Zenon DEF Look, Claim
  <1>4. ASSUME NEW k \in Kernel, Fill(k) \/ MarkReady(k) PROVE Room'
    BY <1>4, ZenonT(60) DEF Fill, MarkReady, Room
  <1>5. ASSUME NEW k \in Kernel, WaitShmReady(k) \/ Recheck(k) PROVE Room'
    <2>1. SetUpKept
      BY <1>5, SMTT(60) DEF WaitShmReady, Recheck, Fail, SetUpKept, SetUp
    <2> QED
      BY <1>5, <2>1, RoomKept, ZenonT(60) DEF WaitShmReady, Recheck, Fail
  <1>6. ASSUME NEW k \in Kernel, Check(k) \/ SetupFails(k) PROVE Room'
    <2>1. SetUpKept
      BY <1>6 DEF Check, SetupFails, Fail, SetUpKept, SetUp
    <2> QED
      BY <1>6, <2>1, RoomKept, Zenon DEF Check, SetupFails, Fail
  <1>7. ASSUME NEW k \in Kernel, SetReadyBit(k) \/ Publish(k) PROVE Room'
    <2>1. SetUpKept
      <3>1. CASE SetReadyBit(k)
        <4>1. pc'[k] = "setup" /\ \A d \in Kernel \ {k} : d < mk_params[k].kernels
                  => d \in todo'[k]
          BY <3>1, Zenon DEF SetReadyBit, Words
        <4>2. \A j \in Kernel \ {k} : pc'[j] = pc[j] /\ todo'[j] = todo[j]
          BY <3>1, Zenon DEF SetReadyBit, Words
        <4>3. UNCHANGED mk_params /\ pc[k] = "bit"
          BY <3>1, Zenon DEF SetReadyBit
        <4> QED
          BY <4>1, <4>2, <4>3 DEF SetUpKept, SetUp
      <3>2. CASE Publish(k)
        BY <3>2, Zenon DEF Publish, SetUpKept, SetUp
      <3> QED
        BY <1>7, <3>1, <3>2, ZenonT(60)
    <2> QED
      BY <1>7, <2>1, RoomKept, Zenon DEF SetReadyBit, Publish
  <1>8. ASSUME NEW k \in Kernel, QueueSetup(k) PROVE Room'
    <2>1. PICK d \in todo[k] :
            /\ free_cnt' = [free_cnt EXCEPT ![<<k, d>>] = mk_params[k].desc_num]
            /\ last_used_idx' = [last_used_idx EXCEPT ![<<k, d>>] = used[<<k, d>>]]
            /\ last_avail_idx' = [last_avail_idx EXCEPT ![<<d, k>>] = avail[<<d, k>>]]
            /\ Forget(k, d)
            /\ todo' = [todo EXCEPT ![k] = @ \ {d}]
      BY <1>8, Zenon DEF QueueSetup
    <2>2. pc[k] = "setup" /\ UNCHANGED <<pc, mk_params, avail, used>>
      BY <1>8, Zenon DEF QueueSetup
    <2>3. \A j, e \in Kernel : SetUp(j, e)' => SetUp(j, e) \/ (j = k /\ e = d)
      BY <2>1, <2>2, ZenonT(60) DEF SetUp, Words
    <2> SUFFICES ASSUME pc[0] \in {"setup", "up"}, NEW q \in Queue, SetUp(q[1], q[2])'
                 PROVE  Fits(q)'
      BY <2>2, Zenon DEF Room
    <2>4. CASE q = <<k, d>>
      <3>1. last_used_idx'[q] = used[q] /\ free_cnt'[q] = mk_params[k].desc_num
        BY <2>1, <2>4, Zenon DEF Indices
      <3>2. last_avail_idx'[q] = last_avail_idx[q] /\ q[1] = k
        BY <2>1, <2>4, Zenon DEF Queue
      <3>3. leftover'[q] = avail[q] - last_avail_idx[q]
        BY <2>1, <2>4, SMTT(30) DEF Forget, Indices, Queue
      <3>4. mk_params[k].desc_num \in Nat /\ last_avail_idx[q] <= avail[q]
        BY <2>2, Zenon DEF Fitting, Params, Behindhand
      <3>5. used[q] \in Int /\ avail[q] \in Nat /\ last_avail_idx[q] \in Nat
        BY Zenon
      <3> HIDE DEF Types
      <3> QED
        BY <2>2, <3>1, <3>2, <3>3, <3>4, <3>5 DEF Reclaimed, Fits
    <2>5. CASE q = <<d, k>>
      <3>1. SetUp(d, k) /\ Fits(q) /\ q[1] = d
        BY <2>3, <2>5, Zenon DEF Room, Queue
      <3>2. last_avail_idx'[q] = avail[q]
        BY <2>1, <2>5, Zenon
      <3>3. last_used_idx'[q] = last_used_idx[q] /\ free_cnt'[q] = free_cnt[q]
        BY <2>1, <2>5, ZenonT(60) DEF Indices, Queue
      <3>4. /\ leftover'[q] \in {leftover[q], used[q] - last_used_idx[q]}
            /\ leftover'[q] <= leftover[q]
        BY <2>1, <2>5, SMTT(30) DEF Forget, Indices, Queue
      <3>5. /\ used[q] \in Int /\ avail[q] \in Nat /\ last_used_idx[q] \in Int
            /\ free_cnt[q] \in Nat /\ leftover[q] \in Int
        BY Zenon DEF Indices
      <3>6. mk_params[d].desc_num \in Nat
        BY <2>5, <3>1, Zenon DEF SetUp, Fitting, Params, Queue
      <3> HIDE DEF Types
      <3>7. /\ last_used_idx[q] <= used[q] /\ free_cnt[q] <= mk_params[d].desc_num
            /\ leftover[q] >= 0
            /\ free_cnt[q] + (used[q] - last_used_idx[q])
                 <= mk_params[d].desc_num + leftover[q]
        BY <3>1, Zenon DEF Reclaimed, Fits
      <3>8. /\ leftover'[q] >= 0
            /\ free_cnt[q] + (used[q] - last_used_idx[q])
                 <= mk_params[d].desc_num + leftover'[q]
            /\ free_cnt[q] + (used[q] - last_used_idx[q]) + (avail[q] - avail[q])
                 <= mk_params[d].desc_num + leftover'[q]
        BY <3>4, <3>5, <3>6, <3>7
      <3> QED
        BY <2>2, <3>1, <3>2, <3>3, <3>7, <3>8, Zenon DEF Reclaimed, Fits
    <2>6. CASE q # <<k, d>> /\ q # <<d, k>>
      <3>1. /\ last_used_idx'[q] = last_used_idx[q] /\ free_cnt'[q] = free_cnt[q]
            /\ last_avail_idx'[q] = last_avail_idx[q] /\ leftover'[q] = leftover[q]
        BY <2>1, <2>6, ZenonT(60) DEF Indices, Forget
      <3>2. /\ q[1] \in Kernel /\ q[2] \in Kernel
            /\ ~(q[1] = k /\ q[2] = d) /\ ~(q[2] = k /\ q[1] = d)
        BY <2>6 DEF Queue
      <3>3. SetUp(q[1], q[2]) /\ (SetUp(q[2], q[1])' => SetUp(q[2], q[1]))
        BY <2>3, <3>2, ZenonT(60)
      <3> QED
        BY <2>2, <3>1, <3>3, Zenon DEF Room, Fits, Reclaimed
    <2> QED
      BY <2>4, <2>5, <2>6, Zenon
  <1>9. ASSUME NEW k \in Kernel, Interrupt(k) PROVE Room'
    <2> SUFFICES ASSUME pc[0] \in {"setup", "up"}, NEW q \in Queue, SetUp(q[1], q[2])
                 PROVE  Fits(q)'
      BY <1>9, Zenon DEF Interrupt, Room, SetUp
    <2>1. Fits(q)
      BY Zenon DEF Room
    <2>2. mk_params[q[1]].desc_num \in Nat /\ last_avail_idx[q] <= avail[q]
      BY Zenon DEF SetUp, Fitting, Params, Queue, Behindhand
    <2>3. /\ UNCHANGED <<free_cnt, last_used_idx, avail, leftover, pc, mk_params, todo>>
          /\ \/ used'[q] = used[q] /\ last_avail_idx'[q] = last_avail_idx[q]
             \/ /\ pc[q[2]] = "up" /\ q[1] < mk_params[q[2]].kernels
                /\ used'[q] = used[q] + (avail[q] - last_avail_idx[q])
                /\ last_avail_idx'[q] = avail[q]
      BY <1>9, Zenon DEF Interrupt
    <2>4. CASE used'[q] = used[q] /\ last_avail_idx'[q] = last_avail_idx[q]
      BY <2>1, <2>3, <2>4, Zenon DEF Reclaimed, Fits, SetUp
    <2>5. CASE /\ pc[q[2]] = "up" /\ q[1] < mk_params[q[2]].kernels
               /\ used'[q] = used[q] + (avail[q] - last_avail_idx[q])
               /\ last_avail_idx'[q] = avail[q]
      <3>1. SetUp(q[2], q[1])
        BY <2>5, Zenon DEF SetUp
      <3>2. /\ used[q] \in Int /\ avail[q] \in Nat /\ last_used_idx[q] \in Int
            /\ free_cnt[q] \in Nat /\ leftover[q] \in Int /\ last_avail_idx[q] \in Nat
        BY Zenon DEF Indices
      <3> HIDE DEF Types
      <3> QED
        BY <2>1, <2>2, <2>3, <2>5, <3>1, <3>2 DEF Reclaimed, Fits
    <2> QED
      BY <2>3, <2>4, <2>5, Zenon
  <1>10. ASSUME NEW k \in Kernel, Exit(k) \/ StopGuest(k) PROVE Room'
    <2>1. SetUpKept
      BY <1>10, ZenonT(60) DEF Exit, StopGuest, SetUpKept, SetUp
    <2> QED
      BY <1>10, <2>1, RoomKept, Zenon DEF Exit, StopGuest
  <1>11. ASSUME NEW q \in Queue, Send(q[1], q[2]) PROVE Room'
    <2>1. /\ pc[q[1]] = "up" /\ q[2] < mk_params[q[1]].kernels
          /\ UNCHANGED <<local, used, last_avail_idx, leftover>>
      BY <1>11, Zenon DEF Send
    <2>2. q = <<q[1], q[2]>>
      BY DEF Queue
    <2>3. PICK n \in Reclaims(q) :
            /\ free_cnt[q] + n > 0
            /\ free_cnt' = [free_cnt EXCEPT ![q] = free_cnt[q] + n - 1]
            /\ last_used_idx' = [last_used_idx EXCEPT ![q] = used[q]]
            /\ avail' = [avail EXCEPT ![q] = avail[q] + 1]
      BY <1>11, <2>2, Zenon DEF Send
    <2>4. \A j, e \in Kernel : SetUp(j, e)' <=> SetUp(j, e)
      BY <2>1, Zenon DEF SetUp
    <2> SUFFICES ASSUME pc[0] \in {"setup", "up"}, NEW r \in Queue, SetUp(r[1], r[2])
                 PROVE  Fits(r)'
      BY <2>1, <2>4, Zenon DEF Room, Queue
    <2>5. Fits(r) /\ (SetUp(r[2], r[1])' <=> SetUp(r[2], r[1]))
      BY <2>4, Zenon DEF Room, Queue
    <2>6. mk_params[r[1]].desc_num \in Nat
      BY Zenon DEF SetUp, Fitting, Params, Queue
    <2>7. CASE r = q
      <3>1. /\ n \in Nat /\ n <= mk_params[q[1]].desc_num - free_cnt[q]
            /\ used[q] - last_used_idx[q] >= 0 => n <= used[q] - last_used_idx[q]
        BY <2>3, SMT DEF Reclaims
      <3>2. /\ used[q] \in Int /\ avail[q] \in Nat /\ last_used_idx[q] \in Int
            /\ free_cnt[q] \in Nat /\ leftover[q] \in Int /\ last_avail_idx[q] \in Nat
        BY Zenon DEF Indices
      <3>3. /\ free_cnt'[q] = free_cnt[q] + n - 1 /\ last_used_idx'[q] = used[q]
            /\ avail'[q] = avail[q] + 1
        BY <2>3, Zenon DEF Indices
      <3>4. UNCHANGED <<mk_params, used, last_avail_idx, leftover>>
        BY <2>1, Zenon
      <3> HIDE DEF Types
      <3> QED
        BY <2>5, <2>6, <2>7, <3>1, <3>2, <3>3, <3>4 DEF Fits, Reclaimed
    <2>8. CASE r # q
      <3>1. /\ free_cnt'[r] = free_cnt[r] /\ last_used_idx'[r] = last_used_idx[r]
            /\ avail'[r] = avail[r]
        BY <2>3, <2>8, Zenon DEF Indices
      <3> QED
        BY <2>1, <2>5, <3>1, Zenon DEF Fits, Reclaimed
    <2> QED
      BY <2>7, <2>8, Zenon
  <1>12. CASE UNCHANGED vars
    <2>1. SetUpKept
      BY <1>12, Zenon DEF vars, SetUpKept, SetUp
    <2> QED
      BY <1>12, <2>1, RoomKept, Zenon DEF vars
  <1> QED
    BY <1>1, <1>2, <1>3, <1>4, <1>5, <1>6, <1>7, <1>8, <1>9, <1>10, <1>11, <1>12, Zenon
       DEF Next

LEMMA BootStep == BootInv /\ [Next]_vars => BootInv'
  BY TypesStep, HostFirstStep, HostAreaStep, GuestsFollowStep, CompatibleStep,
     BehindhandStep, NoGhostStep, FittingStep, WordsStep, IndicesStep, CountedStep,
     RoomStep, Zenon DEF BootInv

\* The inductive invariant of the boot protocol (mkring_init,
\* mkring_prepare_shared, mkring_queue_setup) holds in every state.
THEOREM BootInvariant == Spec => []BootInv
  BY InitBoot, BootStep, PTL DEF Spec

\* The shared words, the private indices and free_cnt keep their types: a
\* descriptor is never taken when none is free (mkring_send), and while the host
\* has not failed no index is below zero.
THEOREM BootTypes == Spec => []TypeOK
  <1>1. BootInv => TypeOK
    BY Zenon DEF BootInv, Types, Words, Indices, TypeOK
  <1> QED
    BY <1>1, BootInvariant, PTL

\* Between two kernels that are up beside the host a receiver is at most
\* desc_num messages behind what the set-up of its sender found unread,
\* whatever stops and boots came before (mkring_queue_setup,
\* mkring_tx_reclaim_locked, mkring_tx_enqueue).
THEOREM BootBacklog == Spec => []BacklogWithinRing
  <1>1. ASSUME BootInv, NEW q \in Queue, HostUp, q[1] \in Up, q[2] \in Up
        PROVE  avail[q] - last_avail_idx[q]
                 \in 0 .. mk_params[q[1]].desc_num + leftover[q]
    <2>1. pc[0] = "up" /\ pc[q[1]] = "up" /\ pc[q[2]] = "up"
      BY <1>1, Zenon DEF HostUp, Up
    <2>2. q[1] \in Kernel /\ q[2] \in Kernel
      BY Zenon DEF Queue
    <2>3. \A k \in Kernel : pc[k] = "up" => header = HeaderOf(mk_params[k])
      BY <1>1, <2>1, Zenon DEF BootInv, HostArea, GuestsFollow, Joining
    <2>4. mk_params[q[1]].kernels = mk_params[q[2]].kernels
      <3>1. HeaderOf(mk_params[q[1]]).kernels = HeaderOf(mk_params[q[2]]).kernels
        BY <2>1, <2>2, <2>3, Zenon
      <3> QED
        BY <3>1, Zenon DEF HeaderOf
    <2>5. SetUp(q[1], q[2]) /\ SetUp(q[2], q[1])
      BY <1>1, <2>1, <2>2, <2>4, Zenon DEF BootInv, Counted, SetUp
    <2>6. /\ last_used_idx[q] <= used[q] /\ leftover[q] >= 0
          /\ Reclaimed(q) + (avail[q] - last_avail_idx[q])
               <= mk_params[q[1]].desc_num + leftover[q]
      BY <1>1, <2>1, <2>5, Zenon DEF BootInv, Room, Fits
    <2>7. last_avail_idx[q] <= avail[q]
      BY <1>1, <2>1, Zenon DEF BootInv, Behindhand
    <2>8. mk_params[q[1]].desc_num \in Nat
      BY <1>1, <2>1, <2>2, Zenon DEF BootInv, Fitting, Params
    <2> QED
      BY <1>1, <2>6, <2>7, <2>8 DEF BootInv, Types, Indices, Reclaimed
  <1>2. BootInv => BacklogWithinRing
    BY <1>1, Zenon DEF BacklogWithinRing
  <1> QED
    BY <1>2, BootInvariant, PTL

\* Beside a host that is up every running kernel has the host's layout
\* (mkring_hdr_compatible).
THEOREM BootConfigsAgree == Spec => []ConfigsAgree
  <1>1. BootInv => ConfigsAgree
    BY BootAssumption, Zenon DEF BootInv, HostArea, GuestsFollow, Joining, ConfigsAgree,
       HostUp, Up
  <1> QED
    BY <1>1, BootInvariant, PTL

\* A guest that fails beside a host that is up has bad or different
\* parameters, or found no memory.
THEOREM BootCompatible == Spec => []CompatibleBootSucceeds
  <1>1. BootInv => CompatibleBootSucceeds
    BY Zenon DEF BootInv
  <1> QED
    BY <1>1, BootInvariant, PTL

\* After a forced initialisation the ready bits are those of kernels that came
\* up since (mkring_prepare_shared, force_init).
THEOREM BootNoGhostPeer == Spec => []NoGhostPeer
  <1>1. BootInv => NoGhostPeer
    BY BootAssumption, Zenon DEF BootInv, NoGhostBit, Fitting, Params, NoGhostPeer,
       HostUp, Up
  <1> QED
    BY <1>1, BootInvariant, PTL

\* Under a host that is up the header stays and no index goes back
\* (mkring_prepare_shared's cmpxchg, force_init only on kernel 0).
THEOREM BootNoReinit == Spec => NoReinit
  <1> DEFINE Kept == HostUp => /\ header' = header
                              /\ init_state' = init_state
                              /\ \A q \in Queue : avail'[q] >= avail[q]
                                    /\ used'[q] >= used[q]
  <1>1. ASSUME BootInv, Next PROVE Kept
    <2> SUFFICES ASSUME pc[0] = "up" PROVE Kept
      BY ZenonT(60) DEF HostUp, Up
    <2> USE <1>1, BootAssumption
        DEF BootInv, Types, HostArea, GuestsFollow, Behindhand, Joining
    <2>1. ASSUME NEW k \in Kernel, Boot(k) \/ Look(k) \/ Claim(k) PROVE Kept
      BY <2>1 DEF Boot, FailUnmapped, Look, Claim, shm
    <2>2. ASSUME NEW k \in Kernel, Size(k) PROVE Kept
      BY <2>2 DEF Size, Fail, shm
    <2>3. ASSUME NEW k \in Kernel, ClearArea(k) \/ Fill(k) \/ MarkReady(k) PROVE Kept
      BY <2>3, ZenonT(60) DEF ClearArea, Fill, MarkReady
    <2>4. ASSUME NEW k \in Kernel,
                 WaitShmReady(k) \/ Recheck(k) \/ Check(k) \/ SetupFails(k)
          PROVE  Kept
      BY <2>4, SMTT(60) DEF WaitShmReady, Recheck, Check, SetupFails, Fail, shm
    <2>5. ASSUME NEW k \in Kernel,
                 SetReadyBit(k) \/ QueueSetup(k) \/ Publish(k) \/ Exit(k)
                     \/ StopGuest(k)
          PROVE  Kept
      BY <2>5, SMTT(60) DEF SetReadyBit, QueueSetup, Publish, Exit, StopGuest, shm
    <2>6. ASSUME NEW k \in Kernel, Interrupt(k) PROVE Kept
      BY <2>6, SMTT(60) DEF Interrupt
    <2>7. ASSUME NEW q \in Queue, Send(q[1], q[2]) PROVE Kept
      BY <2>7, SMTT(60) DEF Send, Queue
    <2> QED
      BY <2>1, <2>2, <2>3, <2>4, <2>5, <2>6, <2>7, Zenon DEF Next
  <1>2. BootInv /\ [Next]_vars => [Kept]_vars
    BY <1>1, Zenon
  <1> QED
    BY <1>2, BootInvariant, PTL DEF Spec, NoReinit

------------------------------------------------------------------------------
(* The layout.                                                             *)

LEMMA AlignUp ==
  ASSUME NEW x \in Nat, NEW a \in {2, 4, 64, 4096}
  PROVE  ALIGN(x, a) \in Nat /\ x <= ALIGN(x, a) /\ ALIGN(x, a) < x + a
  BY DEF ALIGN

LEMMA DataEndNat ==
  ASSUME NEW n \in Nat, NEW p \in Nat
  PROVE  data_end(n, p) \in Nat
  <1>1. avail_off(n) \in Nat
    <2>1. desc_bytes(n) \in Nat
      BY DEF desc_bytes
    <2> QED
      BY <2>1, AlignUp DEF avail_off
  <1>2. used_off(n) \in Nat
    <2>1. avail_off(n) + avail_bytes(n) \in Nat
      BY <1>1 DEF avail_bytes
    <2> QED
      BY <2>1, AlignUp DEF used_off
  <1>3. data_off(n) \in Nat
    <2>1. used_off(n) + used_bytes(n) \in Nat
      BY <1>2 DEF used_bytes
    <2> QED
      BY <2>1, AlignUp DEF data_off, MKRING_ALIGN
  <1>4. n * p \in Nat
    OBVIOUS
  <1> QED
    BY <1>3, <1>4 DEF data_end

\* Short of the last page queue_size does not wrap and holds the whole queue.
LEMMA QueueFits ==
  ASSUME NEW n \in Nat, NEW p \in Nat, data_end(n, p) + PAGE_SIZE <= Word
  PROVE  queue_size(n, p) \in Nat /\ data_end(n, p) <= queue_size(n, p)
  <1> DEFINE e == data_end(n, p)
             s == ALIGN(e, PAGE_SIZE)
  <1>1. e \in Nat
    BY DataEndNat, Zenon
  <1>2. s \in Nat /\ e <= s /\ s < e + PAGE_SIZE
    BY <1>1, AlignUp DEF PAGE_SIZE
  <1>3. s < Word
    BY <1>1, <1>2, WordAssumption DEF PAGE_SIZE
  <1>4. s % Word = s
    <2> HIDE DEF s, e
    <2> QED
      BY <1>2, <1>3, WordAssumption
  <1> QED
    BY <1>2, <1>4, Zenon DEF queue_size

LEMMA TimesMono ==
  ASSUME NEW i \in Nat, NEW j \in Nat, NEW s \in Nat, i + 1 <= j
  PROVE  i * s + s <= j * s
  <1>1. PICK d \in Nat : j = i + 1 + d
    BY j - (i + 1) \in Nat
  <1>2. j * s = i * s + s + d * s
    BY <1>1
  <1>3. d * s \in Nat /\ i * s \in Nat
    OBVIOUS
  <1> QED
    BY <1>2, <1>3

\* mkring_qindex numbers the queues of k kernels without a clash.
LEMMA QindexRange ==
  ASSUME NEW k \in Nat, NEW a \in Nat, NEW b \in Nat, a < k, b < k
  PROVE  qindex(k, a, b) \in Nat /\ qindex(k, a, b) + 1 <= k * k
  <1>1. a * k + k <= k * k
    BY TimesMono
  <1>2. a * k \in Nat /\ k * k \in Nat
    OBVIOUS
  <1> QED
    BY <1>1, <1>2 DEF qindex

LEMMA QindexApart ==
  ASSUME NEW k \in Nat, NEW a \in Nat, NEW b \in Nat, NEW c \in Nat, NEW d \in Nat,
         b < k, d < k, a # c \/ b # d
  PROVE  qindex(k, a, b) # qindex(k, c, d)
  <1> a * k \in Nat /\ c * k \in Nat
    OBVIOUS
  <1>1. CASE a = c
    BY <1>1 DEF qindex
  <1>2. CASE a < c
    <2>1. a * k + k <= c * k
      BY <1>2, TimesMono
    <2> QED
      BY <2>1 DEF qindex
  <1>3. CASE c < a
    <2>1. c * k + k <= a * k
      BY <1>3, TimesMono, SMTT(60)
    <2> QED
      BY <2>1 DEF qindex
  <1> QED
    BY <1>1, <1>2, <1>3

\* The queues of a running kernel are inside its area and apart from each
\* other (mkring_calc_layout, mkring_qindex, the size test of
\* mkring_prepare_shared).
THEOREM BootQueuesApart == Spec => []QueuesApart
  <1>1. ASSUME BootInv, NEW k \in Up,
               data_end(mk_params[k].desc_num,
                   mk_params[k].msg_size) + PAGE_SIZE <= Word
        PROVE  LET p  == mk_params[k]
                   sz == data_end(p.desc_num, p.msg_size)
                   qs == {q \in Kernel \X Kernel : Exists(p, q)}
               IN  /\ \A q \in qs : Area(p, q) + sz <= p.shm_size
                   /\ \A q, r \in qs : q # r =>
                        Area(p, q) + sz <= Area(p, r) \/ Area(p, r) + sz <= Area(p, q)
    <2> DEFINE p == mk_params[k]
               n == p.kernels
               e == data_end(p.desc_num, p.msg_size)
               s == queue_size(p.desc_num, p.msg_size)
               qs == {q \in Kernel \X Kernel : Exists(p, q)}
               ix(q) == qindex(n, q[1], q[2])
    <2>1. p \in Params /\ ~Unfit(p)
      BY <1>1, SMTT(60) DEF BootInv, Fitting, Up
    <2>2. n \in Nat /\ p.desc_num \in Nat /\ p.msg_size \in Nat /\ p.shm_size \in Nat
      BY <2>1, SMTT(60) DEF Params
    <2>3. e \in Nat /\ s \in Nat /\ e <= s
      BY <1>1, <2>2, DataEndNat, QueueFits, ZenonT(60)
    <2>4. (n * n) * s + hdr_len <= p.shm_size
      <3>1. n * n \in Nat /\ (n * n) * s \in Nat
        BY <2>2, <2>3
      <3>2. required(n, p.desc_num, p.msg_size) <= p.shm_size
        <4>1. required(n, p.desc_num, p.msg_size) \in Nat
          BY <3>1 DEF required, hdr_len
        <4> QED
          BY <2>1, <2>2, <4>1 DEF Unfit
      <3> QED
        BY <3>1, <3>2, <2>2 DEF required, hdr_len
    <2>5. \A q \in qs : q[1] \in Nat /\ q[2] \in Nat /\ q[1] < n /\ q[2] < n
      <3>1. Kernel \subseteq Nat
        BY BootAssumption
      <3> HIDE DEF p
      <3> QED
        BY <3>1, ZenonT(60) DEF Exists
    <2>6. \A q \in qs : ix(q) \in Nat /\ ix(q) + 1 <= n * n
      BY <2>2, <2>5, QindexRange
    <2>7. \A q \in qs : Area(p, q) = hdr_len + ix(q) * s
      BY DEF Area, queue_off
    <2>8. ASSUME NEW q \in qs PROVE Area(p, q) + e <= p.shm_size
      <3> DEFINE i == ix(q)
                 m == n * n
      <3>1. i \in Nat /\ m \in Nat /\ i + 1 <= m
        BY <2>2, <2>6
      <3> HIDE DEF i, m
      <3>2. i * s + s <= m * s
        BY <2>3, <3>1, TimesMono
      <3>3. i * s \in Nat /\ m * s \in Nat
        BY <2>3, <3>1, SMTT(60)
      <3>4. Area(p, q) = hdr_len + i * s /\ m * s + hdr_len <= p.shm_size
        BY <2>4, <2>7 DEF i, m
      <3> HIDE DEF e, s, p
      <3> QED
        BY <2>2, <2>3, <3>2, <3>3, <3>4 DEF hdr_len
    <2>9. ASSUME NEW q \in qs, NEW r \in qs, ix(q) < ix(r)
          PROVE  Area(p, q) + e <= Area(p, r)
      <3> DEFINE i == ix(q)
                 j == ix(r)
      <3>1. i \in Nat /\ j \in Nat /\ i + 1 <= j
        BY <2>6, <2>9
      <3>2. Area(p, q) = hdr_len + i * s /\ Area(p, r) = hdr_len + j * s
        BY <2>7
      <3> HIDE DEF i, j, e, s, p
      <3>3. i * s + s <= j * s
        BY <2>3, <3>1, TimesMono
      <3>4. i * s \in Nat /\ j * s \in Nat
        BY <2>3, <3>1, SMTT(60)
      <3> QED
        BY <2>3, <3>2, <3>3, <3>4, SMTT(60) DEF hdr_len
    <2>10. ASSUME NEW q \in qs, NEW r \in qs, q # r
           PROVE  ix(q) < ix(r) \/ ix(r) < ix(q)
      <3>1. q[1] # r[1] \/ q[2] # r[2]
        BY <2>10, SMTT(60)
      <3>2. ix(q) # ix(r)
        BY <2>2, <2>5, <3>1, QindexApart, ZenonT(60)
      <3> QED
        BY <2>6, <3>2
    <2> QED
      BY <2>8, <2>9, <2>10, ZenonT(60)
  <1>2. BootInv => QueuesApart
    BY <1>1, SMTT(60) DEF QueuesApart
  <1> QED
    BY <1>2, BootInvariant, PTL
==============================================================================
