----------------------------- MODULE MkringBoot ------------------------------
(***************************************************************************)
(* How the kernels of one machine bring mkring up (mkring/init_mk.c,       *)
(* mkring/mkring.c): each parses its command line, mkring_init computes    *)
(* the layout, prepares or validates the shared area, sets its ready bit,  *)
(* sets up its queues and publishes its context.  Kernel 0 is the host;    *)
(* its own mkring_init is a subsys_initcall, so it ends before the engine  *)
(* can start a guest kernel.  Guests stop without notice and boot again.   *)
(* When the host's own initialisation fails, the first guests initialise   *)
(* the area, and two of them may do so at once: memset clears the INITING  *)
(* mark that should keep the second one out.                               *)
(*                                                                         *)
(* A queue src -> dst is seen through the indices it shares (avail, used)  *)
(* and the private ones of its two ends; MkringQueue has the ring itself.  *)
(***************************************************************************)
EXTENDS MkringLayout, FiniteSets

CONSTANTS
  Kernel,       \* kernel ids, 0 is the host
  Lines,        \* Lines[k]: the command lines kernel k may boot with
  Stale,        \* shared areas the host may find (left by an earlier boot)
  MaxSends,     \* bound: messages ever sent
  MaxStops,     \* bound: guest kernels stopped, or mkring_exit calls
  NoHeader,     \* header words that do not carry the magic number
  None

MKRING_MAX_KERNELS == 32

ASSUME BootAssumption == 0 \in Kernel /\ Kernel \subseteq 0 .. 31

VARIABLES
  \* shared memory
  init_state, header, ready_bitmap, avail, used,
  \* per kernel
  pc,           \* progress of init_mk
  mk_params,    \* the parsed parameters
  todo,         \* peers whose queues are not set up yet
  ret,          \* result of mkring_init
  notify,       \* peers the registered notify() can interrupt, None without
  ipi,          \* an interrupt is pending
  \* per queue <<src, dst>>: txq of src, rxq of dst
  free_cnt, last_used_idx, last_avail_idx,
  \* history
  leftover,     \* per queue: messages in flight that a set-up forgot
  joined,       \* kernels that set their ready bit since host boot
  sends, stops

shm   == <<init_state, header, ready_bitmap, avail, used>>
local == <<pc, mk_params, todo, ret, notify>>
rings == <<free_cnt, last_used_idx, last_avail_idx, leftover>>
vars  == <<shm, local, ipi, rings, joined, sends, stops>>

Queue == {q \in Kernel \X Kernel : q[1] # q[2]}
Zero  == [q \in Queue |-> 0]

------------------------------------------------------------------------------
(* The command line gives each parameter as the set of its accepted values: *)
(* {v}, or {} when the parameter is missing or its parser refuses it.      *)

Given(line, key, default) ==
  IF line[key] = {} THEN default ELSE CHOOSE v \in line[key] : TRUE

\* mk_parse_*: a bad or missing value leaves the default in place.
ParseParams(line) ==
  [kernels    |-> Given(line, "kernels", 2),
   desc_num   |-> Given(line, "desc_num", 256),
   msg_size   |-> Given(line, "msg_size", 1024),
   force_init |-> Given(line, "force_init", FALSE),
   shm_size   |-> Given(line, "shm_size", 0),
   kernel_id  |-> Given(line, "kernel_id", None),
   ipi_dests  |-> Given(line, "ipi_dests", None)]

\* The types of struct mkring_boot_params (widths apart).
Params ==
  [kernels : Nat, desc_num : Nat, msg_size : Nat, force_init : BOOLEAN,
   shm_size : Nat, kernel_id : Nat \cup {None}, ipi_dests : Nat \cup {None}]

ASSUME LinesAssumption ==
  \A k \in Kernel : \A line \in Lines[k] : ParseParams(line) \in Params

\* A kernel is named by the mkkernel_id of its command line.
ASSUME IdsAssumption ==
  \A k \in Kernel : \A line \in Lines[k] : ParseParams(line).kernel_id \in {k, None}

\* What init_state can hold: a word that is none of the three is "other".
InitState == {"UNINIT", "INITING", "READY", "other"}

ASSUME StaleAssumption ==
  \A s \in Stale : /\ s.init_state \in InitState
                   /\ s.ready_bitmap \subseteq Kernel
                   /\ s.idx \in Nat

\* init_mk_get_notify: the peers whose APIC id was given.
Notifiable(p) ==
  IF p.ipi_dests = None THEN None
  ELSE {d \in 0 .. p.kernels - 1 : d < p.ipi_dests}

\* The tests of init_mk and mkring_init on the parameters; shm_size stands for
\* shm_phys as well, which is missing or given like it.
ParamsOk(p) ==
  /\ p.shm_size > 0
  /\ p.kernel_id # None
  /\ p.kernels <= MKRING_MAX_KERNELS
  /\ p.kernel_id < p.kernels
  /\ p.desc_num > 0 /\ p.msg_size > 0

\* The fields mkring_hdr_compatible compares.
HeaderOf(p) == [kernels    |-> p.kernels,
                desc_num   |-> p.desc_num,
                msg_size   |-> p.msg_size,
                queue_size |-> queue_size(p.desc_num, p.msg_size)]

MutCompatible(k) ==  \* desc_num is not compared
  /\ header # NoHeader
  /\ header.kernels = mk_params[k].kernels
  /\ header.msg_size = mk_params[k].msg_size
  /\ header.queue_size = HeaderOf(mk_params[k]).queue_size

Compatible(k) == header = HeaderOf(mk_params[k])

\* The queues of an area with its parameters, between kernels that exist.
Exists(p, q) == q[1] < p.kernels /\ q[2] < p.kernels

------------------------------------------------------------------------------
Init ==
  /\ \E s \in Stale : /\ init_state = s.init_state
                      /\ header = s.header
                      /\ ready_bitmap = s.ready_bitmap
                      /\ avail = [q \in Queue |-> s.idx]
                      /\ used = [q \in Queue |-> s.idx]
  /\ pc = [k \in Kernel |-> "off"]
  /\ mk_params = [k \in Kernel |-> None]
  /\ todo = [k \in Kernel |-> {}]
  /\ ret = [k \in Kernel |-> "none"]
  /\ notify = [k \in Kernel |-> None]
  /\ ipi = [k \in Kernel |-> FALSE]
  /\ free_cnt = Zero
  /\ last_used_idx = Zero
  /\ last_avail_idx = Zero
  /\ leftover = Zero
  /\ joined = {}
  /\ sends = 0
  /\ stops = 0

Goto(k, l) == pc' = [pc EXCEPT ![k] = l]

\* err_out before the shared area is mapped: mkring_release_ctx finds no hdr.
FailUnmapped(k, e) ==
  /\ Goto(k, "failed")
  /\ ret' = [ret EXCEPT ![k] = e]
  /\ UNCHANGED <<shm, todo, notify>>

\* err_out afterwards: mkring_release_ctx also clears the ready bit.
Fail(k, e) ==
  /\ Goto(k, "failed")
  /\ ret' = [ret EXCEPT ![k] = e]
  /\ ready_bitmap' = ready_bitmap \ {k}
  /\ UNCHANGED <<init_state, header, avail, used, mk_params, todo, notify>>

\* The command line is parsed and init_mk runs up to the mapping of the area.
Boot(k) ==
  /\ pc[k] = "off"
  /\ k = 0 \/ pc[0] \in {"up", "failed"}
  /\ \E line \in Lines[k] :
       LET p == ParseParams(line)
       IN  /\ mk_params' = [mk_params EXCEPT ![k] = p]
           /\ \/ ~ParamsOk(p) /\ FailUnmapped(k, "EINVAL")
              \/ /\ ParamsOk(p)
                 /\ ~LayoutOk(p.desc_num, p.msg_size)
                 /\ FailUnmapped(k, "EOVERFLOW")
              \/ /\ ParamsOk(p)
                 /\ LayoutOk(p.desc_num, p.msg_size)
                 /\ \/ \E e \in {"ENOMEM", "EBUSY"} : FailUnmapped(k, e)
                    \/ /\ Goto(k, "size")
                       /\ UNCHANGED <<shm, todo, ret, notify>>
  /\ UNCHANGED <<ipi, rings, joined, sends, stops>>

\* memset of the whole area: queue indices, ready bits and init_state.
Wipe ==
  /\ init_state' = "UNINIT"
  /\ header' = NoHeader
  /\ ready_bitmap' = {}
  /\ avail' = Zero
  /\ used' = Zero

\* The area is too small for the queues (-EINVAL in the code), or their size
\* does not fit a u32 (-EOVERFLOW).
Unfit(p) ==
  LET r == required(p.kernels, p.desc_num, p.msg_size)
  IN  p.shm_size < r \/ r >= Word

MutSize(k) ==  \* any kernel that is told to wipes the area
  /\ pc[k] = "size"
  /\ IF Unfit(mk_params[k])
       THEN Fail(k, "EINVAL")
       ELSE /\ Goto(k, "look")
            /\ IF mk_params[k].force_init THEN Wipe ELSE UNCHANGED shm
            /\ UNCHANGED <<mk_params, todo, ret, notify>>
  /\ UNCHANGED <<ipi, rings, joined, sends, stops>>

MutSizeNoForce(k) ==  \* force_init is ignored
  /\ pc[k] = "size"
  /\ IF Unfit(mk_params[k])
       THEN Fail(k, "EINVAL")
       ELSE Goto(k, "look") /\ UNCHANGED <<shm, mk_params, todo, ret, notify>>
  /\ UNCHANGED <<ipi, rings, joined, sends, stops>>

\* mkring_prepare_shared: the size tests (one error here), and the host's
\* forced reset.
Size(k) ==
  /\ pc[k] = "size"
  /\ IF Unfit(mk_params[k])
       THEN Fail(k, "EINVAL")
       ELSE /\ Goto(k, "look")
            /\ IF mk_params[k].force_init /\ k = 0 THEN Wipe ELSE UNCHANGED shm
            /\ UNCHANGED <<mk_params, todo, ret, notify>>
  /\ UNCHANGED <<ipi, rings, joined, sends, stops>>

\* An area that is READY and compatible is used as it is.
Look(k) ==
  /\ pc[k] = "look"
  /\ Goto(k, IF init_state = "READY" /\ Compatible(k) THEN "bit" ELSE "claim")
  /\ UNCHANGED <<shm, mk_params, todo, ret, notify, ipi, rings, joined, sends,
                 stops>>

\* cmpxchg(init_state, UNINIT, INITING): the winner initialises.
Claim(k) ==
  /\ pc[k] = "claim"
  /\ init_state' = IF init_state = "UNINIT" THEN "INITING" ELSE init_state
  /\ Goto(k, CASE init_state = "UNINIT"  -> "wipe"
               [] init_state = "INITING" -> "wait"
               [] OTHER                  -> "recheck")
  /\ UNCHANGED <<header, ready_bitmap, avail, used, mk_params, todo, ret,
                 notify, ipi, rings, joined, sends, stops>>

\* The winner clears the area, its own INITING mark included.
ClearArea(k) ==
  /\ pc[k] = "wipe"
  /\ Wipe
  /\ Goto(k, "fill")
  /\ UNCHANGED <<mk_params, todo, ret, notify, ipi, rings, joined, sends, stops>>

\* It writes the header, and mkring_init_one_queue every queue.
Fill(k) ==
  /\ pc[k] = "fill"
  /\ header' = HeaderOf(mk_params[k])
  /\ avail' = [q \in Queue |-> IF Exists(mk_params[k], q) THEN 0 ELSE avail[q]]
  /\ used' = [q \in Queue |-> IF Exists(mk_params[k], q) THEN 0 ELSE used[q]]
  /\ Goto(k, "ready")
  /\ UNCHANGED <<init_state, ready_bitmap, mk_params, todo, ret, notify, ipi,
                 rings, joined, sends, stops>>

MutMarkReady(k) ==  \* the area is left INITING
  /\ pc[k] = "ready"
  /\ init_state' = "INITING"
  /\ Goto(k, "check")
  /\ UNCHANGED <<header, ready_bitmap, avail, used, mk_params, todo, ret,
                 notify, ipi, rings, joined, sends, stops>>

MarkReady(k) ==
  /\ pc[k] = "ready"
  /\ init_state' = "READY"
  /\ Goto(k, "check")
  /\ UNCHANGED <<header, ready_bitmap, avail, used, mk_params, todo, ret,
                 notify, ipi, rings, joined, sends, stops>>

\* mkring_wait_shm_ready: the initialiser finishes, or five seconds pass.
WaitShmReady(k) ==
  /\ pc[k] = "wait"
  /\ \/ /\ init_state = "READY"
        /\ Goto(k, "recheck")
        /\ UNCHANGED <<shm, mk_params, todo, ret, notify>>
     \/ /\ init_state # "READY"
        /\ Fail(k, "ETIMEDOUT")
        /\ UNCHANGED mk_params
  /\ UNCHANGED <<ipi, rings, joined, sends, stops>>

Recheck(k) ==
  /\ pc[k] = "recheck"
  /\ IF init_state # "READY"
       THEN Fail(k, "EAGAIN")
       ELSE Goto(k, "check") /\ UNCHANGED <<shm, mk_params, todo, ret, notify>>
  /\ UNCHANGED <<ipi, rings, joined, sends, stops>>

Check(k) ==
  /\ pc[k] = "check"
  /\ IF ~Compatible(k)
       THEN Fail(k, "EPROTO")
       ELSE Goto(k, "bit") /\ UNCHANGED <<shm, mk_params, todo, ret, notify>>
  /\ UNCHANGED <<ipi, rings, joined, sends, stops>>

\* The kernel announces itself, before its queues are set up.
SetReadyBit(k) ==
  /\ pc[k] = "bit"
  /\ ready_bitmap' = ready_bitmap \cup {k}
  /\ joined' = joined \cup {k}
  /\ todo' = [todo EXCEPT ![k] = {d \in Kernel \ {k} : d < mk_params[k].kernels}]
  /\ Goto(k, "setup")
  /\ UNCHANGED <<init_state, header, avail, used, mk_params, ret, notify, ipi,
                 rings, sends, stops>>

\* History.  A sender that sets its queue up has every descriptor again, those
\* of messages its receiver has yet to take included.  A receiver that does
\* skips what it has not taken; the descriptors it returned are still to be
\* reclaimed.
Forget(k, d) ==
  LET unread   == avail[<<k, d>>] - last_avail_idx[<<k, d>>]
      returned == used[<<d, k>>] - last_used_idx[<<d, k>>]
      before   == leftover[<<d, k>>]
  IN  leftover' = [leftover EXCEPT
                     ![<<k, d>>] = unread,
                     ![<<d, k>>] = IF returned < before THEN returned ELSE before]

MutQueueSetup(k) ==  \* starts reading at the first slot, not where avail is
  /\ pc[k] = "setup"
  /\ \E d \in todo[k] :
       /\ \A e \in todo[k] : d <= e
       /\ free_cnt' = [free_cnt EXCEPT ![<<k, d>>] = mk_params[k].desc_num]
       /\ last_used_idx' = [last_used_idx EXCEPT ![<<k, d>>] = used[<<k, d>>]]
       /\ last_avail_idx' = [last_avail_idx EXCEPT ![<<d, k>>] = 0]
       /\ Forget(k, d)
       /\ todo' = [todo EXCEPT ![k] = @ \ {d}]
  /\ UNCHANGED <<shm, pc, mk_params, ret, notify, ipi, joined, sends, stops>>

\* mkring_queue_setup of the transmit and the receive queue of the next peer.
QueueSetup(k) ==
  /\ pc[k] = "setup"
  /\ \E d \in todo[k] :
       /\ \A e \in todo[k] : d <= e
       /\ free_cnt' = [free_cnt EXCEPT ![<<k, d>>] = mk_params[k].desc_num]
       /\ last_used_idx' = [last_used_idx EXCEPT ![<<k, d>>] = used[<<k, d>>]]
       /\ last_avail_idx' = [last_avail_idx EXCEPT ![<<d, k>>] = avail[<<d, k>>]]
       /\ Forget(k, d)
       /\ todo' = [todo EXCEPT ![k] = @ \ {d}]
  /\ UNCHANGED <<shm, pc, mk_params, ret, notify, ipi, joined, sends, stops>>

\* An allocation of the set-up fails.
SetupFails(k) ==
  /\ pc[k] = "setup"
  /\ Fail(k, "ENOMEM")
  /\ UNCHANGED <<mk_params, ipi, rings, joined, sends, stops>>

\* The context is published and the notify callback registered.
Publish(k) ==
  /\ pc[k] = "setup"
  /\ todo[k] = {}
  /\ notify' = [notify EXCEPT ![k] = Notifiable(mk_params[k])]
  /\ ret' = [ret EXCEPT ![k] = "ok"]
  /\ Goto(k, "up")
  /\ UNCHANGED <<shm, mk_params, todo, ipi, rings, joined, sends, stops>>

------------------------------------------------------------------------------
(* A running kernel.                                                       *)

\* mkring_tx_reclaim_locked: how many descriptors it may free.  One is freed
\* only if its in-flight bit is set.  Every entry of the used ring has its bit
\* set unless a set-up forgot messages in flight (or the area was initialised
\* again): then their entries may find the bit clear, or set for a new message.
Reclaims(q) ==
  LET returned == used[q] - last_used_idx[q]
      inflight == mk_params[q[1]].desc_num - free_cnt[q]
  IN  {n \in 0 .. inflight :
         /\ returned >= 0 => n <= returned
         /\ leftover[q] = 0 /\ returned \in 0 .. inflight => n = returned}

MutSend(s, d) ==  \* does not look at free_cnt
  /\ pc[s] = "up"
  /\ sends < MaxSends
  /\ d < mk_params[s].kernels
  /\ d \in ready_bitmap
  /\ notify[s] # None
  /\ \E n \in Reclaims(<<s, d>>) :
       free_cnt' = [free_cnt EXCEPT ![<<s, d>>] = @ + n - 1]
  /\ last_used_idx' = [last_used_idx EXCEPT ![<<s, d>>] = used[<<s, d>>]]
  /\ avail' = [avail EXCEPT ![<<s, d>>] = @ + 1]
  /\ ipi' = [ipi EXCEPT ![d] = @ \/ d \in notify[s]]
  /\ sends' = sends + 1
  /\ UNCHANGED <<init_state, header, ready_bitmap, used, local,
                 last_avail_idx, leftover, joined, stops>>

\* mkring_send: the peer's bit is set and a descriptor free.  A peer outside
\* ipi_dests gets the message but no interrupt (mk_ipi_notify: -ENODEV).
Send(s, d) ==
  /\ pc[s] = "up"
  /\ sends < MaxSends
  /\ d < mk_params[s].kernels
  /\ d \in ready_bitmap
  /\ notify[s] # None
  /\ \E n \in Reclaims(<<s, d>>) :
       /\ free_cnt[<<s, d>>] + n > 0
       /\ free_cnt' = [free_cnt EXCEPT ![<<s, d>>] = @ + n - 1]
  /\ last_used_idx' = [last_used_idx EXCEPT ![<<s, d>>] = used[<<s, d>>]]
  /\ avail' = [avail EXCEPT ![<<s, d>>] = @ + 1]
  /\ ipi' = [ipi EXCEPT ![d] = @ \/ d \in notify[s]]
  /\ sends' = sends + 1
  /\ UNCHANGED <<init_state, header, ready_bitmap, used, local,
                 last_avail_idx, leftover, joined, stops>>

\* mkring_handle_ipi_all: a kernel without a context ignores the interrupt.
Interrupt(k) ==
  /\ ipi[k]
  /\ ipi' = [ipi EXCEPT ![k] = FALSE]
  /\ LET mine == {q \in Queue : q[2] = k /\ pc[k] = "up"
                                /\ q[1] < mk_params[k].kernels}
     IN  /\ used' = [q \in Queue |->
                       IF q \in mine THEN used[q] + (avail[q] - last_avail_idx[q])
                       ELSE used[q]]
         /\ last_avail_idx' = [q \in Queue |->
                       IF q \in mine THEN avail[q] ELSE last_avail_idx[q]]
  /\ UNCHANGED <<init_state, header, ready_bitmap, avail, local, free_cnt,
                 last_used_idx, leftover, joined, sends, stops>>

\* mkring_exit: the ready bit is withdrawn and the queues are forgotten.
Exit(k) ==
  /\ pc[k] = "up" /\ k # 0
  /\ stops < MaxStops
  /\ stops' = stops + 1
  /\ ready_bitmap' = ready_bitmap \ {k}
  /\ notify' = [notify EXCEPT ![k] = None]
  /\ Goto(k, "off")
  /\ UNCHANGED <<init_state, header, avail, used, mk_params, todo, ret, ipi,
                 rings, joined, sends>>

\* The host stops a guest kernel wherever it is; nothing withdraws its bit.
StopGuest(k) ==
  /\ pc[k] # "off" /\ k # 0
  /\ stops < MaxStops
  /\ stops' = stops + 1
  /\ notify' = [notify EXCEPT ![k] = None]
  /\ ipi' = [ipi EXCEPT ![k] = FALSE]
  /\ Goto(k, "off")
  /\ UNCHANGED <<shm, mk_params, todo, ret, rings, joined, sends>>

Next ==
  \/ \E k \in Kernel :
       \/ Boot(k) \/ Size(k) \/ Look(k) \/ Claim(k) \/ ClearArea(k) \/ Fill(k)
       \/ MarkReady(k) \/ WaitShmReady(k) \/ Recheck(k) \/ Check(k)
       \/ SetReadyBit(k) \/ QueueSetup(k) \/ SetupFails(k) \/ Publish(k)
       \/ Interrupt(k) \/ Exit(k) \/ StopGuest(k)
  \/ \E q \in Queue : Send(q[1], q[2])

Spec == Init /\ [][Next]_vars

------------------------------------------------------------------------------
(* Properties.                                                             *)

\* A second initialisation under kernels that are up, which takes a host that
\* failed, can put avail behind its reader: used then goes below zero (in the
\* code it wraps).
TypeOK ==
  /\ init_state \in InitState
  /\ ready_bitmap \subseteq Kernel
  /\ joined \subseteq Kernel
  /\ avail \in [Queue -> Nat]
  /\ used \in [Queue -> Int]
  /\ todo \in [Kernel -> SUBSET Kernel]
  /\ ipi \in [Kernel -> BOOLEAN]
  /\ free_cnt \in [Queue -> Nat]
  /\ last_used_idx \in [Queue -> Int]
  /\ last_avail_idx \in [Queue -> Nat]
  /\ leftover \in [Queue -> Int]
  /\ pc[0] # "failed" => \A q \in Queue : used[q] >= 0 /\ last_used_idx[q] >= 0

Up == {k \in Kernel : pc[k] = "up"}
HostUp == 0 \in Up

\* Kernels that are up beside the host agree on the number of kernels, the
\* descriptors, the message size and the size of a queue: mkring_hdr_compatible
\* stands between the area another kernel prepared and the ready bit.
ConfigsAgree ==
  HostUp => \A j, k \in Up : HeaderOf(mk_params[j]) = HeaderOf(mk_params[k])

\* While the host is up nobody prepares the area again under it: the header
\* stays and no queue index goes back (force_init is the host's alone, and the
\* cmpxchg lets nobody claim a READY area).
NoReinit ==
  [][HostUp => /\ header' = header
              /\ init_state' = init_state
              /\ \A q \in Queue : avail'[q] >= avail[q] /\ used'[q] >= used[q]]_vars

\* A guest whose parameters are those of the host's area always gets up: the
\* only failures left to it are an allocation and a region already taken.
CompatibleBootSucceeds ==
  \A k \in Kernel \ {0} :
    HostUp /\ pc[k] = "failed" /\ ret[k] \notin {"ENOMEM", "EBUSY"}
      => \/ ~ParamsOk(mk_params[k])
         \/ ~LayoutOk(mk_params[k].desc_num, mk_params[k].msg_size)
         \/ Unfit(mk_params[k])
         \/ header # HeaderOf(mk_params[k])

\* A host booted with force_init never sees the ready bit of a kernel that has
\* not come up since: what an earlier boot left in the area is gone.
NoGhostPeer ==
  HostUp /\ mk_params[0].force_init => ready_bitmap \subseteq joined

\* A receiver is at most desc_num messages behind what its sender's set-up found
\* unread, across stops and boots of either end (mkring_queue_setup resumes from
\* the shared indices, mkring_tx_enqueue takes a free descriptor).  So a slot of
\* the avail ring is written again before it is read only when a sender has
\* booted over messages in flight: mkring_queue_setup gives it desc_num
\* descriptors all the same.
BacklogWithinRing ==
  \A q \in Queue : HostUp /\ q[1] \in Up /\ q[2] \in Up =>
    avail[q] - last_avail_idx[q] \in 0 .. mk_params[q[1]].desc_num + leftover[q]

Area(p, q) == queue_off(p.kernels, p.desc_num, p.msg_size, q[1], q[2])

\* The queues of a kernel that is up lie inside the shared memory it mapped,
\* and no two share a byte of their rings and payloads (mkring_calc_layout,
\* mkring_qindex), unless a queue is so close to 4 GiB that queue_size, which
\* the code rounds up without a test, wraps to 0.
QueuesApart ==
  \A k \in Up :
    LET p  == mk_params[k]
        sz == data_end(p.desc_num, p.msg_size)
        qs == {q \in Kernel \X Kernel : Exists(p, q)}
        at == {<<q, Area(p, q)>> : q \in qs}
    IN  sz + PAGE_SIZE <= Word =>
          /\ \A a \in at : a[2] + sz <= p.shm_size
          /\ \A a, b \in at : a # b => a[2] + sz <= b[2] \/ b[2] + sz <= a[2]
==============================================================================
