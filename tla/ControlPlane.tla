---------------------------- MODULE ControlPlane -----------------------------
(***************************************************************************)
(* Requests from the host to the agent of one guest kernel and back:       *)
(*   host      UAPITransport (mkringcontrol/uapi.go): callers of RoundTrip *)
(*             and WaitReady, and the receive loop;                        *)
(*   kernels   the transport system call and the demultiplexer             *)
(*             (mkring_transport_syscall.c, mkring_demux.c) on both sides, *)
(*             over the two directed queues of mkring, here two bounded    *)
(*             channels (MkringChannel; MkringQueue implements them);      *)
(*   guest     the mkring transport and serve loop of the agent            *)
(*             (transport_mkring.c, agent.c).                              *)
(* The guest kernel stops and boots again under the same peer id, as the   *)
(* engine recycles ids; MkringBoot has the boot in detail.  Every sleep is *)
(* a guard, every return from the kernel a step.                           *)
(***************************************************************************)
EXTENDS Naturals, Sequences, FiniteSets

CONSTANTS
  Call,        \* calls of RoundTrip, by request id (random, so distinct)
  Cap,         \* desc_num
  MaxArgv,     \* MKRING_CONTAINER_MAX_ARGV, the same on both sides
  Rc,          \* what an operation of the agent's runtime may return
  MaxFaults,   \* bound: failures injected and stops of the guest kernel
  None

ASSUME ControlAssumption ==
  MaxArgv \in Nat /\ Cap \in Nat /\ None \notin Call \cup {"encode", "ENOLINK",
      "EAGAIN"}

Argc == {MaxArgv, MaxArgv + 1}

VARIABLES
  \* host, user space
  looping,     \* the receive loop: "none", "running", "failed" (recvErr set)
  ready,       \* t.ready[peer].ready
  pending,     \* t.pending
  call,        \* call[c]: where RoundTrip is
  argc,        \* call[c]'s argument count
  chan,        \* the one-slot channel of each call
  deposit,     \* results taken from pending and not yet in their channels
  outcome,     \* what RoundTrip returned
  waiter,      \* a call of WaitReady
  \* host kernel
  hstarted,    \* mkct.started: the channel handlers are registered
  hq,          \* mkct.queues[CONTAINER]
  hipi,        \* interrupt pending
  hlost,       \* descriptors of the queue to the guest that never come back
  \* the queues of mkring
  h2g, g2h,
  \* guest kernel and agent
  gk,          \* "off", "bit" (ready bit set), "up"
  gbit,        \* the guest's bit of ready_bitmap
  gstarted, gq, gipi,
  agent,       \* where the agent is
  req, resp,   \* the request it serves, the answer it sends
  \* history, and bounds
  handled,     \* how often each request was run
  rc,          \* what running it returned
  deposits,    \* results put into each call's channel
  published,   \* the agent of this life sent READY
  forced,      \* a snapshot was restored: nobody waited for READY
  lost,        \* a kernel dropped a message for want of memory
  early,       \* WaitReady returned nil before this life's agent sent READY
  faults, stops

hostu  == <<looping, ready, pending, call, argc, chan, deposit, outcome, waiter>>
hostk  == <<hstarted, hq, hipi, hlost>>
guestk == <<gk, gbit, gstarted, gq, gipi>>
agentv == <<agent, req, resp>>
hist   == <<handled, rc, deposits, published, forced, lost, early>>
vars   == <<hostu, hostk, h2g, g2h, guestk, agentv, hist, faults, stops>>

Init ==
  /\ looping = "none"
  /\ ready = FALSE
  /\ pending = {}
  /\ call = [c \in Call |-> "new"]
  /\ argc \in [Call -> Argc]
  /\ chan = [c \in Call |-> None]
  /\ deposit = {}
  /\ outcome = [c \in Call |-> None]
  /\ waiter = "new"
  /\ hstarted = FALSE
  /\ hq = <<>>
  /\ hipi = FALSE
  /\ hlost = 0
  /\ h2g = <<>>
  /\ g2h = <<>>
  /\ gk = "off"
  /\ gbit = FALSE
  /\ gstarted = FALSE
  /\ gq = <<>>
  /\ gipi = FALSE
  /\ agent = "off"
  /\ req = None
  /\ resp = None
  /\ handled = [c \in Call |-> 0]
  /\ rc = [c \in Call |-> None]
  /\ deposits = [c \in Call |-> 0]
  /\ published = FALSE
  /\ forced = FALSE
  /\ lost = FALSE
  /\ early = FALSE
  /\ faults = 0
  /\ stops = 0

Fault == faults + stops < MaxFaults /\ faults' = faults + 1

------------------------------------------------------------------------------
(* Messages.                                                               *)

READY        == [kind |-> "READY", id |-> None, argc |-> 0, status |-> "0"]
Request(c)   == [kind |-> "REQUEST", id |-> c, argc |-> argc[c], status |-> "0"]

\* mkga_strerror_name and mkga_errno_from_code: what is left of an error
\* number after its journey as a name; others arrive as EIO.
mkga_strerror_name(e) ==
  CASE e = "EINVAL" -> "invalid_argument"
    [] e = "ENOENT" -> "not_found"
    [] e = "ENOSPC" -> "resource_exhausted"
    [] e = "ENOSYS" -> "not_implemented"
    [] OTHER        -> "runtime_error"

mkga_errno_from_code(code) ==
  CASE code = "invalid_argument"   -> "EINVAL"
    [] code = "not_found"          -> "ENOENT"
    [] code = "resource_exhausted" -> "ENOSPC"
    [] code = "not_implemented"    -> "ENOSYS"
    [] OTHER                       -> "EIO"

Status(e) == IF e = "0" THEN "0" ELSE mkga_errno_from_code(mkga_strerror_name(e))

\* mkga_envelope_make_response and mkga_encode_response_message.
Response(m, e) ==
  [kind |-> "RESPONSE", id |-> m.id, argc |-> 0, status |-> Status(e)]

\* mkga_decode_request_message accepts it; anything else ends the serve loop.
Decodes(m) == m.kind = "REQUEST" /\ m.argc <= MaxArgv

------------------------------------------------------------------------------
(* mkring_send through the system call: a descriptor is free, or -EAGAIN.  *)

MutHostCanSend == Len(h2g) < Cap  \* descriptors come back when the peer boots

HostCanSend  == Len(h2g) + hlost < Cap
GuestCanSend == Len(g2h) < Cap

------------------------------------------------------------------------------
(* Host, user space: RoundTrip.                                            *)

\* ensureStarted, once.
Started == looping' = IF looping = "none" THEN "running" ELSE looping

Return(c, o) ==
  /\ call' = [call EXCEPT ![c] = "done"]
  /\ outcome' = [outcome EXCEPT ![c] = o]
  /\ pending' = pending \ {c}

\* encodeEnvelopeMessage and registerPending.  The engine calls a guest only
\* after WaitReady, or after a snapshot was restored.
Begin(c) ==
  /\ call[c] = "new"
  /\ waiter \in {"ready", "snapshot"}
  /\ Started
  /\ CASE argc[c] > MaxArgv    -> Return(c, "encode")
       [] looping = "failed"   -> Return(c, "receiver")
       [] OTHER -> /\ call' = [call EXCEPT ![c] = "registered"]
                   /\ pending' = pending \cup {c}
                   /\ UNCHANGED outcome
  /\ UNCHANGED <<ready, argc, chan, deposit, waiter, hostk, h2g, g2h, guestk,
                 agentv, hist, faults, stops>>

\* uapi.Send is refused: the peer's ready bit is clear or the queue is full.
SendRefused(c) ==
  /\ call[c] = "registered"
  /\ hstarted' = TRUE
  /\ \/ ~gbit /\ Return(c, "ENOLINK")
     \/ gbit /\ ~HostCanSend /\ Return(c, "EAGAIN")
  /\ UNCHANGED <<looping, ready, argc, chan, deposit, waiter, hq, hipi, hlost,
                 h2g, g2h, guestk, agentv, hist, faults, stops>>

Queued(c) ==
  /\ call[c] = "registered"
  /\ hstarted' = TRUE
  /\ gbit /\ HostCanSend
  /\ h2g' = Append(h2g, Request(c))

\* The request is queued and the guest interrupted.
SendOk(c) ==
  /\ Queued(c)
  /\ gipi' = TRUE
  /\ call' = [call EXCEPT ![c] = "sent"]
  /\ UNCHANGED <<looping, ready, pending, argc, chan, deposit, outcome, waiter,
                 hq, hipi, hlost, g2h, gk, gbit, gstarted, gq, agentv, hist,
                 faults, stops>>

MutNotifyFails(c) ==  \* reported as a full queue, though the interrupt got out
  /\ Queued(c)
  /\ Fault
  /\ gipi' = TRUE
  /\ Return(c, "EAGAIN")
  /\ UNCHANGED <<looping, ready, argc, chan, deposit, waiter, hq, hipi, hlost,
                 g2h, gk, gbit, gstarted, gq, agentv, hist, stops>>

\* notify() fails after the request was queued: the caller sees an error.
NotifyFails(c) ==
  /\ Queued(c)
  /\ Fault
  /\ Return(c, "ENODEV")
  /\ UNCHANGED <<looping, ready, argc, chan, deposit, waiter, hq, hipi, hlost,
                 g2h, guestk, agentv, hist, stops>>

\* The select of RoundTrip: an answer, the receiver's end, the deadline.
GetResult(c) ==
  /\ call[c] = "sent"
  /\ chan[c] # None
  /\ Return(c, chan[c])
  /\ UNCHANGED <<looping, ready, argc, chan, deposit, waiter, hostk, h2g, g2h,
                 guestk, agentv, hist, faults, stops>>

SeeReceiverDone(c) ==
  /\ call[c] = "sent"
  /\ looping = "failed"
  /\ Return(c, "receiver")
  /\ UNCHANGED <<looping, ready, argc, chan, deposit, waiter, hostk, h2g, g2h,
                 guestk, agentv, hist, faults, stops>>

Deadline(c) ==
  /\ call[c] = "sent"
  /\ Return(c, "deadline")
  /\ UNCHANGED <<looping, ready, argc, chan, deposit, waiter, hostk, h2g, g2h,
                 guestk, agentv, hist, faults, stops>>

------------------------------------------------------------------------------
(* Host, user space: WaitReady, ForcePeerReady and the receive loop.       *)

WaitReadyReturns(w) ==
  /\ waiter' = w
  /\ early' = (early \/ (w = "ready" /\ ~published /\ ~forced))

WaitReady ==
  /\ waiter = "new"
  /\ Started
  /\ IF ready THEN WaitReadyReturns("ready")
     ELSE waiter' = "waiting" /\ UNCHANGED early
  /\ UNCHANGED <<ready, pending, call, argc, chan, deposit, outcome, hostk, h2g,
                 g2h, guestk, agentv, handled, rc, deposits, published, forced,
                 lost, faults, stops>>

WaitReadyEnds ==
  /\ waiter = "waiting"
  /\ \/ ready /\ WaitReadyReturns("ready")
     \/ looping = "failed" /\ WaitReadyReturns("receiver")
     \/ WaitReadyReturns("deadline")
  /\ UNCHANGED <<looping, ready, pending, call, argc, chan, deposit, outcome,
                 hostk, h2g, g2h, guestk, agentv, handled, rc, deposits,
                 published, forced, lost, faults, stops>>

\* The engine asks again, for the next pod with this peer id.
WaitReadyAgain ==
  /\ waiter \in {"ready", "snapshot", "receiver", "deadline"}
  /\ stops > 0
  /\ waiter' = "new"
  /\ UNCHANGED <<looping, ready, pending, call, argc, chan, deposit, outcome,
                 hostk, h2g, g2h, guestk, agentv, hist, faults, stops>>

\* Snapshot boot: the end of the restore command counts as ready, and the
\* first container's creation forces the flag.
SkipWaitReady ==
  /\ waiter = "new"
  /\ Fault
  /\ waiter' = "snapshot"
  /\ forced' = TRUE
  /\ UNCHANGED <<looping, ready, pending, call, argc, chan, deposit, outcome,
                 hostk, h2g, g2h, guestk, agentv, handled, rc, deposits,
                 published, lost, early, stops>>

ForcePeerReady ==
  /\ waiter = "snapshot"
  /\ ~ready
  /\ Started
  /\ ready' = TRUE
  /\ UNCHANGED <<pending, call, argc, chan, deposit, outcome, waiter, hostk,
                 h2g, g2h, guestk, agentv, hist, faults, stops>>

\* The first system call registers the handlers (mkct_ensure_started).
LoopEnters ==
  /\ looping = "running"
  /\ ~hstarted
  /\ hstarted' = TRUE
  /\ UNCHANGED <<hostu, hq, hipi, hlost, h2g, g2h, guestk, agentv, hist, faults,
                 stops>>

MutLoopReceivesOk ==  \* only successes complete their call
  /\ looping = "running"
  /\ hstarted /\ deposit = {}
  /\ hq # <<>>
  /\ hq' = Tail(hq)
  /\ LET m == Head(hq)
     IN  /\ ready' = (ready \/ m.kind = "READY")
         /\ IF m.kind = "RESPONSE" /\ m.id \in pending /\ m.status = "0"
              THEN /\ pending' = pending \ {m.id}
                   /\ deposit' = {<<m.id, m.status>>}
              ELSE UNCHANGED <<pending, deposit>>
  /\ UNCHANGED <<looping, call, argc, chan, outcome, waiter, hstarted, hipi,
                 hlost, h2g, g2h, guestk, agentv, hist, faults, stops>>

MutLoopReceives ==  \* an answer goes to any pending call and it stays pending
  /\ looping = "running"
  /\ hstarted /\ deposit = {}
  /\ hq # <<>>
  /\ hq' = Tail(hq)
  /\ LET m == Head(hq)
     IN  /\ ready' = (ready \/ m.kind = "READY")
         /\ IF m.kind = "RESPONSE" /\ pending # {}
              THEN \E c \in pending : deposit' = {<<c, m.status>>}
              ELSE UNCHANGED deposit
  /\ UNCHANGED <<looping, pending, call, argc, chan, outcome, waiter, hstarted,
                 hipi, hlost, h2g, g2h, guestk, agentv, hist, faults, stops>>

\* mkct_recv returns a message and handleInbound looks up its call.
LoopReceives ==
  /\ looping = "running"
  /\ hstarted /\ deposit = {}
  /\ hq # <<>>
  /\ hq' = Tail(hq)
  /\ LET m == Head(hq)
     IN  /\ ready' = (ready \/ m.kind = "READY")
         /\ IF m.kind = "RESPONSE" /\ m.id \in pending
              THEN /\ pending' = pending \ {m.id}
                   /\ deposit' = {<<m.id, m.status>>}
              ELSE UNCHANGED <<pending, deposit>>
  /\ UNCHANGED <<looping, call, argc, chan, outcome, waiter, hstarted, hipi,
                 hlost, h2g, g2h, guestk, agentv, hist, faults, stops>>

\* failReceiver: every pending call gets the error, recvDone is closed.
LoopFails ==
  /\ looping = "running"
  /\ hstarted /\ deposit = {}
  /\ Fault
  /\ looping' = "failed"
  /\ deposit' = {<<c, "receiver">> : c \in pending}
  /\ pending' = {}
  /\ UNCHANGED <<ready, call, argc, chan, outcome, waiter, hostk, h2g, g2h,
                 guestk, agentv, hist, stops>>

\* ch <- result, after the mutex was released; blocks on a full channel.
LoopDeposits ==
  \E d \in deposit :
    /\ chan[d[1]] = None
    /\ chan' = [chan EXCEPT ![d[1]] = d[2]]
    /\ deposits' = [deposits EXCEPT ![d[1]] = @ + 1]
    /\ deposit' = deposit \ {d}
    /\ UNCHANGED <<looping, ready, pending, call, argc, outcome, waiter, hostk,
                   h2g, g2h, guestk, agentv, handled, rc, published, forced,
                   lost, early, faults, stops>>

------------------------------------------------------------------------------
(* The two kernels: mkring hands every message to mkring_demux_rx_cb, which *)
(* finds a handler only after the first system call; mkct_demux_rx appends *)
(* to the channel's queue, or drops the message when it has no memory.     *)

MutHostInterrupt ==  \* takes only messages that answer a request
  /\ hipi
  /\ hipi' = FALSE
  /\ g2h' = <<>>
  /\ hq' = IF hstarted THEN hq \o SelectSeq(g2h, LAMBDA m : m.id # None) ELSE hq
  /\ UNCHANGED <<hostu, hstarted, hlost, h2g, guestk, agentv, hist, faults, stops>>

HostInterrupt ==
  /\ hipi
  /\ hipi' = FALSE
  /\ g2h' = <<>>
  /\ \/ hq' = (IF hstarted THEN hq \o g2h ELSE hq) /\ UNCHANGED <<lost, faults>>
     \/ /\ hstarted /\ g2h # <<>> /\ Fault
        /\ hq' = hq \o Tail(g2h)
        /\ lost' = TRUE
  /\ UNCHANGED <<hostu, hstarted, hlost, h2g, guestk, agentv, handled, rc,
                 deposits, published, forced, early, stops>>

GuestInterrupt ==
  /\ gipi
  /\ gipi' = FALSE
  /\ IF gk = "up"
       THEN /\ h2g' = <<>>
            /\ \/ /\ gq' = IF gstarted THEN gq \o h2g ELSE gq
                  /\ UNCHANGED <<lost, faults>>
               \/ /\ gstarted /\ h2g # <<>> /\ Fault
                  /\ gq' = gq \o Tail(h2g)
                  /\ lost' = TRUE
       ELSE UNCHANGED <<h2g, gq, lost, faults>>
  /\ UNCHANGED <<hostu, hostk, g2h, gk, gbit, gstarted, agentv, handled, rc,
                 deposits, published, forced, early, stops>>

\* The guest kernel boots: its ready bit, then its queues, which start after
\* what was sent meanwhile; the host never gets those descriptors back.
GuestBoots ==
  /\ gk = "off"
  /\ gk' = "bit"
  /\ gbit' = TRUE
  /\ UNCHANGED <<hostu, hostk, h2g, g2h, gstarted, gq, gipi, agentv, hist,
                 faults, stops>>

GuestUp ==
  /\ gk = "bit"
  /\ gk' = "up"
  /\ hlost' = hlost + Len(h2g)
  /\ h2g' = <<>>
  /\ agent' = "create"
  /\ UNCHANGED <<hostu, hstarted, hq, hipi, g2h, gbit, gstarted, gq, gipi, req,
                 resp, hist, faults, stops>>

\* The engine stops the guest kernel once WaitReady is over, wherever the agent
\* is; the ready bit stays set.
GuestStops ==
  /\ gk # "off"
  /\ waiter \notin {"new", "waiting"}
  /\ faults + stops < MaxFaults
  /\ stops' = stops + 1
  /\ gk' = "off"
  /\ gstarted' = FALSE
  /\ gq' = <<>>
  /\ gipi' = FALSE
  /\ agent' = "off"
  /\ req' = None
  /\ resp' = None
  /\ published' = FALSE
  /\ UNCHANGED <<hostu, hostk, h2g, g2h, gbit, handled, rc, deposits, forced,
                 lost, early, faults>>

------------------------------------------------------------------------------
(* The agent.                                                              *)

\* Append to the queue to the host, or fail: -EAGAIN, or queued without an
\* interrupt.  After a failure the agent process ends.
AgentSends(m, next) ==
  \/ /\ GuestCanSend
     /\ g2h' = Append(g2h, m)
     /\ hipi' = TRUE
     /\ agent' = next
     /\ UNCHANGED faults
  \/ /\ GuestCanSend /\ Fault
     /\ g2h' = Append(g2h, m)
     /\ agent' = "dead"
     /\ UNCHANGED hipi
  \/ /\ ~GuestCanSend
     /\ agent' = "dead"
     /\ UNCHANGED <<g2h, hipi, faults>>

\* mkga_mkring_transport_create publishes READY.
AgentCreates ==
  /\ agent = "create"
  /\ gstarted' = TRUE
  /\ AgentSends(READY, "recv")
  /\ published' = (g2h' # g2h)
  /\ UNCHANGED <<hostu, hstarted, hq, hlost, h2g, gk, gbit, gq, gipi, req, resp,
                 handled, rc, deposits, forced, lost, early, stops>>

\* mkga_mkring_receive; a timeout only goes round the loop.
AgentReceives ==
  /\ agent = "recv"
  /\ gq # <<>>
  /\ gq' = Tail(gq)
  /\ req' = Head(gq)
  /\ agent' = IF Decodes(Head(gq)) THEN "handle" ELSE "dead"
  /\ UNCHANGED <<hostu, hostk, h2g, g2h, gk, gbit, gstarted, gipi, resp, hist,
                 faults, stops>>

\* mkga_agent_handle runs the operation and fills in the answer.
AgentHandles ==
  /\ agent = "handle"
  /\ \E e \in Rc :
       /\ resp' = Response(req, e)
       /\ rc' = [rc EXCEPT ![req.id] = e]
  /\ handled' = [handled EXCEPT ![req.id] = @ + 1]
  /\ agent' = "send"
  /\ UNCHANGED <<hostu, hostk, h2g, g2h, guestk, req, deposits, published,
                 forced, lost, early, faults, stops>>

MutAgentAnswers ==  \* goes back to the request after a full queue
  /\ agent = "send"
  /\ IF GuestCanSend THEN AgentSends(resp, "recv")
     ELSE agent' = "handle" /\ UNCHANGED <<g2h, hipi, faults>>
  /\ UNCHANGED <<hostu, hstarted, hq, hlost, h2g, guestk, req, resp, hist, stops>>

AgentAnswers ==
  /\ agent = "send"
  /\ AgentSends(resp, "recv")
  /\ UNCHANGED <<hostu, hstarted, hq, hlost, h2g, guestk, req, resp, hist, stops>>

\* A signal sets stop_flag and interrupts the receive.
AgentSignalled ==
  /\ agent = "recv"
  /\ Fault
  /\ agent' = "dead"
  /\ UNCHANGED <<hostu, hostk, h2g, g2h, guestk, req, resp, hist, stops>>

CallerStep(c) ==
  \/ Begin(c) \/ SendRefused(c) \/ SendOk(c) \/ NotifyFails(c)
  \/ GetResult(c) \/ SeeReceiverDone(c)

HostStep  == LoopEnters \/ LoopReceives \/ LoopDeposits \/ HostInterrupt
GuestStep == GuestInterrupt \/ GuestBoots \/ GuestUp
AgentStep == AgentCreates \/ AgentReceives \/ AgentHandles \/ AgentAnswers

Next ==
  \/ \E c \in Call : CallerStep(c) \/ Deadline(c)
  \/ WaitReady \/ WaitReadyEnds \/ WaitReadyAgain
  \/ SkipWaitReady \/ ForcePeerReady
  \/ HostStep \/ LoopFails
  \/ GuestStep \/ GuestStops
  \/ AgentStep \/ AgentSignalled

Spec == Init /\ [][Next]_vars

\* Goroutines and the agent run, interrupts are delivered, a kernel that was
\* started boots and handlers return (every ctr command has a timeout).
\* Deadlines need not expire.
FairSpec ==
  /\ Spec
  /\ \A c \in Call : WF_vars(CallerStep(c))
  /\ WF_vars(LoopEnters) /\ WF_vars(LoopReceives) /\ WF_vars(LoopDeposits)
  /\ WF_vars(HostInterrupt)
  /\ WF_vars(GuestInterrupt) /\ WF_vars(GuestBoots \/ GuestUp)
  /\ WF_vars(AgentStep)

------------------------------------------------------------------------------
(* Properties.                                                             *)

TypeOK ==
  /\ looping \in {"none", "running", "failed"}
  /\ pending \subseteq Call
  /\ call \in [Call -> {"new", "registered", "sent", "done"}]
  /\ waiter \in {"new", "waiting", "ready", "snapshot", "receiver", "deadline"}
  /\ gk \in {"off", "bit", "up"}
  /\ agent \in {"off", "create", "recv", "handle", "send", "dead"}
  /\ Len(h2g) + hlost <= Cap
  /\ Len(g2h) <= Cap

Failures == {"encode", "receiver", "ENOLINK", "EAGAIN", "ENODEV", "deadline"}

\* An answer belongs to its own request: when RoundTrip returns one, the agent
\* ran that request and the status is that run's, whatever answers come late
\* for calls that gave up (completePending looks the id up and deletes it).
AnswerIsMine ==
  \A c \in Call : outcome[c] \notin Failures \cup {None}
    => handled[c] = 1 /\ outcome[c] = Status(rc[c])

\* No request is run twice, through failing notifications, full queues, and
\* guests that stop and boot again in the middle.
HandledAtMostOnce == \A c \in Call : handled[c] <= 1

\* A send the kernel refuses (no link, no descriptor) and a request that does
\* not encode are never run, so the caller may try them again.
RefusedNotRun ==
  \A c \in Call : outcome[c] \in {"encode", "ENOLINK", "EAGAIN"} => handled[c] = 0

\* A call's one-slot channel gets one result at most: a second one would block
\* the receive loop, and with it every call.
OneResultPerCall == \A c \in Call : deposits[c] + Cardinality({d
    \in deposit : d[1] = c}) <= 1

Undisturbed == agent # "dead" /\ ~lost /\ stops = 0 /\ ~forced

\* A call returns without help from its deadline: it is refused, answered, or
\* woken by the receiver's end, unless the agent or its kernel died under it, a
\* message was dropped, or a snapshot took the place of READY.
EveryCallSettles ==
  \A c \in Call : call[c] # "new" ~> (call[c] = "done" \/ ~Undisturbed)

\* A READY sent while the host's handlers are registered reaches WaitReady.
ReadyArrives ==
  (hstarted /\ hipi /\ g2h # <<>> /\ Head(g2h).kind = "READY")
    ~> (ready \/ lost \/ looping = "failed")

\* WaitReady returns only when the agent of the running guest has announced
\* itself or a snapshot was restored (markReady).
WaitReadyMeansReady == ~early
==============================================================================
