# Verification of MKSandbox

TLA+ models, TLC runs and TLAPS proofs for a container runtime that boots one
kernel per pod. The models are translated from the code; the documents are
used only to state what the code is said to do.

## The system

| Part | Code | State | Operations | Talks to |
|---|---|---|---|---|
| mkring queue | `mkring/mkring.c` | per direction: descriptors, avail and used rings, 16-bit indices; private indices, bitmap, credits; local receive list | send (reclaim, enqueue, notify), interrupt, receive | the same queue on the other kernel, through shared memory and interrupts |
| mkring boot | `mkring.c`, `init_mk.c` | shared header: `init_state`, ready bitmap | init, exit, queue set-up | all kernels |
| transport syscall, demultiplexer | `mkring_transport_syscall.c`, `mkring_demux.c` | receive queue per peer and channel | send, blocking receive, dispatch | mkring, user processes |
| control transport (host) | `pkg/transport/mkringcontrol`, `pkg/agent` | pending requests, ready peers | WaitReady, RoundTrip, receive loop | syscall, Engine |
| Engine | `pkg/runtime/engine.go` | pods, kernels, containers, cleanup and stop claims, monitors, log offsets | the CRI calls, the monitor goroutine | control transport, process manager, allocators |
| process manager, allocators | `pkg/kernel`, `pkg/util` | started kernels; free list and next value | start, stop; allocate, release | Engine, external commands |
| guest agent and runtime | `mk-guest-agent/src` | exec sessions; state, metadata and log file of each container | serve loop, create, start, stop, remove, status, read log, exec | control transport, containerd |
| exec streaming | `pkg/streaming` | tokens, sessions, bounded channels | open, stdin, output, exit | CRI client, channel 3 |
| CRI server, network proxy, commands | `pkg/cri`, `cmd` | none; connection table; none | translation; proxying; start-up | Engine; channel peers |

What makes it hard: two kernels race on shared memory with indices that wrap;
RPC handlers and monitors release `Engine.mu` around every remote call and
use afterwards what they read before; a monitor runs the same StopPod an RPC
runs, and StopContainer cancels and waits for the monitor; remote calls and
commands fail with or without their effect; in the guest, forked processes and
threads share the agent's files, descriptors and containerd.

What should hold: messages cross a queue once, in order and intact;
descriptors, addresses and peer ids are conserved; cleanups exclude each
other; a cancelled monitor has no more effect; an exited container's pod is
stopped in the end; a stopped pod has no kernel; kernels that share memory
agree on its layout; an answer reaches the call that asked, and no request runs
twice; the guest's state and log files tell the truth about the container; a
session's terminal is its own.

## Modules

- `MkringQueue`: one queue, one action per shared-memory access. `tx_lock` and
  `proc_lock` are a program counter each (`txpc`, `rxpc`); `to_notify` counts
  senders between unlock and `notify()`. Payloads are message numbers. `sent`,
  `taken` and `reclaimed` are history variables.
- `MkringChannel`: the bounded FIFO channel the queue promises to be.
- `MkringQueueProofs`: the theorems.
- `Engine`: Engine, process manager and the allocators' free sets. Threads are
  RPC callers (`Caller`) and monitors (`Mon`); a step is what runs between two
  releases of `Engine.mu`, or one outside call. `loc[t]` holds a thread's
  program counter and locals. StopPod, StopContainer, RemoveContainer and
  RefreshContainerStatus are entered by an RPC or by the code that calls them,
  and return to it. A start command that fails may leave the kernel running.
  StopPod looks its container up again where the code keeps the object found at
  its entry, which differs only when the container was removed and created again
  in between. A guest is one state per container. Requests that the
  first check refuses change nothing and are left out.
- `MkringLayout`: the arithmetic of the shared area, in 32-bit words: offsets
  inside a queue, index and offset of a queue. `Word` is 2^32 in the code.
- `MkringBoot`: `init_mk` and `mkring_init` of all kernels, one step per access
  to the shared header (`pc[k]`), against memory an earlier boot left. A
  command line is a record that gives each parameter as the set of its accepted
  values. Kernel 0 is the host; guests start when its `init_mk` has returned,
  stop at any point and boot again, over whatever is in flight. A queue is seen
  through its indices. A booting sender has all its descriptors again, those of
  messages not yet read included: the history variable `leftover` counts these,
  and while there are any a reclaim may find in-flight bits clear or set for
  another message (`Reclaims`).
- `ControlPlane`: callers of RoundTrip and WaitReady, the host's receive loop,
  the transport system call and demultiplexer of both kernels, the agent's
  serve loop, for one peer id. The two mkring queues are bounded channels,
  which `MkringQueue` implements (`ImplementsChannel`). Between the ready bit
  and the set-up of the queues a message is skipped and its descriptor lost
  (`hlost`). An operation is whatever its runtime returns (`Rc`); its error goes
  through the names and numbers of both ends (`Status`).
- `GuestRuntime`: the containerd runtime for one container id: create, start,
  stop, remove, status, read log, against the exit watcher or the log runner
  (`aux[l]`, one per life of the container). One step is one `ctr` command or
  one file operation. The host forgets the container when it has asked for its
  removal, whatever the answer (`Forgotten`), and may create it again. `via_run`
  chooses between the two modes; `scripts/init` deploys the one with the runner.
  A container may be started again, which nothing refuses, and every write of
  the state file may fail after the truncation. `blind`, `stale`, `early`,
  `clobbered`, `cut`, `again` and `torn` record which of the races and failures
  below has happened.
- `ExecStream`: terminal sessions: the agent thread, pump and waiter of each
  session, the input reader. Descriptors are small numbers that are used again,
  by terminals only; session ids, which the code makes from the clock in
  milliseconds, are taken to be distinct. The exit packet may fail to be sent
  (`unsent`).
- `CriLog`: how the runner cuts output into log records.
- `MkringBootProofs`, `ControlPlaneProofs`, `GuestRuntimeProofs`,
  `ExecStreamProofs`: the theorems about the four.
- `EngineInvariant`, `EngineProofs`, `EngineShield`: the inductive invariant of
  the Engine with the steps of RunPod and the quiet steps; the other steps and
  the theorems; the theorem about StopContainer.
- `MCMkringQueue`, `MCEngine`, `MCMkringBoot`, `MCControlPlane`, `MCGuest`: the
  instances. `MCGuest` holds the three guest modules, which share no state, and
  moves one of them in each behaviour.

Operators whose names begin with `Mut` are faulty versions of the definition
that follows; each breaks one property and shows that the property is not
vacuous.

## Runs

| Run | Question | Result |
|---|---|---|
| `queue` | `N` = 2, `W` = 4, five messages: types, the inductive invariant, credits, order, bitmap, no overwriting, refinement of the channel, draining after an interrupt, retried sends | holds |
| `queue_desc_num` | `N` = 3 with `W` = 4: are credits exact when `desc_num` does not divide the index range? | violated |
| `engine_pods` | two clients, two pods, one container, faults, six calls: exclusive cleanup, conserved addresses and peer ids | holds |
| `engine_monitor` | two clients, one container, two monitors, faults, six calls: no stray monitor, StopContainer shielded | holds |
| `engine_cleanup` | one client issuing calls in sequence, no faults, eight calls: auto cleanup | holds |
| `engine_stop_race` | the same property when StopPod is issued too | violated: deadlock |
| `engine_kernel_left` | is the kernel of a stopped pod stopped? | violated |
| `engine_two_creates` | one container per kernel | violated |
| `boot` | three kernels, eight good and bad command lines, five areas to find, two messages, one stop: types, one layout, no initialisation under a running host, good guests get up, no ghost ready bits, backlog within the ring and what was forgotten, queues apart | holds |
| `control` | two calls, one descriptor, one fault or stop: types, own answer, at most one run, refused means not run, one result per call, every call settles, READY arrives | holds |
| `control_stale_ready` | does WaitReady wait for the kernel that boots now? | violated |
| `guest` | two lives of a container with repeated starts and faults; two sessions on two descriptors, two starts, one failing thread or exit packet; every output of up to five and one characters with a buffer of two: the properties of the three guest modules | holds |

Some properties hold only up to races and failures the code has. Their statements
name the exceptions, so each says how far the promise goes:

- `StopMeansStopped`, `RemoveIsComplete`: with the runner, a stop or remove that
  comes before the runner's `ctr run` has created the task finds nothing
  (`-ENOENT`) and succeeds; the container then starts (`blind`).
- `ExitReported`: status_container reads the file, asks containerd, writes the
  file. With the runner, a RUNNING written over EXITED stays (`clobbered`), as
  does that of a second start (`again`), and a runner that an earlier stop or
  remove missed (`blind`) disturbs the next container. In both modes a failed
  write, which no writer of EXITED looks at, leaves an empty file, and every
  later status request fails (`torn`).
- `NoFalseExit`: a watcher or runner that outlives the removal writes EXITED
  into the next container's file (`stale`); with the runner, so does one that a
  remove has missed (`blind`), one that cannot write its log and ends (`cut`),
  and the runner of a second start, whose `ctr run` containerd refuses
  (`again`).
- `EofMeansAll`: the agent's own EXITED, after a stop or a status query, comes
  before the runner has drained the pipes (`early`); the second start unlinks
  the log and its runner writes EXITED (`again`); and the cases `stale`, `blind`
  and `cut`.
- `ExitAnnounced`: the waiter drops the result of `mkga_stream_send_exit`; a
  packet that fails is not sent again (`unsent`).
- `BacklogWithinRing` (run `boot`): a kernel that boots while its messages are
  in flight can fill the ring again over them (`leftover`).
- `OwnTerminal` is about running sessions: pump, reader and resize of a session
  that has ended may use a number they copied before, which by then may be
  another session's. A session started again after a failed start may meet the
  pump of its first start.
- `LogFaithful` compares the records with the lines written, empty lines
  excepted: the flush drops them.

Bounds. In the queue five messages wrap both the two slots and the four index
values. The proofs remove the bound for safety. In the Engine, six calls are
enough for a pod to be run, used, stopped by one client and removed by another;
two monitors are enough for a cancelled one and its successor. When both are
busy, a third replacement waits for one to end. In `boot` one descriptor and
two messages fill a ring and send again after a stop, over the first; two guests are enough for
two kernels that initialise at once when the host's own initialisation failed,
and the lines hold each way a parameter can be wrong. `Word` is 2^20 there, so
that a layout can overflow it. In `control` two calls share a queue of one:
the second meets the full ring, and a late answer meets another's wait; each
behaviour has one fault or one stop. In `guest` two lives are enough for a
process of the first to meet the second, and one life for a runner to meet that
of a second start; two descriptors are enough for one to be used again. `engine_pods` and
`engine_monitor` identify states that differ by the names of callers,
monitors, addresses or peer ids.

`engine_monitor` leaves out RemoveContainer, which cancels a monitor without
waiting for it; with it `StopShielded` does not hold. `engine_cleanup` uses a
guest that refuses to start a container twice (`StartViaRun` false) and one
client: overlapping starts, creates and status queries open the deadlock of
`engine_stop_race` by other paths. Deadlock checking is off because clients
may stop calling; the deadlock is found as a failure of `AutoCleanup`.

Fairness. A kernel thread inside a spinlock section runs on; a pending
interrupt is taken; an enqueued message's sender reaches `notify()`; a refused
client retries. `RetriedSendSucceeds` assumes in its statement that the
receiver's handler keeps running, since a failed `notify()` raises no
interrupt of its own. Engine threads run on; a cancelled monitor that reaches
its `select` again and again takes the `ctx.Done` branch in the end, as Go
chooses among ready cases at random. In `control`
every started process runs on, pending interrupts are taken and a started guest
kernel boots; deadlines never have to fire. `EveryCallSettles` says in its
statement what may disturb it: a dead agent, a stopped kernel, a dropped
message, a snapshot. In `guest` the agent, the forked processes and the
session threads run on, a hung-up child ends, and the host's monitor asks for
the status again and again (strong fairness: the agent is idle again and again
between requests). Fairness is stated for the forked processes together, and for
the waiters together: each takes a bounded number of steps, so none keeps the
others back for ever. Nothing forces clients to call or container processes to
end, with or without a signal.

## Disagreements between code and documents

1. `desc_num` may be any non-zero 16-bit value, but slots are `idx % desc_num`
   of a 16-bit index: unless `desc_num` divides 65536, slots collide at the
   wrap and a descriptor is lost (`queue_desc_num`). The default, 256, is safe.
2. StopPod waits for the monitor while the monitor waits for StopPod
   (`engine_stop_race`).
3. A cancelled stop command loses the kernel's record; the next StopPod
   succeeds without stopping it and frees its peer id (`engine_kernel_left`).
4. Two overlapping CreateContainer calls both succeed (`engine_two_creates`).
5. The ready mark of a peer is never cleared, and peer ids are used again:
   WaitReady returns at once for the next kernel of that id, before its agent
   has sent READY (`control_stale_ready`).

## Proofs

All theorems of `MkringQueueProofs` assume `QueueAssumption` and that `N`
divides `W`; they hold for every `N`, `W` and number of messages.

The safety properties are not inductive: that the receiver copies the right
payload depends on who owns each descriptor, which depends on the slots the
16-bit indices stand for. `IInv` therefore ties the indices to the true counts
modulo `W` (`IndexInv`), the credits to the counts (`CreditsExact`), and each
descriptor in flight to the message it holds, in whichever ring it is
(`OwnershipInv`). Slots of counts less than `N` apart differ (`SlotsDiffer`),
so a ring write never hits a live slot; this is where `N` divides `W` is used.
There is one lemma per action. Types, credits, order, no overwriting and the
agreement of bitmap and credits follow, and so does the refinement: under
`IInv` the abstract channel is the run of messages from the first not copied
to the last published (`ChanIsRun`).

`MkringBootProofs` assumes `BootAssumption` (the host is kernel 0, ids are below
32), `LinesAssumption` (parsed parameters have their types), `IdsAssumption` (a
kernel is named by the id of its command line, if that is accepted) and
`StaleAssumption` (words and indices found in memory are words and indices);
kernels, command lines, found memory, messages and stops are arbitrary. That running kernels agree on
the layout is not inductive: it depends on who may still write the header.
`BootInv` adds that no guest runs before the host's `init_mk` has returned
(`HostFirst`), that the area the host goes on with is READY and its own
(`HostArea`), that beside it no guest is on the initialising path and those past
the compatibility test agree with the header (`GuestsFollow`), and that
parameters which passed the tests fit (`Fitting`). `ConfigsAgree`,
`CompatibleBootSucceeds`, `NoGhostPeer` and `NoReinit` follow. `QueuesApart`
also needs the arithmetic: queue indices are a bijection (`QindexRange`,
`QindexApart`), and a queue fits its rounded size (`QueueFits`). It has the
premise that the rounding does not wrap, which no test in the code ensures.
`BacklogWithinRing` needs to know more of the queues: a kernel counts itself
among the peers (`Counted`), no receiver is ahead of its queue (`Behindhand`), and
the credits a sender has or can reclaim, together with the messages its receiver
has yet to read, never exceed `desc_num` and the messages the sender's set-up
forgot, where the receiver's part counts from the moment it has set the queue up
(`Room`). The same index facts give `TypeOK`.

`ControlPlaneProofs` assumes `ControlAssumption` (the two bounds are numbers,
`None` is nothing else); calls, queue length, faults and stops are arbitrary. `ControlInv` says that a request is in one place at most,
on its way, in the guest's kernel or in the agent's hands, and is unrun there
(`OnePlace`), that one never queued was never run (`Unsent`), that every status
on its way back is that of its request's run (`Faithful`), and that a pending
call has no result yet (`Once`). `AnswerIsMine`, `HandledAtMostOnce`,
`RefusedNotRun` and `OneResultPerCall` follow. For `TypeOK` it adds `Places`:
messages and lost descriptors of a queue are together at most `Cap`.

`EngineProofs` assumes `EngineAssumption` (each container has its pod, `None` is
nothing else, callers are not monitors); pods, containers, callers, monitors,
addresses, ids, calls and faults are arbitrary. That an address has one owner
depends on what a thread remembers after it released `Engine.mu`. `EngineInv`
therefore says what the locals hold at each program counter (`Scope`), that the
claim sets cover the threads inside (`Claimed`), that a pod belongs to one
RunPod until it is registered and only registered pods are cleaned up (`Born`),
that a cleanup remembers the address its pod still has (`Known`), that a monitor
about to be launched waits for one thread (`Fresh`), and that addresses and ids
that are not free have exactly one holder, a pod or a thread (`IpApart`,
`IpSomewhere`, `IdApart`, `IdSomewhere`). `EngineInvariant` has the invariant,
a lemma per conjunct on what a step of one thread leaves alone, the steps
that are quiet, taking no claim and moving nothing, and the other steps of
RunPod; `EngineProofs` those of StopPod, RemovePod, StopContainer,
RemoveContainer and the monitors. `TypeOK`, `CleanupExclusive`, `IpConserved`,
`PeerIdConserved` and `NoStrayMonitor` follow.

`StopShielded` (in `EngineShield`) has the premise that clients do not call RemoveContainer, which
cancels a monitor and waits for nobody; RemovePod may call it. StopContainer
waits for one monitor, the registered one, and a monitor that was replaced may
still be in its cleanup. It is safe because the replacement starts only when the
replaced monitor has ended: `Behind(m, x)` says that a wait for `x` is a wait for
`m`, through any number of replacements that are not launched yet. `Shield` says
that a monitor past its test of `containerStop` is waited for in this sense, by
the StopContainer that holds the container or, when none does, by whoever takes
the registered monitor; or RemovePod has dropped the container, and the
monitor's StopPod will be turned away. `Lanes` ties the monitor to the pod of its
container. A step that registers, launches or ends no monitor and takes no
container is `Passive`, and `PassiveKeeps` treats all of them at once.

`ExecStreamProofs` assumes `ExecConstants`; sessions, descriptors, starts and
failing threads are arbitrary. That a terminal is a session's own depends on
descriptors that were copied and on descriptors that are used again. `ExecInv`
says that a session has a terminal exactly while it runs and that it is its own
(`Owned`), that a start under way holds its terminal and has no waiter yet
(`Starting`), that an open descriptor names the session that holds it (`Named`),
and that what pump, reader and resize have copied is the
descriptor of the session's only start (`Copies`). `TerminalsHeld`,
`OwnTerminal` and `ClosedStays` follow.

`GuestRuntimeProofs` assumes `GuestConstants`; lives, failures and records are
arbitrary, and so is the mode. `GuestInv` says what the agent knows of containerd
at each program counter (`Agent`), when a runner may still start its container
after a stop or a remove (`Pending`), that without the races the history
variables record the forked processes belong to the container that is there
(`Current`; a second start is one of these races, `again`), what the state file can say meanwhile (`Runner`, `Watcher`,
`Exits`), and how log, offset and output of a life are related (`LogInv`).
`StopMeansStopped`, `RemoveIsComplete`, `NoFalseExit` and `EofMeansAll` follow,
with the exceptions named above.

`BootInv`, `ControlInv`, `EngineInv`, `Shield` and `Lanes` (with RemovePod among
the calls), `ExecInv` and `GuestInv` were also checked with TLC, on the instances
of `boot`, `control`, `engine_pods`, `engine_monitor` and `guest`. tlapm needs
between one and ten minutes for a module.

Only model-checked: liveness (`DrainedAfterIpi`, `RetriedSendSucceeds`,
`AutoCleanup`, `EveryCallSettles`, `ReadyArrives`, `ExitReported`,
`ExitAnnounced`), since the prover has no rule for fairness; and
`LogFaithful`, because what the runner's cutting yields for every output is an
induction over the output.

## Not modelled

- Weak memory: shared memory is sequentially consistent; the code's barriers
  are taken to order its accesses. Receive callbacks of `mkring_send`'s peers
  are modelled only through the demultiplexer.
- Formats: digits of the command line, byte layouts of control messages, `ctr`
  arguments, JSON and time stamps. They are conversions without state; one
  bounded count and the error numbers stand for the message fields.
- Guest runtime: configure_env, configure_network, image pulls, ping, exit codes
  and times. Each is one request without concurrent state, except that a
  status query which finds the task stopped records exit code 0.
- The Engine's log offsets and exec calls. `GuestRuntime` has the host's offset
  and eof for a host that never fails; a retry after a failed write to the
  host's log file is not modelled.
- Host streaming (`pkg/streaming`), CRI server, network proxy, commands: library
  I/O around the Engine and the channels. Channels 2 to 4 use the same kernel
  code as the modelled channel 1.
- `runtime_memory.c`, `transport_stub.c`, `mock_client.go`: test doubles.
- `mkring_demux_exit` and `mkring_exit` have no caller; the model of the boot
  has `mkring_exit` all the same, as an exported function.
- The order in which the allocators give values again: the free sets of `Engine`
  allow every order.

What would come next: the log offsets of SyncContainerLogs on top of
`GuestRuntime`; the bounded channels of the streaming bridge.
