-------------------------------- MODULE Engine --------------------------------
(***************************************************************************)
(* The host runtime (mk-container/pkg/runtime/engine.go): pods, the kernel *)
(* of each pod, containers, and the monitor goroutine that follows every   *)
(* started container and stops its pod when it has exited.                 *)
(*                                                                         *)
(* Every RPC handler and every monitor is a thread.  A step is what runs   *)
(* between two releases of Engine.mu, or one call to the outside: the      *)
(* guest agent, the kernel manager, an allocator.  Pod and kernel ids are  *)
(* fresh for every RunPod, so a kernel is named after its pod; the id of a *)
(* container is a function of its pod and name (the guest derives it), so  *)
(* creating a removed container again reuses its id.                       *)
(***************************************************************************)
EXTENDS Naturals

CONSTANTS
  Pod, Ctr, CtrPod,   \* CtrPod[c]: the pod container c belongs to
  Caller,             \* threads of the CRI server
  Mon,                \* bound: monitor goroutines that exist at a time
  PeerId, Ip,         \* what the two allocators hand out
  Ops,                \* the RPCs the callers issue
  StartViaRun,        \* the guest's start_via_run: "ctr run" at each start
  Faults,             \* whether remote calls and start/stop commands may fail
  MaxCalls,           \* bound: RPCs issued in a run
  None

ASSUME EngineAssumption ==
  /\ CtrPod \in [Ctr -> Pod]
  /\ Caller \cap Mon = {}
  /\ None \notin Ctr \cup Mon \cup PeerId \cup Ip \cup Pod
  /\ Faults \in BOOLEAN /\ StartViaRun \in BOOLEAN
  /\ MaxCalls \in Nat
  /\ Ops \subseteq {"RunPod", "StopPod", "RemovePod", "CreateContainer",
                    "StartContainer", "StopContainer", "RemoveContainer",
                    "RefreshContainerStatus"}

VARIABLES
  podState, podIP, kernels, containers, podToContainer, logEOF,
  podCleanup, containerStop,
  monitors,       \* container -> its current monitor
  cancelled,      \* monitors whose context is cancelled
  idsFree, ipsFree,
  startedKernels, \* ProcessManager.startedKernels
  live,           \* kernels that really run: pod -> peer id
  guest,          \* what the guest agent reports about a container
  loc,            \* the local variables of every thread
  calls

tables == <<podState, podIP, kernels, containers, podToContainer, logEOF>>
locks  == <<podCleanup, containerStop>>
monv   == <<monitors, cancelled>>
res    == <<idsFree, ipsFree>>
ext    == <<startedKernels, live, guest>>
vars   == <<tables, locks, monv, res, ext, loc, calls>>

Thread == Caller \cup Mon

\* The program counter and the locals of a thread: the container a monitor
\* follows (own), the pod and container worked on, the kernel object (its peer
\* id) and pod IP read at entry, the monitor to wait for, a new monitor to
\* launch, whether there was one, whether StopPod or RemovePod is the caller,
\* the result so far, and a container state read remotely.
AtRest(pc, own) ==
  [pc |-> pc, own |-> own, pod |-> None, ctr |-> None, kern |-> None,
   ip |-> None, mon |-> None, new |-> None, had |-> FALSE, nested |-> FALSE,
   ok |-> TRUE, st |-> "none"]

Init ==
  /\ podState = [p \in Pod |-> "none"]
  /\ podIP = [p \in Pod |-> None]
  /\ kernels = [p \in Pod |-> None]
  /\ containers = [c \in Ctr |-> "none"]
  /\ podToContainer = [p \in Pod |-> None]
  /\ logEOF = [c \in Ctr |-> FALSE]
  /\ podCleanup = {}
  /\ containerStop = {}
  /\ monitors = [c \in Ctr |-> None]
  /\ cancelled = {}
  /\ idsFree = PeerId
  /\ ipsFree = Ip
  /\ startedKernels = {}
  /\ live = [p \in Pod |-> None]
  /\ guest = [c \in Ctr |-> "none"]
  /\ loc = [t \in Thread |-> AtRest(IF t \in Caller THEN "idle" ELSE "off", None)]
  /\ calls = 0

PodExists(p) == podState[p] \in {"ready", "notready"}

Goto(t, pc) == loc' = [loc EXCEPT ![t].pc = pc]

\* A new RPC at an idle caller.
NewCall(t, op) ==
  /\ loc[t].pc = "idle"
  /\ op \in Ops
  /\ calls < MaxCalls
  /\ calls' = calls + 1

\* Thread t enters a handler: by a new RPC, or called from the code that left
\* t at program counter pc.
Enter(t, op, pc) ==
  \/ NewCall(t, op)
  \/ loc[t].pc = pc /\ UNCHANGED calls

\* The pod or container t is called with; free for a new RPC.
PodArg(t, p) == loc[t].pc = "idle" \/ loc[t].pod = p
CtrArg(t, c) == loc[t].pc = "idle" \/ loc[t].ctr = c

\* A handler returns: to the RPC layer, or to the monitor that called it.
Return(t, ok) ==
  loc' = [loc EXCEPT ![t] =
            IF t \in Caller THEN AtRest("idle", None)
            ELSE [AtRest("mn_after", loc[t].own) EXCEPT !.ok = ok]]

\* Remote calls of t to the guest of pod p: answered only while the kernel
\* runs and t's context lives, and failing for no visible reason if Faults.
MaySucceed(t, p) == live[p] # None /\ t \notin cancelled
MayFail(t, p)    == Faults \/ ~MaySucceed(t, p)

------------------------------------------------------------------------------
\* ProcessManager.StartKernel: the start command, then the record.
StartKernel(p, id) ==
  /\ startedKernels' = startedKernels \cup {p}
  /\ live' = [live EXCEPT ![p] = id]
  /\ UNCHANGED guest

\* ProcessManager.StopKernel: the record goes first; then the stop command
\* runs, which a cancelled context prevents or kills.
StopKernel(t, p, ok) ==
  /\ startedKernels' = startedKernels \ {p}
  /\ IF p \notin startedKernels
       THEN ok /\ UNCHANGED live
       ELSE \/ ok /\ t \notin cancelled /\ live' = [live EXCEPT ![p] = None]
            \/ /\ ~ok /\ (Faults \/ t \in cancelled)
               /\ live' \in {live, [live EXCEPT ![p] = None]}
  /\ UNCHANGED guest

------------------------------------------------------------------------------
(* RunPod                                                                  *)

\* A fresh pod id; allocate the peer id, or fail when there is none.
RunPod(t, p) ==
  /\ NewCall(t, "RunPod")
  /\ podState[p] = "none" /\ live[p] = None
  /\ \A u \in Thread : loc[u].pod # p
  /\ \/ idsFree = {} /\ Return(t, FALSE) /\ UNCHANGED idsFree
     \/ \E id \in idsFree :
          /\ idsFree' = idsFree \ {id}
          /\ loc' = [loc EXCEPT ![t].pc = "rp_start", ![t].pod = p,
                                ![t].kern = id]
  /\ UNCHANGED <<tables, locks, monv, ipsFree, ext>>

\* A start command that fails, or that the context ends, may have started the
\* kernel; nothing stops it then.
RunPodStart(t) ==
  /\ loc[t].pc = "rp_start"
  /\ \/ /\ StartKernel(loc[t].pod, loc[t].kern)
        /\ Goto(t, "rp_ready")
        /\ UNCHANGED idsFree
     \/ /\ Faults
        /\ idsFree' = idsFree \cup {loc[t].kern}
        /\ live' \in {live, [live EXCEPT ![loc[t].pod] = loc[t].kern]}
        /\ Return(t, FALSE)
        /\ UNCHANGED <<startedKernels, guest>>
  /\ UNCHANGED <<tables, locks, monv, ipsFree, calls>>

\* Mutant: a failed wait keeps the peer id.
MutRunPodReady(t) ==
  /\ loc[t].pc = "rp_ready"
  /\ \/ \E ip \in ipsFree :
          /\ ipsFree' = ipsFree \ {ip}
          /\ loc' = [loc EXCEPT ![t].pc = "rp_register", ![t].ip = ip]
          /\ UNCHANGED <<idsFree, ext>>
     \/ /\ Faults \/ ipsFree = {}
        /\ \E ok \in BOOLEAN : StopKernel(t, loc[t].pod, ok)
        /\ Return(t, FALSE)
        /\ UNCHANGED res
  /\ UNCHANGED <<tables, locks, monv, calls>>

\* WaitReady (skipped for a snapshot), then the pod IP.  When either fails
\* the kernel is stopped, whatever StopKernel says, and the id given back.
RunPodReady(t) ==
  /\ loc[t].pc = "rp_ready"
  /\ \/ \E ip \in ipsFree :
          /\ ipsFree' = ipsFree \ {ip}
          /\ loc' = [loc EXCEPT ![t].pc = "rp_register", ![t].ip = ip]
          /\ UNCHANGED <<idsFree, ext>>
     \/ /\ Faults \/ ipsFree = {}
        /\ \E ok \in BOOLEAN : StopKernel(t, loc[t].pod, ok)
        /\ idsFree' = idsFree \cup {loc[t].kern}
        /\ Return(t, FALSE)
        /\ UNCHANGED ipsFree
  /\ UNCHANGED <<tables, locks, monv, calls>>

RunPodRegister(t) ==
  /\ loc[t].pc = "rp_register"
  /\ kernels' = [kernels EXCEPT ![loc[t].pod] = loc[t].kern]
  /\ podState' = [podState EXCEPT ![loc[t].pod] = "ready"]
  /\ podIP' = [podIP EXCEPT ![loc[t].pod] = loc[t].ip]
  /\ Return(t, TRUE)
  /\ UNCHANGED <<containers, podToContainer, logEOF, locks, monv, res, ext,
                 calls>>

------------------------------------------------------------------------------
(* StopPod, called by an RPC or by a monitor                               *)

\* Mutant: does not wait for a cleanup in progress.
MutStopPod(t, p) ==
  /\ Enter(t, "StopPod", "sp_enter") /\ PodArg(t, p)
  /\ PodExists(p)
  /\ podCleanup' = podCleanup \cup {p}
  /\ loc' = [loc EXCEPT ![t].pc = "sp_check", ![t].pod = p,
                        ![t].ctr = podToContainer[p],
                        ![t].kern = kernels[p], ![t].ip = podIP[p]]
  /\ UNCHANGED <<tables, containerStop, monv, res, ext>>

\* Wait until nobody cleans the pod up, then claim the cleanup.
StopPod(t, p) ==
  /\ Enter(t, "StopPod", "sp_enter") /\ PodArg(t, p)
  /\ p \notin podCleanup
  /\ IF \/ ~PodExists(p)
        \/ kernels[p] = None /\ podState[p] = "notready" /\ podIP[p] = None
       THEN Return(t, TRUE) /\ UNCHANGED podCleanup
       ELSE /\ podCleanup' = podCleanup \cup {p}
            /\ loc' = [loc EXCEPT ![t].pc = "sp_check",
                                  ![t].pod = p,
                                  ![t].ctr = podToContainer[p],
                                  ![t].kern = kernels[p],
                                  ![t].ip = podIP[p]]
  /\ UNCHANGED <<tables, containerStop, monv, res, ext>>

\* The state of the container is read without the lock.  (The object found by
\* StopPod and the one the table has now differ only when the container was
\* removed and created again in between; the model looks at the table.)
StopPodCheck(t) ==
  /\ loc[t].pc = "sp_check"
  /\ IF loc[t].ctr # None /\ containers[loc[t].ctr] = "running"
       THEN loc' = [loc EXCEPT ![t].pc = "sc_enter", ![t].nested = TRUE]
       ELSE Goto(t, "sp_kernel")
  /\ UNCHANGED <<tables, locks, monv, res, ext, calls>>

StopPodKernel(t) ==
  /\ loc[t].pc = "sp_kernel"
  /\ IF loc[t].kern = None
       THEN Goto(t, "sp_final") /\ UNCHANGED ext
       ELSE \E ok \in BOOLEAN :
              /\ StopKernel(t, loc[t].pod, ok)
              /\ loc' = [loc EXCEPT ![t].pc = IF ok THEN "sp_final" ELSE "sp_end",
                                    ![t].ok = ok]
  /\ UNCHANGED <<tables, locks, monv, res, calls>>

\* A kernel object of pod p is dropped and its peer id given back.
DropKernel(p) ==
  /\ kernels' = [kernels EXCEPT ![p] = None]
  /\ idsFree' = IF kernels[p] = None THEN idsFree ELSE idsFree \cup {kernels[p]}

\* Mutant: the pod keeps its IP.
MutStopPodFinal(t) ==
  LET p == loc[t].pod IN
  /\ loc[t].pc = "sp_final"
  /\ podState' = [podState EXCEPT ![p] = IF PodExists(p) THEN "notready" ELSE @]
  /\ DropKernel(p)
  /\ Goto(t, "sp_ip")
  /\ UNCHANGED <<podIP, containers, podToContainer, logEOF, locks, monv,
                 ipsFree, ext, calls>>

StopPodFinal(t) ==
  LET p == loc[t].pod IN
  /\ loc[t].pc = "sp_final"
  /\ podState' = [podState EXCEPT ![p] = IF PodExists(p) THEN "notready" ELSE @]
  /\ podIP' = [podIP EXCEPT ![p] = None]
  /\ DropKernel(p)
  /\ Goto(t, "sp_ip")
  /\ UNCHANGED <<containers, podToContainer, logEOF, locks, monv, ipsFree, ext,
                 calls>>

\* Mutant: releases an empty IP too.
MutReleaseIP(t) ==
  /\ loc[t].pc = "sp_ip"
  /\ ipsFree' = ipsFree \cup {loc[t].ip}
  /\ loc' = [loc EXCEPT ![t].pc = "sp_end", ![t].ip = None]
  /\ UNCHANGED <<tables, locks, monv, idsFree, ext, calls>>

\* Release the IP read at entry (shared by StopPod and RemovePod).
ReleaseIP(t) ==
  /\ loc[t].pc = "sp_ip"
  /\ ipsFree' = ipsFree \cup ({loc[t].ip} \ {None})
  /\ loc' = [loc EXCEPT ![t].pc = "sp_end", ![t].ip = None]
  /\ UNCHANGED <<tables, locks, monv, idsFree, ext, calls>>

\* The deferred endPodCleanupLocked, and return.
EndPodCleanup(t) ==
  /\ loc[t].pc = "sp_end"
  /\ podCleanup' = podCleanup \ {loc[t].pod}
  /\ Return(t, loc[t].ok)
  /\ UNCHANGED <<tables, containerStop, monv, res, ext, calls>>

------------------------------------------------------------------------------
(* RemovePod                                                               *)

RemovePod(t, p) ==
  /\ NewCall(t, "RemovePod")
  /\ p \notin podCleanup
  /\ PodExists(p)
  /\ podCleanup' = podCleanup \cup {p}
  /\ loc' = [loc EXCEPT ![t].pc = IF podToContainer[p] = None
                                    THEN "rm_kernel" ELSE "rc_enter",
                        ![t].nested = TRUE,
                        ![t].pod = p,
                        ![t].ctr = podToContainer[p],
                        ![t].kern = kernels[p],
                        ![t].ip = podIP[p]]
  /\ UNCHANGED <<tables, containerStop, monv, res, ext>>

\* The error of StopKernel is dropped.
RemovePodKernel(t) ==
  /\ loc[t].pc = "rm_kernel"
  /\ IF loc[t].kern = None
       THEN UNCHANGED ext
       ELSE \E ok \in BOOLEAN : StopKernel(t, loc[t].pod, ok)
  /\ Goto(t, "rm_final")
  /\ UNCHANGED <<tables, locks, monv, res, calls>>

RemovePodFinal(t) ==
  LET p == loc[t].pod IN
  /\ loc[t].pc = "rm_final"
  /\ DropKernel(p)
  /\ podToContainer' = [podToContainer EXCEPT ![p] = None]
  /\ podState' = [podState EXCEPT ![p] = "removed"]
  /\ podIP' = [podIP EXCEPT ![p] = None]
  /\ Goto(t, "sp_ip")
  /\ UNCHANGED <<containers, logEOF, locks, monv, ipsFree, ext, calls>>

------------------------------------------------------------------------------
(* CreateContainer and StartContainer                                      *)

\* The checks under the read lock.  The kernel object is kept.
CreateContainer(t, c) ==
  LET p == CtrPod[c] IN
  /\ NewCall(t, "CreateContainer")
  /\ PodExists(p)
  /\ podToContainer[p] = None
  /\ kernels[p] # None
  /\ loc' = [loc EXCEPT ![t].pc = "cc_rpc", ![t].pod = p, ![t].ctr = c]
  /\ UNCHANGED <<tables, locks, monv, res, ext>>

\* Network, environment and CreateContainer calls to the guest.
CreateContainerRemote(t) ==
  LET c == loc[t].ctr IN
  /\ loc[t].pc = "cc_rpc"
  /\ \/ /\ MaySucceed(t, loc[t].pod)
        /\ guest' = [guest EXCEPT ![c] = "created"]
        /\ Goto(t, "cc_register")
     \/ /\ MayFail(t, loc[t].pod)
        /\ guest' \in {guest, [guest EXCEPT ![c] = "created"]}
        /\ Return(t, FALSE)
  /\ UNCHANGED <<tables, locks, monv, res, startedKernels, live, calls>>

CreateContainerRegister(t) ==
  LET c == loc[t].ctr IN
  /\ loc[t].pc = "cc_register"
  /\ containers' = [containers EXCEPT ![c] = "created"]
  /\ podToContainer' = [podToContainer EXCEPT ![loc[t].pod] = c]
  /\ Return(t, TRUE)
  /\ UNCHANGED <<podState, podIP, kernels, logEOF, locks, monv, res, ext, calls>>

StartContainer(t, c) ==
  LET p == CtrPod[c] IN
  /\ NewCall(t, "StartContainer")
  /\ containers[c] # "none"
  /\ PodExists(p)
  /\ kernels[p] # None
  /\ loc' = [loc EXCEPT ![t].pc = "st_rpc", ![t].pod = p, ![t].ctr = c]
  /\ UNCHANGED <<tables, locks, monv, res, ext>>

\* The guest starts a created container or, in run mode, any it knows.
GuestStarts(c) ==
  IF StartViaRun THEN guest[c] # "none" ELSE guest[c] = "created"

\* A failed call may have had its effect.
StartContainerRemote(t) ==
  LET c == loc[t].ctr
      started == [guest EXCEPT ![c] = IF GuestStarts(c) THEN "running" ELSE @]
  IN
  /\ loc[t].pc = "st_rpc"
  /\ \/ /\ GuestStarts(c) /\ MaySucceed(t, loc[t].pod)
        /\ guest' = started
        /\ Goto(t, "st_apply")
     \/ /\ ~GuestStarts(c) \/ MayFail(t, loc[t].pod)
        /\ guest' \in {guest, started}
        /\ Return(t, FALSE)
  /\ UNCHANGED <<tables, locks, monv, res, startedKernels, live, calls>>

StartContainerApply(t) ==
  LET c == loc[t].ctr IN
  /\ loc[t].pc = "st_apply"
  /\ containers' = [containers EXCEPT ![c] = IF @ = "none" THEN @ ELSE "running"]
  /\ Goto(t, "ms_swap")
  /\ UNCHANGED <<podState, podIP, kernels, podToContainer, logEOF, locks, monv,
                 res, ext, calls>>

------------------------------------------------------------------------------
(* startContainerMonitor, called by StartContainer and StopContainer       *)

\* stopContainerMonitorLocked
CancelMonitor(c) ==
  cancelled' = cancelled \cup ({monitors[c]} \ {None})

Unused(m) ==
  /\ loc[m].pc = "off"
  /\ m \notin {monitors[c] : c \in Ctr}
  /\ m \notin {loc[t].mon : t \in Thread}

\* Install the new monitor under the lock; its goroutine is not running yet.
SwapMonitor(t) ==
  LET c == loc[t].ctr IN
  /\ loc[t].pc = "ms_swap"
  /\ \E m \in Mon :
       /\ Unused(m)
       /\ monitors' = [monitors EXCEPT ![c] = m]
       /\ cancelled' = (cancelled \cup ({monitors[c]} \ {None})) \ {m}
       /\ loc' = [loc EXCEPT ![t].pc = "ms_wait", ![t].mon = monitors[c],
                             ![t].new = m, ![m] = AtRest("ready", c)]
  /\ UNCHANGED <<tables, locks, res, ext, calls>>

\* mon.done is closed when the goroutine ends.
Done(m) == m # None => loc[m].pc = "off"

\* Wait for the old monitor to end, then start the new goroutine.  Only RPCs
\* get here: a nested StopContainer never resumes the monitor.
LaunchMonitor(t) ==
  /\ loc[t].pc = "ms_wait"
  /\ Done(loc[t].mon)
  /\ loc' = [loc EXCEPT ![t] = AtRest("idle", None),
                        ![loc[t].new].pc = "mn_log"]
  /\ UNCHANGED <<tables, locks, monv, res, ext, calls>>

------------------------------------------------------------------------------
(* StopContainer, called by an RPC or by StopPod                           *)

\* Return to StopPod, or to the RPC layer.
StopReturn(t, ok) ==
  IF loc[t].nested
    THEN loc' = [loc EXCEPT ![t].pc = IF ok THEN "sp_kernel" ELSE "sp_end",
                            ![t].nested = FALSE, ![t].ok = ok,
                            ![t].mon = None, ![t].had = FALSE]
    ELSE Return(t, ok)

\* Mutant: forgets to cancel the monitor it takes off the table.
MutStopContainer(t, c) ==
  LET p == CtrPod[c] IN
  /\ Enter(t, "StopContainer", "sc_enter") /\ CtrArg(t, c)
  /\ c \notin containerStop
  /\ IF containers[c] = "none" \/ ~PodExists(p) \/ kernels[p] = None
       THEN /\ StopReturn(t, containers[c] = "none")
            /\ UNCHANGED <<containerStop, monv>>
       ELSE /\ containerStop' = containerStop \cup {c}
            /\ UNCHANGED cancelled
            /\ monitors' = [monitors EXCEPT ![c] = None]
            /\ loc' = [loc EXCEPT ![t].pc = "sc_wait", ![t].pod = p,
                                  ![t].ctr = c, ![t].mon = monitors[c],
                                  ![t].had = monitors[c] # None]
  /\ UNCHANGED <<tables, podCleanup, res, ext>>

\* Wait until no other StopContainer works on it, claim it, cancel its
\* monitor.
StopContainer(t, c) ==
  LET p == CtrPod[c] IN
  /\ Enter(t, "StopContainer", "sc_enter") /\ CtrArg(t, c)
  /\ c \notin containerStop
  /\ IF containers[c] = "none" \/ ~PodExists(p) \/ kernels[p] = None
       THEN /\ StopReturn(t, containers[c] = "none")
            /\ UNCHANGED <<containerStop, monv>>
       ELSE /\ containerStop' = containerStop \cup {c}
            /\ CancelMonitor(c)
            /\ monitors' = [monitors EXCEPT ![c] = None]
            /\ loc' = [loc EXCEPT ![t].pc = "sc_wait",
                                  ![t].pod = p,
                                  ![t].ctr = c,
                                  ![t].mon = monitors[c],
                                  ![t].had = monitors[c] # None]
  /\ UNCHANGED <<tables, podCleanup, res, ext>>

\* Mutant: does not wait for the cancelled monitor to end.
MutStopContainerWait(t) ==
  /\ loc[t].pc = "sc_wait"
  /\ loc' = [loc EXCEPT ![t].pc = "sc_rpc", ![t].mon = None]
  /\ UNCHANGED <<tables, locks, monv, res, ext, calls>>

StopContainerWait(t) ==
  /\ loc[t].pc = "sc_wait"
  /\ Done(loc[t].mon)
  /\ loc' = [loc EXCEPT ![t].pc = "sc_rpc", ![t].mon = None]
  /\ UNCHANGED <<tables, locks, monv, res, ext, calls>>

\* The guest stops a running task and has nothing to do for another one.
GuestStopped(c) == [guest EXCEPT ![c] = IF @ = "running" THEN "exited" ELSE @]

\* A failed call may have had its effect.
StopContainerRemote(t) ==
  LET stopped == GuestStopped(loc[t].ctr) IN
  /\ loc[t].pc = "sc_rpc"
  /\ \/ /\ MaySucceed(t, loc[t].pod)
        /\ guest' = stopped
        /\ Goto(t, "sc_apply")
     \/ /\ MayFail(t, loc[t].pod)
        /\ guest' \in {guest, stopped}
        /\ loc' = [loc EXCEPT ![t].pc = "sc_end", ![t].ok = FALSE]
  /\ UNCHANGED <<tables, locks, monv, res, startedKernels, live, calls>>

StopContainerApply(t) ==
  /\ loc[t].pc = "sc_apply"
  /\ containers' = [containers EXCEPT ![loc[t].ctr] =
                      IF @ = "none" THEN @ ELSE "exited"]
  /\ loc' = [loc EXCEPT ![t].pc = "sc_end", ![t].ok = TRUE]
  /\ UNCHANGED <<podState, podIP, kernels, podToContainer, logEOF, locks, monv,
                 res, ext, calls>>

\* Mutant: never resumes the monitor.
MutStopContainerEnd(t) ==
  /\ loc[t].pc = "sc_end"
  /\ containerStop' = containerStop \ {loc[t].ctr}
  /\ StopReturn(t, loc[t].ok)
  /\ UNCHANGED <<tables, podCleanup, monv, res, ext, calls>>

\* The deferred function: give the container back, and resume its monitor
\* unless the pod is being cleaned up.
StopContainerEnd(t) ==
  LET c == loc[t].ctr IN
  /\ loc[t].pc = "sc_end"
  /\ containerStop' = containerStop \ {c}
  /\ IF loc[t].had /\ containers[c] # "none" /\ CtrPod[c] \notin podCleanup
       THEN Goto(t, "ms_swap")
       ELSE StopReturn(t, loc[t].ok)
  /\ UNCHANGED <<tables, podCleanup, monv, res, ext, calls>>

------------------------------------------------------------------------------
(* RemoveContainer, called by an RPC or by RemovePod                       *)

RemoveReturn(t) ==
  IF loc[t].nested THEN Goto(t, "rm_kernel") ELSE Return(t, TRUE)

RemoveContainer(t, c) ==
  LET p == CtrPod[c] IN
  /\ Enter(t, "RemoveContainer", "rc_enter") /\ CtrArg(t, c)
  /\ IF containers[c] = "none"
       THEN RemoveReturn(t)
       ELSE loc' = [loc EXCEPT
              ![t].pc = IF ~PodExists(p) THEN "rc_orphan"
                        ELSE IF kernels[p] = None THEN "rc_final" ELSE "rc_rpc",
              ![t].pod = p, ![t].ctr = c]
  /\ UNCHANGED <<tables, locks, monv, res, ext>>

\* The guest kills and deletes the container; errors are dropped.
RemoveContainerRemote(t) ==
  /\ loc[t].pc = "rc_rpc"
  /\ \/ MayFail(t, loc[t].pod) /\ UNCHANGED guest
     \/ guest' = [guest EXCEPT ![loc[t].ctr] = "none"]
  /\ Goto(t, "rc_final")
  /\ UNCHANGED <<tables, locks, monv, res, startedKernels, live, calls>>

ForgetContainer(t) ==
  /\ containers' = [containers EXCEPT ![loc[t].ctr] = "none"]
  /\ podToContainer' = [podToContainer EXCEPT ![loc[t].pod] = None]
  /\ RemoveReturn(t)
  /\ UNCHANGED <<podState, podIP, kernels, locks, res, ext, calls>>

RemoveContainerFinal(t) ==
  LET c == loc[t].ctr IN
  /\ loc[t].pc = "rc_final"
  /\ CancelMonitor(c)
  /\ monitors' = [monitors EXCEPT ![c] = None]
  /\ logEOF' = [logEOF EXCEPT ![c] = FALSE]
  /\ ForgetContainer(t)

\* The pod is gone: only the two tables are cleaned.
RemoveContainerOrphan(t) ==
  /\ loc[t].pc = "rc_orphan"
  /\ ForgetContainer(t)
  /\ UNCHANGED <<logEOF, monv>>

------------------------------------------------------------------------------
(* RefreshContainerStatus, called by an RPC or by a monitor                *)

RefreshReturn(t) == IF t \in Mon THEN Goto(t, "mn_decide") ELSE Return(t, TRUE)

RefreshContainerStatus(t, c) ==
  LET p == CtrPod[c] IN
  /\ Enter(t, "RefreshContainerStatus", "rs_enter") /\ CtrArg(t, c)
  /\ IF containers[c] = "none" \/ ~PodExists(p) \/ kernels[p] = None
       THEN RefreshReturn(t)
       ELSE loc' = [loc EXCEPT ![t].pc = "rs_rpc", ![t].pod = p, ![t].ctr = c]
  /\ UNCHANGED <<tables, locks, monv, res, ext>>

RefreshRemote(t) ==
  LET c == loc[t].ctr IN
  /\ loc[t].pc = "rs_rpc"
  /\ \/ /\ MaySucceed(t, loc[t].pod) /\ guest[c] # "none"
        /\ loc' = [loc EXCEPT ![t].pc = "rs_apply", ![t].st = guest[c]]
     \/ /\ MayFail(t, loc[t].pod) \/ guest[c] = "none"
        /\ RefreshReturn(t)
  /\ UNCHANGED <<tables, locks, monv, res, ext, calls>>

\* The answer overwrites the state, however old it is by now.
RefreshApply(t) ==
  /\ loc[t].pc = "rs_apply"
  /\ containers' = [containers EXCEPT ![loc[t].ctr] =
                      IF @ = "none" THEN @ ELSE loc[t].st]
  /\ RefreshReturn(t)
  /\ UNCHANGED <<podState, podIP, kernels, podToContainer, logEOF, locks, monv,
                 res, ext, calls>>

------------------------------------------------------------------------------
(* monitorContainer                                                        *)

\* SyncContainerLogs: ask for the log until it ends; a guest reports EOF only
\* for an exited container, and only once its log has been read to the end.
MonitorLog(m) ==
  LET c == loc[m].own
      p == CtrPod[c]
      askable == /\ containers[c] # "none" /\ PodExists(p) /\ kernels[p] # None
                 /\ ~logEOF[c]
  IN
  /\ loc[m].pc = "mn_log"
  /\ \/ /\ askable /\ MaySucceed(m, p)
        /\ \E eof \in {FALSE, guest[c] = "exited"} :
             loc' = [loc EXCEPT ![m].pc = "mn_eof", ![m].ok = eof]
     \/ /\ ~askable \/ MayFail(m, p)
        /\ loc' = [loc EXCEPT ![m].pc = IF containers[c] = "none" THEN "mn_decide"
                                        ELSE "rs_enter",
                              ![m].pod = p, ![m].ctr = c]
  /\ UNCHANGED <<tables, locks, monv, res, ext, calls>>

MonitorLogApply(m) ==
  LET c == loc[m].own IN
  /\ loc[m].pc = "mn_eof"
  /\ logEOF' = [logEOF EXCEPT ![c] = IF containers[c] = "none" THEN @
                                     ELSE loc[m].ok]
  /\ loc' = [loc EXCEPT ![m].pc = "rs_enter", ![m].pod = CtrPod[c],
                        ![m].ctr = c, ![m].ok = TRUE]
  /\ UNCHANGED <<podState, podIP, kernels, containers, podToContainer, locks,
                 monv, res, ext, calls>>

\* The verdict of syncContainerOnce: gone, or exited with the whole log read.
MonitorDecide(m) ==
  LET c == loc[m].own
      over == containers[c] = "none" \/ (containers[c] = "exited" /\ logEOF[c])
  IN
  /\ loc[m].pc = "mn_decide"
  /\ loc' = [loc EXCEPT ![m] =
               IF ~over THEN AtRest("mn_tick", c)
               ELSE IF m \in cancelled THEN AtRest("off", None)
               ELSE AtRest("mn_cleanup", c)]
  /\ UNCHANGED <<tables, locks, monv, res, ext, calls>>

\* The ticker or the context; both may be ready.
MonitorTick(m) ==
  /\ loc[m].pc = "mn_tick"
  /\ \/ Goto(m, "mn_log")
     \/ m \in cancelled /\ loc' = [loc EXCEPT ![m] = AtRest("off", None)]
  /\ UNCHANGED <<tables, locks, monv, res, ext, calls>>

\* cleanupExitedContainer up to the read unlock.
MonitorCleanup(m) ==
  LET c == loc[m].own IN
  /\ loc[m].pc = "mn_cleanup"
  /\ Goto(m, IF m \in cancelled \/ c \in containerStop THEN "mn_tick"
             ELSE IF containers[c] = "none" THEN "mn_finish" ELSE "mn_stop")
  /\ UNCHANGED <<tables, locks, monv, res, ext, calls>>

\* The second look at the context, and the call of StopPod.
MonitorStopPod(m) ==
  /\ loc[m].pc = "mn_stop"
  /\ IF m \in cancelled
       THEN Goto(m, "mn_tick")
       ELSE loc' = [loc EXCEPT ![m].pc = "sp_enter", ![m].pod = CtrPod[loc[m].own]]
  /\ UNCHANGED <<tables, locks, monv, res, ext, calls>>

MonitorAfterStop(m) ==
  /\ loc[m].pc = "mn_after"
  /\ loc' = [loc EXCEPT ![m] =
               AtRest(IF loc[m].ok \/ containers[loc[m].own] = "none"
                        THEN "mn_finish" ELSE "mn_tick", loc[m].own)]
  /\ UNCHANGED <<tables, locks, monv, res, ext, calls>>

MonitorFinish(m) ==
  LET c == loc[m].own IN
  /\ loc[m].pc = "mn_finish"
  /\ monitors' = [monitors EXCEPT ![c] = IF @ = m THEN None ELSE @]
  /\ loc' = [loc EXCEPT ![m] = AtRest("off", None)]
  /\ UNCHANGED <<tables, locks, cancelled, res, ext, calls>>

------------------------------------------------------------------------------
\* The container's process ends by itself.
GuestExit(c) ==
  /\ guest[c] = "running"
  /\ live[CtrPod[c]] # None
  /\ guest' = [guest EXCEPT ![c] = "exited"]
  /\ UNCHANGED <<tables, locks, monv, res, startedKernels, live, loc, calls>>

PodStep(t) ==
  \/ RunPodStart(t) \/ RunPodReady(t) \/ RunPodRegister(t)
  \/ StopPodCheck(t) \/ StopPodKernel(t) \/ StopPodFinal(t) \/ ReleaseIP(t)
  \/ EndPodCleanup(t) \/ RemovePodKernel(t) \/ RemovePodFinal(t)

ContainerStep(t) ==
  \/ CreateContainerRemote(t) \/ CreateContainerRegister(t)
  \/ StartContainerRemote(t) \/ StartContainerApply(t)
  \/ SwapMonitor(t) \/ LaunchMonitor(t)
  \/ StopContainerWait(t) \/ StopContainerRemote(t) \/ StopContainerApply(t)
  \/ StopContainerEnd(t)
  \/ RemoveContainerRemote(t) \/ RemoveContainerFinal(t)
  \/ RemoveContainerOrphan(t)
  \/ RefreshRemote(t) \/ RefreshApply(t)

MonitorStep(m) ==
  \/ MonitorLog(m) \/ MonitorLogApply(m) \/ MonitorDecide(m) \/ MonitorTick(m)
  \/ MonitorCleanup(m) \/ MonitorStopPod(m) \/ MonitorAfterStop(m)
  \/ MonitorFinish(m)

PodCall(t, p) == RunPod(t, p) \/ StopPod(t, p) \/ RemovePod(t, p)

ContainerCall(t, c) ==
  \/ CreateContainer(t, c) \/ StartContainer(t, c) \/ StopContainer(t, c)
  \/ RemoveContainer(t, c) \/ RefreshContainerStatus(t, c)

Next ==
  \/ \E t \in Thread :
       \/ \E p \in Pod : PodCall(t, p)
       \/ \E c \in Ctr : ContainerCall(t, c)
       \/ PodStep(t)
       \/ ContainerStep(t)
  \/ \E m \in Mon : MonitorStep(m)
  \/ \E c \in Ctr : GuestExit(c)

Spec == Init /\ [][Next]_vars

------------------------------------------------------------------------------
(* Properties                                                              *)

\* Thread t is between beginPodCleanupLocked and endPodCleanupLocked.
InCleanup(t) ==
  \/ loc[t].pc \in {"sp_check", "sp_kernel", "sp_final", "sp_ip", "sp_end",
                    "rm_kernel", "rm_final"}
  \/ loc[t].nested

\* Thread t is between beginContainerStopLocked and endContainerStopLocked.
InStop(t) == loc[t].pc \in {"sc_wait", "sc_rpc", "sc_apply", "sc_end"}

\* Types of the tables, the claim sets, the allocators and the guests.
TypeOK ==
  /\ podState \in [Pod -> {"none", "ready", "notready", "removed"}]
  /\ podIP \in [Pod -> Ip \cup {None}]
  /\ kernels \in [Pod -> PeerId \cup {None}]
  /\ live \in [Pod -> PeerId \cup {None}]
  /\ containers \in [Ctr -> {"none", "created", "running", "exited"}]
  /\ guest \in [Ctr -> {"none", "created", "running", "exited"}]
  /\ podToContainer \in [Pod -> Ctr \cup {None}]
  /\ logEOF \in [Ctr -> BOOLEAN]
  /\ monitors \in [Ctr -> Mon \cup {None}]
  /\ podCleanup \subseteq Pod /\ containerStop \subseteq Ctr
  /\ cancelled \subseteq Mon /\ startedKernels \subseteq Pod
  /\ idsFree \subseteq PeerId /\ ipsFree \subseteq Ip
  /\ calls \in 0 .. MaxCalls

\* StopPod and RemovePod bodies on one pod exclude each other, whether an RPC
\* or a monitor runs them; so do StopContainer bodies on one container.
CleanupExclusive ==
  /\ \A t, u \in Thread :
       InCleanup(t) /\ InCleanup(u) /\ loc[t].pod = loc[u].pod => t = u
  /\ \A t, u \in Thread :
       InStop(t) /\ InStop(u) /\ loc[t].ctr = loc[u].ctr => t = u

\* A pod IP is free, or belongs to exactly one pod, or is in the hands of
\* exactly one thread that is about to assign or to release it: no failure of
\* RunPod, StopPod or RemovePod loses one or gives it away twice.
IpConserved ==
  \A ip \in Ip :
    LET holders == {p \in Pod : podIP[p] = ip}
                   \cup {t \in Thread : /\ loc[t].pc \in {"rp_register", "sp_ip"}
                                        /\ loc[t].ip = ip}
    IN  IF ip \in ipsFree THEN holders = {}
                          ELSE \E x \in Pod \cup Thread : holders = {x}

\* The same for the peer kernel ids and the kernel objects.
PeerIdConserved ==
  \A id \in PeerId :
    LET holders == {p \in Pod : kernels[p] = id}
                   \cup {t \in Thread :
                           /\ loc[t].pc \in {"rp_start", "rp_ready", "rp_register"}
                           /\ loc[t].kern = id}
    IN  IF id \in idsFree THEN holders = {}
                          ELSE \E x \in Pod \cup Thread : holders = {x}

\* A monitor that has not been cancelled is the one registered for its
\* container: none runs on unnoticed, able to stop the pod although
\* StopContainer or RemoveContainer believes it has silenced the monitor.
NoStrayMonitor ==
  \A m \in Mon : loc[m].pc # "off" /\ m \notin cancelled
                   => monitors[loc[m].own] = m

\* While a manual StopContainer talks to the guest, no monitor of that
\* container runs StopPod under it.
StopShielded ==
  \A t \in Caller, m \in Mon :
    loc[t].pc \in {"sc_rpc", "sc_apply"} /\ loc[m].own = loc[t].ctr
      => ~InCleanup(m)

\* A pod that StopPod reports as stopped has no running kernel.
StoppedPodHasNoKernel ==
  \A p \in Pod : podState[p] = "notready" /\ p \notin podCleanup
                   => live[p] = None

\* CreateContainer enforces one container per kernel.
OneContainerPerKernel ==
  \A c, d \in Ctr : /\ containers[c] # "none" /\ containers[d] # "none"
                    /\ CtrPod[c] = CtrPod[d]
                    => c = d

\* A pod does not stay ready for ever while its container is EXITED with the
\* log read to the end: the monitor stops it (cleanupExitedContainer).
AutoCleanup ==
  \A c \in Ctr :
    []<>~(/\ containers[c] = "exited" /\ logEOF[c]
          /\ podState[CtrPod[c]] = "ready")

\* Every handler and monitor goroutine runs on; a cancelled monitor that keeps
\* getting to its select sees ctx.Done in the end.
ThreadStep(t) ==
  /\ loc[t].pc # "idle"
  /\ \/ PodStep(t) \/ ContainerStep(t)
     \/ \E p \in Pod : PodCall(t, p)
     \/ \E c \in Ctr : ContainerCall(t, c)

Fairness ==
  /\ \A t \in Caller : WF_vars(ThreadStep(t))
  /\ \A m \in Mon :
       /\ WF_vars(ThreadStep(m) \/ MonitorStep(m))
       /\ SF_vars(MonitorTick(m) /\ loc'[m].pc = "off")

FairSpec == Spec /\ Fairness
==============================================================================
