--------------------------- MODULE EngineInvariant ----------------------------
(***************************************************************************)
(* The inductive invariant of Engine, the steps that take no claim and     *)
(* move no address, peer id or monitor, and the steps of RunPod.           *)
(* EngineProofs has the others and the theorems.                           *)
(***************************************************************************)
EXTENDS Engine, TLAPS

------------------------------------------------------------------------------
(* The inductive invariant.                                                *)

MonPcs ==
  {"off", "ready", "mn_log", "mn_eof", "mn_decide", "mn_tick", "mn_cleanup",
   "mn_stop", "mn_after", "mn_finish", "rs_enter", "rs_rpc", "rs_apply",
   "sp_enter", "sp_check", "sp_kernel", "sp_final", "sp_ip", "sp_end",
   "sc_enter", "sc_wait", "sc_rpc", "sc_apply", "sc_end"}

RunPcs  == {"rp_start", "rp_ready", "rp_register"}
StopPcs == {"sc_wait", "sc_rpc", "sc_apply", "sc_end"}

\* Where loc[t].ctr is a container.
CtrPcs ==
  {"cc_rpc", "cc_register", "st_rpc", "st_apply", "ms_swap", "ms_wait",
   "sc_enter", "sc_wait", "sc_rpc", "sc_apply", "sc_end",
   "rc_enter", "rc_rpc", "rc_final", "rc_orphan",
   "rs_enter", "rs_rpc", "rs_apply"}

\* Where StopPod or RemovePod may be the caller.
NestedPcs ==
  {"sc_enter", "sc_wait", "sc_rpc", "sc_apply", "sc_end",
   "rc_enter", "rc_rpc", "rc_final", "rc_orphan",
   "rm_kernel", "rm_final", "sp_ip", "sp_end"}

Pcs == MonPcs \cup RunPcs \cup CtrPcs \cup NestedPcs \cup {"idle"}

States == {"none", "created", "running", "exited"}

Locals ==
  [pc : Pcs, own : Ctr \cup {None}, pod : Pod \cup {None}, ctr : Ctr \cup {None},
   kern : PeerId \cup {None}, ip : Ip \cup {None}, mon : Mon \cup {None},
   new : Mon \cup {None}, had : BOOLEAN, nested : BOOLEAN, ok : BOOLEAN,
   st : States]

Types == TypeOK /\ loc \in [Thread -> Locals]

\* What the locals of thread t hold at each program counter.
ScopeOf(t) ==
  /\ t \in Mon => loc[t].pc \in MonPcs
  /\ t \in Mon /\ loc[t].pc # "off" => loc[t].own \in Ctr
  /\ t \in Mon /\ loc[t].pc \in StopPcs \cup {"sc_enter"} => loc[t].nested
  /\ loc[t].nested => loc[t].pc \in NestedPcs
  /\ loc[t].pc \in CtrPcs => loc[t].ctr \in Ctr
  /\ loc[t].pc \in RunPcs => loc[t].pod \in Pod /\ loc[t].kern \in PeerId
  /\ loc[t].pc = "rp_register" => loc[t].ip \in Ip
  /\ loc[t].pc \in {"cc_rpc", "cc_register"} => loc[t].pod = CtrPod[loc[t].ctr]
  /\ InCleanup(t) => loc[t].pod \in Pod
  /\ InCleanup(t) /\ loc[t].ctr # None => CtrPod[loc[t].ctr] = loc[t].pod

Scope == \A t \in Thread : ScopeOf(t)

\* A pod's container is one of that pod.
Linked ==
  \A p \in Pod : podToContainer[p] # None => CtrPod[podToContainer[p]] = p

\* A monitor that a thread is about to launch waits for that thread alone.
Fresh ==
  /\ \A t \in Thread : loc[t].pc = "ms_wait" =>
       loc[t].new \in Mon /\ loc[loc[t].new].pc = "ready"
  /\ \A t, u \in Thread :
       loc[t].pc = "ms_wait" /\ loc[u].pc = "ms_wait" /\ loc[t].new = loc[u].new
         => t = u

\* The claim sets cover the threads inside.
Claimed ==
  /\ \A t \in Thread : InCleanup(t) => loc[t].pod \in podCleanup
  /\ \A t \in Thread : InStop(t) => loc[t].ctr \in containerStop

\* A pod is in the hands of one RunPod until it is registered.
Born ==
  /\ \A t \in Thread : loc[t].pc \in RunPcs => podState[loc[t].pod] = "none"
  /\ \A t, u \in Thread :
       loc[t].pc \in RunPcs /\ loc[u].pc \in RunPcs /\ loc[t].pod = loc[u].pod
         => t = u
  /\ \A t \in Thread : InCleanup(t) => podState[loc[t].pod] # "none"
  /\ \A p \in Pod : podState[p] = "none" => kernels[p] = None /\ podIP[p] = None

\* Until it takes the address away, a cleanup knows the pod's present one.
Known ==
  \A t \in Thread : InCleanup(t) /\ loc[t].pc \notin {"sp_ip", "sp_end"}
    => loc[t].ip = podIP[loc[t].pod]

HoldsIp(t) == loc[t].pc \in {"rp_register", "sp_ip"} /\ loc[t].ip # None

\* An address has one holder at most, a pod or a thread, and none while it is
\* free.
IpApart ==
  /\ \A p \in Pod : podIP[p] \notin ipsFree
  /\ \A p, q \in Pod : podIP[p] = podIP[q] /\ podIP[p] # None => p = q
  /\ \A t \in Thread : HoldsIp(t) =>
       /\ loc[t].ip \notin ipsFree
       /\ \A p \in Pod : podIP[p] # loc[t].ip
  /\ \A t, u \in Thread : HoldsIp(t) /\ HoldsIp(u) /\ loc[t].ip = loc[u].ip => t = u

\* An address that is not free has a holder.
IpSomewhere ==
  \A ip \in Ip \ ipsFree :
    \/ \E p \in Pod : podIP[p] = ip
    \/ \E t \in Thread : HoldsIp(t) /\ loc[t].ip = ip

HoldsId(t) == loc[t].pc \in RunPcs

\* The same for peer ids.
IdApart ==
  /\ \A p \in Pod : kernels[p] \notin idsFree
  /\ \A p, q \in Pod : kernels[p] = kernels[q] /\ kernels[p] # None => p = q
  /\ \A t \in Thread : HoldsId(t) =>
       /\ loc[t].kern \notin idsFree
       /\ \A p \in Pod : kernels[p] # loc[t].kern
  /\ \A t, u \in Thread :
       HoldsId(t) /\ HoldsId(u) /\ loc[t].kern = loc[u].kern => t = u

IdSomewhere ==
  \A id \in PeerId \ idsFree :
    \/ \E p \in Pod : kernels[p] = id
    \/ \E t \in Thread : HoldsId(t) /\ loc[t].kern = id

EngineInv ==
  /\ Types /\ Scope /\ Linked /\ Fresh
  /\ Claimed /\ CleanupExclusive
  /\ Born /\ Known
  /\ IpApart /\ IpSomewhere /\ IdApart /\ IdSomewhere
  /\ NoStrayMonitor

------------------------------------------------------------------------------
(* What a step of thread t leaves alone.                                   *)

Others(t) == \A u \in Thread \ {t} : loc'[u] = loc[u]

\* The locals of the other threads keep their meaning.
LEMMA ScopeFrame ==
  ASSUME Scope, NEW t \in Thread, Others(t), ScopeOf(t)'
  PROVE  Scope'
  BY DEF Scope, ScopeOf, Others, InCleanup

\* Claims are kept or given up, not taken.
LEMMA ClaimFrame ==
  ASSUME Claimed, CleanupExclusive, NEW t \in Thread, Others(t),
         UNCHANGED <<podCleanup, containerStop>>,
         InCleanup(t)' => InCleanup(t) /\ loc'[t].pod = loc[t].pod,
         InStop(t)' => InStop(t) /\ loc'[t].ctr = loc[t].ctr
  PROVE  Claimed' /\ CleanupExclusive'
  BY DEF Claimed, CleanupExclusive, Others, InCleanup, InStop

\* A step that launches no monitor and waits for none.
LEMMA FreshFrame ==
  ASSUME Types, Fresh, NEW t \in Thread, Others(t),
         loc[t].pc # "ready", loc'[t].pc # "ms_wait"
  PROVE  Fresh'
  BY DEF Types, Thread, Fresh, Others

\* The pods keep their states and no thread starts to work on one.
LEMMA BornFrame ==
  ASSUME Born, NEW t \in Thread, Others(t), UNCHANGED <<podState, kernels, podIP>>,
         loc'[t].pc \in RunPcs => loc[t].pc \in RunPcs /\ loc'[t].pod = loc[t].pod,
         InCleanup(t)' => InCleanup(t) /\ loc'[t].pod = loc[t].pod
  PROVE  Born'
  BY DEF Born, Others, InCleanup

\* The pods keep their addresses.
LEMMA KnownFrame ==
  ASSUME Known, NEW t \in Thread, Others(t), UNCHANGED podIP,
         InCleanup(t)' /\ loc'[t].pc \notin {"sp_ip", "sp_end"}
           => /\ InCleanup(t) /\ loc[t].pc \notin {"sp_ip", "sp_end"}
              /\ loc'[t].pod = loc[t].pod /\ loc'[t].ip = loc[t].ip
  PROVE  Known'
  BY DEF Known, Others, InCleanup

\* No address changes hands.
LEMMA IpFrame ==
  ASSUME IpApart, IpSomewhere, NEW t \in Thread, Others(t), UNCHANGED <<podIP,
         ipsFree>>,
         HoldsIp(t)' <=> HoldsIp(t),
         HoldsIp(t) => loc'[t].ip = loc[t].ip
  PROVE  IpApart' /\ IpSomewhere'
  <1>1. \A u \in Thread : (HoldsIp(u)' <=> HoldsIp(u)) /\ (HoldsIp(u)
            => loc'[u].ip = loc[u].ip)
    BY Zenon DEF Others, HoldsIp
  <1>2. \A ip \in Ip : (\E u \in Thread : HoldsIp(u) /\ loc[u].ip = ip)
                        => \E u \in Thread : HoldsIp(u)' /\ loc'[u].ip = ip
    BY <1>1, Zenon
  <1> QED
    BY <1>1, <1>2 DEF IpApart, IpSomewhere

\* No peer id changes hands.
LEMMA IdFrame ==
  ASSUME IdApart, IdSomewhere, NEW t \in Thread, Others(t), UNCHANGED <<kernels,
         idsFree>>,
         HoldsId(t)' <=> HoldsId(t),
         HoldsId(t) => loc'[t].kern = loc[t].kern
  PROVE  IdApart' /\ IdSomewhere'
  <1>1. \A u \in Thread : (HoldsId(u)' <=> HoldsId(u)) /\ (HoldsId(u)
            => loc'[u].kern = loc[u].kern)
    BY Zenon DEF Others, HoldsId
  <1>2. \A id \in PeerId : (\E u \in Thread : HoldsId(u) /\ loc[u].kern = id)
                            => \E u \in Thread : HoldsId(u)' /\ loc'[u].kern = id
    BY <1>1, Zenon
  <1> QED
    BY <1>1, <1>2 DEF IdApart, IdSomewhere

\* No monitor is registered, cancelled or started.
LEMMA StrayFrame ==
  ASSUME NoStrayMonitor, NEW t \in Thread, Others(t), UNCHANGED <<monitors, cancelled>>,
         t \in Mon => \/ loc'[t].pc = "off"
                      \/ loc[t].pc # "off" /\ loc'[t].own = loc[t].own
  PROVE  NoStrayMonitor'
  BY Zenon DEF NoStrayMonitor, Others, Thread

\* A step that takes no claim and moves no address, id or monitor.
Quiet(t) ==
  /\ Others(t)
  /\ UNCHANGED <<podState, podIP, kernels, locks, monv, res>>
  /\ loc[t].pc # "ready" /\ loc'[t].pc # "ms_wait"
  /\ loc'[t].pc \in RunPcs <=> loc[t].pc \in RunPcs
  /\ loc[t].pc \in RunPcs => loc'[t].pod = loc[t].pod /\ loc'[t].kern = loc[t].kern
  /\ InCleanup(t)' => InCleanup(t) /\ loc'[t].pod = loc[t].pod /\ loc'[t].ip = loc[t].ip
  /\ loc[t].pc \notin {"rp_register", "sp_ip", "sp_end"}
  /\ loc'[t].pc \notin {"rp_register", "sp_ip"}
  /\ InStop(t)' => InStop(t) /\ loc'[t].ctr = loc[t].ctr
  /\ t \in Mon => \/ loc'[t].pc = "off"
                  \/ loc[t].pc # "off" /\ loc'[t].own = loc[t].own

\* The frame lemmas together: a quiet step keeps the invariant.
LEMMA QuietKeeps ==
  ASSUME EngineInv, NEW t \in Thread, Quiet(t), Types', ScopeOf(t)', Linked'
  PROVE  EngineInv'
  <1>1. Scope'
    BY ScopeFrame, Zenon DEF EngineInv, Quiet
  <1>2. Claimed' /\ CleanupExclusive'
    BY ClaimFrame, Zenon DEF EngineInv, Quiet, locks
  <1>3. Fresh'
    BY FreshFrame, Zenon DEF EngineInv, Quiet
  <1>4. Born'
    BY BornFrame, Zenon DEF EngineInv, Quiet
  <1>5. Known'
    BY KnownFrame, Zenon DEF EngineInv, Quiet
  <1>6. IpApart' /\ IpSomewhere'
    BY IpFrame, Zenon DEF EngineInv, Quiet, HoldsIp, res
  <1>7. IdApart' /\ IdSomewhere'
    BY IdFrame, Zenon DEF EngineInv, Quiet, HoldsId, res
  <1>8. NoStrayMonitor'
    BY StrayFrame, ZenonT(60) DEF EngineInv, Quiet, monv
  <1> QED
    BY <1>1, <1>2, <1>3, <1>4, <1>5, <1>6, <1>7, <1>8, Zenon DEF EngineInv

------------------------------------------------------------------------------
(* Steps that are quiet.                                                  *)

\* Every program counter the actions write is one.
LEMMA PcMembers ==
  /\ "idle" \in Pcs /\ "rp_start" \in Pcs /\ "rp_ready" \in Pcs
  /\ "rp_register" \in Pcs /\ "sp_enter" \in Pcs /\ "sp_check" \in Pcs
  /\ "sp_kernel" \in Pcs /\ "sp_final" \in Pcs /\ "sp_ip" \in Pcs
  /\ "sp_end" \in Pcs /\ "rm_kernel" \in Pcs /\ "rm_final" \in Pcs
  /\ "cc_rpc" \in Pcs /\ "cc_register" \in Pcs /\ "st_rpc" \in Pcs
  /\ "st_apply" \in Pcs /\ "ms_swap" \in Pcs /\ "ms_wait" \in Pcs
  /\ "sc_enter" \in Pcs /\ "sc_wait" \in Pcs /\ "sc_rpc" \in Pcs
  /\ "sc_apply" \in Pcs /\ "sc_end" \in Pcs /\ "rc_enter" \in Pcs
  /\ "rc_rpc" \in Pcs /\ "rc_final" \in Pcs /\ "rc_orphan" \in Pcs
  /\ "rs_enter" \in Pcs /\ "rs_rpc" \in Pcs /\ "rs_apply" \in Pcs
  /\ "off" \in Pcs /\ "ready" \in Pcs /\ "mn_log" \in Pcs
  /\ "mn_eof" \in Pcs /\ "mn_decide" \in Pcs /\ "mn_tick" \in Pcs
  /\ "mn_cleanup" \in Pcs /\ "mn_stop" \in Pcs /\ "mn_after" \in Pcs
  /\ "mn_finish" \in Pcs
  BY SMTT(60) DEF Pcs, MonPcs, RunPcs, CtrPcs, NestedPcs

\* How the actions write the locals of a thread.
LEMMA UpdateLocals ==
  ASSUME loc \in [Thread -> Locals], NEW t \in Thread, NEW l \in Locals,
         loc' = [loc EXCEPT ![t] = l]
  PROVE  loc' \in [Thread -> Locals] /\ Others(t) /\ loc'[t] = l
  BY Zenon DEF Others

LEMMA GotoLocals ==
  ASSUME loc \in [Thread -> Locals], NEW t \in Thread, NEW pc \in Pcs, Goto(t, pc)
  PROVE  /\ loc' \in [Thread -> Locals] /\ Others(t)
         /\ loc'[t] = [loc[t] EXCEPT !.pc = pc]
  BY DEF Goto, Others, Locals

LEMMA RestLocals ==
  ASSUME NEW pc \in Pcs, NEW own \in Ctr \cup {None}
  PROVE  AtRest(pc, own) \in Locals
  BY Zenon DEF AtRest, Locals, States

\* The fields that an action writes together with the program counter.
LEMMA LocalsOk ==
  ASSUME NEW l \in Locals, NEW pc \in Pcs, NEW ok \in BOOLEAN
  PROVE  [l EXCEPT !.pc = pc, !.ok = ok] \in Locals
  BY ZenonT(60) DEF Locals

LEMMA LocalsNested ==
  ASSUME NEW l \in Locals, NEW pc \in Pcs, NEW nested \in BOOLEAN
  PROVE  [l EXCEPT !.pc = pc, !.nested = nested] \in Locals
  BY ZenonT(60) DEF Locals

LEMMA LocalsCtr ==
  ASSUME NEW l \in Locals, NEW pc \in Pcs, NEW pod \in Pod, NEW ctr \in Ctr
  PROVE  [l EXCEPT !.pc = pc, !.pod = pod, !.ctr = ctr] \in Locals
  BY ZenonT(60) DEF Locals

LEMMA LocalsMon ==
  ASSUME NEW l \in Locals, NEW pc \in Pcs, NEW mon \in Mon \cup {None}
  PROVE  [l EXCEPT !.pc = pc, !.mon = mon] \in Locals
  BY ZenonT(60) DEF Locals

LEMMA LocalsSt ==
  ASSUME NEW l \in Locals, NEW pc \in Pcs, NEW st \in States
  PROVE  [l EXCEPT !.pc = pc, !.st = st] \in Locals
  BY ZenonT(60) DEF Locals

LEMMA ReturnLocals ==
  ASSUME loc \in [Thread -> Locals], NEW t \in Thread, NEW ok \in BOOLEAN, Return(t, ok)
  PROVE  /\ loc' \in [Thread -> Locals] /\ Others(t)
         /\ loc'[t].pc = (IF t \in Caller THEN "idle" ELSE "mn_after")
         /\ loc'[t].own = (IF t \in Caller THEN None ELSE loc[t].own)
         /\ loc'[t].nested = FALSE
  <1>1. AtRest("idle", None) \in Locals /\ AtRest("mn_after", loc[t].own) \in Locals
    <2>1. loc[t].own \in Ctr \cup {None}
      BY Zenon DEF Locals
    <2> QED
      BY <2>1, RestLocals, PcMembers, Zenon
  <1>2. [AtRest("mn_after", loc[t].own) EXCEPT !.ok = ok] \in Locals
    BY <1>1 DEF Locals
  <1> QED
    BY <1>1, <1>2, Zenon DEF Return, Others, AtRest

LEMMA StopPodCheckKeeps ==
  ASSUME EngineInv, NEW t \in Thread, StopPodCheck(t)
  PROVE  EngineInv'
  <1> t \in Thread /\ loc \in [Thread -> Locals] /\ TypeOK /\ ScopeOf(t)
    BY Zenon DEF Thread, EngineInv, Types, Scope
  <1>1. loc' \in [Thread -> Locals] /\ Others(t)
    <2>1. CASE loc' = [loc EXCEPT ![t].pc = "sc_enter", ![t].nested = TRUE]
      <3>1. [loc[t] EXCEPT !.pc = "sc_enter", !.nested = TRUE] \in Locals
        BY PcMembers, LocalsNested, Zenon
      <3>2. loc' = [loc EXCEPT ![t] = [loc[t] EXCEPT !.pc = "sc_enter",
                !.nested = TRUE]]
        BY <2>1, Zenon
      <3> QED
        BY <3>1, <3>2, UpdateLocals, Zenon
    <2>2. CASE Goto(t, "sp_kernel")
      BY <2>2, GotoLocals, PcMembers, Zenon
    <2> QED
      BY <2>1, <2>2, Zenon DEF StopPodCheck
  <1>2. TypeOK'
    BY EngineAssumption, Zenon DEF StopPodCheck, TypeOK, Locals, States, tables, locks,
       monv, res, ext
  <1>3. ScopeOf(t)'
    BY EngineAssumption DEF StopPodCheck, ScopeOf, InCleanup, Locals, Pcs, MonPcs,
       RunPcs, CtrPcs, NestedPcs, StopPcs, AtRest, Goto, Return, Thread
  <1>4. Quiet(t)
    BY <1>1, EngineAssumption DEF StopPodCheck, Quiet, ScopeOf, InCleanup, InStop,
       Locals, Pcs, MonPcs, RunPcs, CtrPcs, NestedPcs, StopPcs, AtRest, Goto, Return,
       tables, Thread
  <1>5. Linked'
    BY Zenon DEF EngineInv, Linked, StopPodCheck, tables
  <1> QED
    BY <1>1, <1>2, <1>3, <1>4, <1>5, QuietKeeps, Zenon DEF Types

LEMMA StopPodKernelKeeps ==
  ASSUME EngineInv, NEW t \in Thread, StopPodKernel(t)
  PROVE  EngineInv'
  <1> t \in Thread /\ loc \in [Thread -> Locals] /\ TypeOK /\ ScopeOf(t)
    BY Zenon DEF Thread, EngineInv, Types, Scope
  <1>1. loc' \in [Thread -> Locals] /\ Others(t)
    <2>1. CASE loc' = [loc EXCEPT ![t].pc = "sp_final", ![t].ok = TRUE]
      <3>1. [loc[t] EXCEPT !.pc = "sp_final", !.ok = TRUE] \in Locals
        BY PcMembers, LocalsOk, Zenon
      <3>2. loc' = [loc EXCEPT ![t] = [loc[t] EXCEPT !.pc = "sp_final", !.ok = TRUE]]
        BY <2>1, Zenon
      <3> QED
        BY <3>1, <3>2, UpdateLocals, Zenon
    <2>2. CASE loc' = [loc EXCEPT ![t].pc = "sp_end", ![t].ok = FALSE]
      <3>1. [loc[t] EXCEPT !.pc = "sp_end", !.ok = FALSE] \in Locals
        BY PcMembers, LocalsOk, Zenon
      <3>2. loc' = [loc EXCEPT ![t] = [loc[t] EXCEPT !.pc = "sp_end", !.ok = FALSE]]
        BY <2>2, Zenon
      <3> QED
        BY <3>1, <3>2, UpdateLocals, Zenon
    <2>3. CASE Goto(t, "sp_final")
      BY <2>3, GotoLocals, PcMembers, Zenon
    <2> QED
      BY <2>1, <2>2, <2>3, Zenon DEF StopPodKernel
  <1>2. TypeOK'
    <2>1. ASSUME NEW ok \in BOOLEAN, StopKernel(t, loc[t].pod, ok)
          PROVE  live' \in [Pod -> PeerId \cup {None}]
              /\ startedKernels' \subseteq Pod /\ guest' = guest
      BY <2>1 DEF StopKernel, TypeOK
    <2> QED
      BY <2>1, ZenonT(60) DEF TypeOK, StopPodKernel, tables, locks, monv, res, ext
  <1>3. ScopeOf(t)'
    <2>1. /\ loc[t].pc = "sp_kernel" /\ loc'[t].pc \in {"sp_final", "sp_end"}
          /\ loc'[t].own = loc[t].own /\ loc'[t].pod = loc[t].pod
          /\ loc'[t].ctr = loc[t].ctr /\ loc'[t].ip = loc[t].ip
          /\ loc'[t].nested = loc[t].nested
      <3>0. loc[t].pc = "sp_kernel"
        BY Zenon DEF StopPodKernel
      <3>1. CASE loc' = [loc EXCEPT ![t].pc = "sp_final", ![t].ok = TRUE]
        BY <3>0, <3>1 DEF Locals
      <3>2. CASE loc' = [loc EXCEPT ![t].pc = "sp_end", ![t].ok = FALSE]
        BY <3>0, <3>2 DEF Locals
      <3>3. CASE Goto(t, "sp_final")
        BY <3>0, <3>3 DEF Goto, Locals
      <3> QED
        BY <3>1, <3>2, <3>3, Zenon DEF StopPodKernel
    <2> QED
      BY <2>1, EngineAssumption, ZenonT(60) DEF ScopeOf, InCleanup, Pcs, MonPcs, RunPcs,
         CtrPcs, NestedPcs, StopPcs, Thread
  <1>4. Quiet(t)
    <2>1. /\ loc[t].pc = "sp_kernel" /\ loc'[t].pc \in {"sp_final", "sp_end"}
          /\ loc'[t].own = loc[t].own /\ loc'[t].pod = loc[t].pod
          /\ loc'[t].ctr = loc[t].ctr /\ loc'[t].ip = loc[t].ip
          /\ loc'[t].nested = loc[t].nested
      <3>0. loc[t].pc = "sp_kernel"
        BY Zenon DEF StopPodKernel
      <3>1. CASE loc' = [loc EXCEPT ![t].pc = "sp_final", ![t].ok = TRUE]
        <4>1. loc'[t] = [loc[t] EXCEPT !.pc = "sp_final",
                  !.ok = TRUE] /\ loc[t] \in Locals
          BY <3>1, Zenon
        <4> QED
          BY <3>0, <4>1 DEF Locals
      <3>2. CASE loc' = [loc EXCEPT ![t].pc = "sp_end", ![t].ok = FALSE]
        <4>1. loc'[t] = [loc[t] EXCEPT !.pc = "sp_end",
                  !.ok = FALSE] /\ loc[t] \in Locals
          BY <3>2, Zenon
        <4> QED
          BY <3>0, <4>1 DEF Locals
      <3>3. CASE Goto(t, "sp_final")
        BY <3>0, <3>3 DEF Goto, Locals
      <3> QED
        BY <3>1, <3>2, <3>3, Zenon DEF StopPodKernel
    <2>2. UNCHANGED <<podState, podIP, kernels, locks, monv, res>>
      BY Zenon DEF StopPodKernel, tables
    <2> QED
      BY <1>1, <2>1, <2>2, ZenonT(60) DEF Quiet, ScopeOf, InCleanup, InStop, Pcs,
         MonPcs, RunPcs, CtrPcs, NestedPcs, StopPcs
  <1>5. Linked'
    BY ZenonT(60) DEF EngineInv, Linked, StopPodKernel, tables
  <1> QED
    BY <1>1, <1>2, <1>3, <1>4, <1>5, QuietKeeps, Zenon DEF Types

LEMMA RemovePodKernelKeeps ==
  ASSUME EngineInv, NEW t \in Thread, RemovePodKernel(t)
  PROVE  EngineInv'
  <1> t \in Thread /\ loc \in [Thread -> Locals] /\ TypeOK /\ ScopeOf(t)
    BY Zenon DEF Thread, EngineInv, Types, Scope
  <1>1. loc' \in [Thread -> Locals] /\ Others(t)
    <2>1. CASE Goto(t, "rm_final")
      BY <2>1, GotoLocals, PcMembers, Zenon
    <2> QED
      BY <2>1, Zenon DEF RemovePodKernel
  <1>2. TypeOK'
    <2>1. ASSUME NEW ok \in BOOLEAN, StopKernel(t, loc[t].pod, ok)
          PROVE  live' \in [Pod -> PeerId \cup {None}]
              /\ startedKernels' \subseteq Pod /\ guest' = guest
      BY <2>1, ZenonT(60) DEF StopKernel, TypeOK
    <2> QED
      BY <2>1, Zenon DEF TypeOK, RemovePodKernel, tables, locks, monv, res, ext
  <1>3. ScopeOf(t)'
    BY EngineAssumption, SMTT(60) DEF RemovePodKernel, ScopeOf, InCleanup, Locals, Pcs,
       MonPcs, RunPcs, CtrPcs, NestedPcs, StopPcs, AtRest, Goto, Return, Thread
  <1>4. Quiet(t)
    BY <1>1, EngineAssumption DEF RemovePodKernel, Quiet, ScopeOf, InCleanup, InStop,
       Locals, Pcs, MonPcs, RunPcs, CtrPcs, NestedPcs, StopPcs, AtRest, Goto, Return,
       tables, Thread
  <1>5. Linked'
    BY Zenon DEF EngineInv, Linked, RemovePodKernel, tables
  <1> QED
    BY <1>1, <1>2, <1>3, <1>4, <1>5, QuietKeeps, Zenon DEF Types

LEMMA CreateContainerKeeps ==
  ASSUME EngineInv, NEW t \in Thread, NEW c \in Ctr, CreateContainer(t, c)
  PROVE  EngineInv'
  <1> t \in Thread /\ loc \in [Thread -> Locals] /\ TypeOK /\ ScopeOf(t)
    BY Zenon DEF Thread, EngineInv, Types, Scope
  <1>1. loc' \in [Thread -> Locals] /\ Others(t)
    <2>1. CASE loc' = [loc EXCEPT ![t].pc = "cc_rpc", ![t].pod = CtrPod[c],
                   ![t].ctr = c]
      <3>0. CtrPod[c] \in Pod
        BY EngineAssumption, Zenon
      <3>1. [loc[t] EXCEPT !.pc = "cc_rpc", !.pod = CtrPod[c], !.ctr = c] \in Locals
        BY <3>0, PcMembers, LocalsCtr, Zenon
      <3>2. loc' = [loc EXCEPT ![t] = [loc[t] EXCEPT !.pc = "cc_rpc", !.pod = CtrPod[c],
                !.ctr = c]]
        BY <2>1, Zenon
      <3> QED
        BY <3>1, <3>2, UpdateLocals, Zenon
    <2> QED
      BY <2>1, Zenon DEF CreateContainer, NewCall, PodExists
  <1>2. TypeOK'
    BY EngineAssumption DEF CreateContainer, NewCall, PodExists, TypeOK, Locals, States,
       tables, locks, monv, res, ext
  <1>3. ScopeOf(t)'
    BY EngineAssumption, SMTT(60) DEF CreateContainer, NewCall, ScopeOf, MonPcs, RunPcs,
       NestedPcs
  <1>4. Quiet(t)
    BY <1>1, SMTT(60) DEF CreateContainer, NewCall, Quiet, InCleanup, InStop, Locals,
       RunPcs, tables
  <1>5. Linked'
    BY Zenon DEF EngineInv, Linked, CreateContainer, tables
  <1> QED
    BY <1>1, <1>2, <1>3, <1>4, <1>5, QuietKeeps, Zenon DEF Types

LEMMA CreateContainerRemoteKeeps ==
  ASSUME EngineInv, NEW t \in Thread, CreateContainerRemote(t)
  PROVE  EngineInv'
  <1> t \in Thread /\ loc \in [Thread -> Locals] /\ TypeOK /\ ScopeOf(t)
    BY Zenon DEF Thread, EngineInv, Types, Scope
  <1>1. loc' \in [Thread -> Locals] /\ Others(t)
    <2>1. CASE Goto(t, "cc_register")
      BY <2>1, GotoLocals, PcMembers, Zenon
    <2>2. CASE Return(t, FALSE)
      BY <2>2, ReturnLocals, Zenon
    <2> QED
      BY <2>1, <2>2, ZenonT(60) DEF CreateContainerRemote
  <1>2. TypeOK'
    <2>1. guest' \in [Ctr -> {"none", "created", "running", "exited"}]
      BY ZenonT(60) DEF TypeOK, CreateContainerRemote
    <2> QED
      BY <2>1, Zenon DEF TypeOK, CreateContainerRemote, tables, locks, monv, res
  <1>3. ScopeOf(t)'
    BY SMTT(60) DEF CreateContainerRemote, ScopeOf, InCleanup, Locals, MonPcs, RunPcs,
       CtrPcs, NestedPcs, AtRest, Goto, Return
  <1>4. Quiet(t)
    BY <1>1, EngineAssumption, SMTT(60) DEF CreateContainerRemote, Quiet, InCleanup,
       InStop, Locals, RunPcs, AtRest, Goto, Return, tables
  <1>5. Linked'
    BY Zenon DEF EngineInv, Linked, CreateContainerRemote, tables
  <1> QED
    BY <1>1, <1>2, <1>3, <1>4, <1>5, QuietKeeps, Zenon DEF Types

LEMMA CreateContainerRegisterKeeps ==
  ASSUME EngineInv, NEW t \in Thread, CreateContainerRegister(t)
  PROVE  EngineInv'
  <1> t \in Thread /\ loc \in [Thread -> Locals] /\ TypeOK /\ ScopeOf(t)
    BY Zenon DEF Thread, EngineInv, Types, Scope
  <1>1. loc' \in [Thread -> Locals] /\ Others(t)
    <2>1. CASE Return(t, TRUE)
      BY <2>1, ReturnLocals, ZenonT(60)
    <2> QED
      BY <2>1, Zenon DEF CreateContainerRegister
  <1>2. TypeOK'
    BY EngineAssumption, ZenonT(60) DEF CreateContainerRegister, TypeOK, Locals, States,
       tables, locks, monv, res, ext
  <1>3. ScopeOf(t)'
    BY EngineAssumption, SMTT(60) DEF CreateContainerRegister, ScopeOf, InCleanup,
       Locals, Pcs, MonPcs, RunPcs, CtrPcs, NestedPcs, StopPcs, AtRest, Goto, Return,
       Thread
  <1>4. Quiet(t)
    BY <1>1, EngineAssumption, ZenonT(60) DEF CreateContainerRegister, Quiet, InCleanup,
       InStop, RunPcs, AtRest, Return
  <1>5. Linked'
    <2>1. loc[t].ctr \in Ctr /\ loc[t].pod = CtrPod[loc[t].ctr]
      BY Zenon DEF CreateContainerRegister, ScopeOf, CtrPcs
    <2> QED
      BY <2>1, SMTT(60) DEF EngineInv, Linked, CreateContainerRegister
  <1> QED
    BY <1>1, <1>2, <1>3, <1>4, <1>5, QuietKeeps, Zenon DEF Types

LEMMA StartContainerKeeps ==
  ASSUME EngineInv, NEW t \in Thread, NEW c \in Ctr, StartContainer(t, c)
  PROVE  EngineInv'
  <1> t \in Thread /\ loc \in [Thread -> Locals] /\ TypeOK /\ ScopeOf(t)
    BY Zenon DEF Thread, EngineInv, Types, Scope
  <1>1. loc' \in [Thread -> Locals] /\ Others(t)
    <2>1. CASE loc' = [loc EXCEPT ![t].pc = "st_rpc", ![t].pod = CtrPod[c],
                   ![t].ctr = c]
      <3>0. CtrPod[c] \in Pod
        BY EngineAssumption, Zenon
      <3>1. [loc[t] EXCEPT !.pc = "st_rpc", !.pod = CtrPod[c], !.ctr = c] \in Locals
        BY <3>0, PcMembers, LocalsCtr, Zenon
      <3>2. loc' = [loc EXCEPT ![t] = [loc[t] EXCEPT !.pc = "st_rpc", !.pod = CtrPod[c],
                !.ctr = c]]
        BY <2>1, Zenon
      <3> QED
        BY <3>1, <3>2, UpdateLocals, Zenon
    <2> QED
      BY <2>1, Zenon DEF StartContainer, NewCall, PodExists
  <1>2. TypeOK'
    BY EngineAssumption DEF StartContainer, NewCall, PodExists, TypeOK, Locals, States,
       tables, locks, monv, res, ext
  <1>3. ScopeOf(t)'
    BY EngineAssumption, SMTT(60) DEF StartContainer, NewCall, ScopeOf, MonPcs, RunPcs,
       NestedPcs
  <1>4. Quiet(t)
    BY <1>1, SMTT(60) DEF StartContainer, NewCall, Quiet, InCleanup, InStop, Locals,
       RunPcs, tables
  <1>5. Linked'
    BY Zenon DEF EngineInv, Linked, StartContainer, tables
  <1> QED
    BY <1>1, <1>2, <1>3, <1>4, <1>5, QuietKeeps, Zenon DEF Types

LEMMA StartContainerRemoteKeeps ==
  ASSUME EngineInv, NEW t \in Thread, StartContainerRemote(t)
  PROVE  EngineInv'
  <1> t \in Thread /\ loc \in [Thread -> Locals] /\ TypeOK /\ ScopeOf(t)
    BY Zenon DEF Thread, EngineInv, Types, Scope
  <1>1. loc' \in [Thread -> Locals] /\ Others(t)
    <2>1. CASE Goto(t, "st_apply")
      BY <2>1, GotoLocals, PcMembers, ZenonT(60)
    <2>2. CASE Return(t, FALSE)
      BY <2>2, ReturnLocals, Zenon
    <2> QED
      BY <2>1, <2>2, Zenon DEF StartContainerRemote
  <1>2. TypeOK'
    <2>1. guest' \in [Ctr -> {"none", "created", "running", "exited"}]
      BY ZenonT(60) DEF TypeOK, StartContainerRemote
    <2> QED
      BY <2>1, ZenonT(60) DEF TypeOK, StartContainerRemote, tables, locks, monv, res
  <1>3. ScopeOf(t)'
    BY SMTT(60) DEF StartContainerRemote, ScopeOf, InCleanup, Locals, MonPcs, RunPcs,
       CtrPcs, NestedPcs, AtRest, Goto, Return
  <1>4. Quiet(t)
    BY <1>1, EngineAssumption, SMTT(60) DEF StartContainerRemote, Quiet, InCleanup,
       InStop, Locals, RunPcs, AtRest, Goto, Return, tables
  <1>5. Linked'
    BY ZenonT(60) DEF EngineInv, Linked, StartContainerRemote, tables
  <1> QED
    BY <1>1, <1>2, <1>3, <1>4, <1>5, QuietKeeps, Zenon DEF Types

LEMMA StartContainerApplyKeeps ==
  ASSUME EngineInv, NEW t \in Thread, StartContainerApply(t)
  PROVE  EngineInv'
  <1> t \in Thread /\ loc \in [Thread -> Locals] /\ TypeOK /\ ScopeOf(t)
    BY Zenon DEF Thread, EngineInv, Types, Scope
  <1>1. loc' \in [Thread -> Locals] /\ Others(t)
    <2>1. CASE Goto(t, "ms_swap")
      BY <2>1, GotoLocals, PcMembers, ZenonT(60)
    <2> QED
      BY <2>1, Zenon DEF StartContainerApply
  <1>2. TypeOK'
    BY EngineAssumption, ZenonT(60) DEF StartContainerApply, TypeOK, Locals, States,
       tables, locks, monv, res, ext
  <1>3. ScopeOf(t)'
    BY EngineAssumption, SMTT(60) DEF StartContainerApply, ScopeOf, InCleanup, Locals,
       Pcs, MonPcs, RunPcs, CtrPcs, NestedPcs, StopPcs, AtRest, Goto, Return, Thread
  <1>4. Quiet(t)
    BY <1>1, EngineAssumption DEF StartContainerApply, Quiet, ScopeOf, InCleanup,
       InStop, Locals, Pcs, MonPcs, RunPcs, CtrPcs, NestedPcs, StopPcs, AtRest, Goto,
       Return, tables, Thread
  <1>5. Linked'
    BY ZenonT(60) DEF EngineInv, Linked, StartContainerApply, tables
  <1> QED
    BY <1>1, <1>2, <1>3, <1>4, <1>5, QuietKeeps, Zenon DEF Types

LEMMA StopContainerWaitKeeps ==
  ASSUME EngineInv, NEW t \in Thread, StopContainerWait(t)
  PROVE  EngineInv'
  <1> t \in Thread /\ loc \in [Thread -> Locals] /\ TypeOK /\ ScopeOf(t)
    BY Zenon DEF Thread, EngineInv, Types, Scope
  <1>1. loc' \in [Thread -> Locals] /\ Others(t)
    <2>1. CASE loc' = [loc EXCEPT ![t].pc = "sc_rpc", ![t].mon = None]
      <3>1. [loc[t] EXCEPT !.pc = "sc_rpc", !.mon = None] \in Locals
        BY PcMembers, LocalsMon, Zenon
      <3>2. loc' = [loc EXCEPT ![t] = [loc[t] EXCEPT !.pc = "sc_rpc", !.mon = None]]
        BY <2>1, Zenon
      <3> QED
        BY <3>1, <3>2, UpdateLocals, ZenonT(60)
    <2> QED
      BY <2>1, Zenon DEF StopContainerWait
  <1>2. TypeOK'
    BY EngineAssumption, Zenon DEF StopContainerWait, TypeOK, Locals, States, tables,
       locks, monv, res, ext
  <1>3. ScopeOf(t)'
    BY SMTT(60) DEF StopContainerWait, ScopeOf, InCleanup, MonPcs, RunPcs, CtrPcs,
       NestedPcs, StopPcs
  <1>4. Quiet(t)
    BY <1>1, SMTT(60) DEF StopContainerWait, Quiet, InCleanup, InStop, RunPcs, tables
  <1>5. Linked'
    BY Zenon DEF EngineInv, Linked, StopContainerWait, tables
  <1> QED
    BY <1>1, <1>2, <1>3, <1>4, <1>5, QuietKeeps, Zenon DEF Types

LEMMA StopContainerRemoteKeeps ==
  ASSUME EngineInv, NEW t \in Thread, StopContainerRemote(t)
  PROVE  EngineInv'
  <1> t \in Thread /\ loc \in [Thread -> Locals] /\ TypeOK /\ ScopeOf(t)
    BY Zenon DEF Thread, EngineInv, Types, Scope
  <1>1. loc' \in [Thread -> Locals] /\ Others(t)
    <2>1. CASE Goto(t, "sc_apply")
      BY <2>1, GotoLocals, PcMembers, ZenonT(60)
    <2>2. CASE loc' = [loc EXCEPT ![t].pc = "sc_end", ![t].ok = FALSE]
      <3>1. [loc[t] EXCEPT !.pc = "sc_end", !.ok = FALSE] \in Locals
        BY PcMembers, LocalsOk, Zenon
      <3>2. loc' = [loc EXCEPT ![t] = [loc[t] EXCEPT !.pc = "sc_end", !.ok = FALSE]]
        BY <2>2, Zenon
      <3> QED
        BY <3>1, <3>2, UpdateLocals, ZenonT(60)
    <2> QED
      BY <2>1, <2>2, ZenonT(60) DEF StopContainerRemote
  <1>2. TypeOK'
    <2>1. guest' \in [Ctr -> {"none", "created", "running", "exited"}]
      BY DEF TypeOK, StopContainerRemote, GuestStopped
    <2> QED
      BY <2>1, Zenon DEF TypeOK, StopContainerRemote, GuestStopped, tables, locks, monv,
         res
  <1>3. ScopeOf(t)'
    BY EngineAssumption DEF StopContainerRemote, ScopeOf, InCleanup, Locals, Pcs,
       MonPcs, RunPcs, CtrPcs, NestedPcs, StopPcs, AtRest, Goto, Return, Thread
  <1>4. Quiet(t)
    BY <1>1, EngineAssumption, SMTT(60) DEF StopContainerRemote, Quiet, ScopeOf,
       InCleanup, InStop, Locals, Pcs, MonPcs, RunPcs, CtrPcs, NestedPcs, StopPcs,
       AtRest, Goto, Return, tables, Thread
  <1>5. Linked'
    BY ZenonT(60) DEF EngineInv, Linked, StopContainerRemote, tables
  <1> QED
    BY <1>1, <1>2, <1>3, <1>4, <1>5, QuietKeeps, Zenon DEF Types

LEMMA StopContainerApplyKeeps ==
  ASSUME EngineInv, NEW t \in Thread, StopContainerApply(t)
  PROVE  EngineInv'
  <1> t \in Thread /\ loc \in [Thread -> Locals] /\ TypeOK /\ ScopeOf(t)
    BY Zenon DEF Thread, EngineInv, Types, Scope
  <1>1. loc' \in [Thread -> Locals] /\ Others(t)
    <2>1. CASE loc' = [loc EXCEPT ![t].pc = "sc_end", ![t].ok = TRUE]
      <3>1. [loc[t] EXCEPT !.pc = "sc_end", !.ok = TRUE] \in Locals
        BY PcMembers, LocalsOk, Zenon
      <3>2. loc' = [loc EXCEPT ![t] = [loc[t] EXCEPT !.pc = "sc_end", !.ok = TRUE]]
        BY <2>1, Zenon
      <3> QED
        BY <3>1, <3>2, UpdateLocals, ZenonT(60)
    <2> QED
      BY <2>1, Zenon DEF StopContainerApply
  <1>2. TypeOK'
    BY EngineAssumption, Zenon DEF StopContainerApply, TypeOK, Locals, States, tables,
       locks, monv, res, ext
  <1>3. ScopeOf(t)'
    BY EngineAssumption, SMTT(60) DEF StopContainerApply, ScopeOf, InCleanup, Locals,
       Pcs, MonPcs, RunPcs, CtrPcs, NestedPcs, StopPcs, AtRest, Goto, Return, Thread
  <1>4. Quiet(t)
    BY <1>1, SMTT(60) DEF StopContainerApply, Quiet, InCleanup, InStop, RunPcs
  <1>5. Linked'
    BY Zenon DEF EngineInv, Linked, StopContainerApply, tables
  <1> QED
    BY <1>1, <1>2, <1>3, <1>4, <1>5, QuietKeeps, Zenon DEF Types

LEMMA RemoveContainerKeeps ==
  ASSUME EngineInv, NEW t \in Thread, NEW c \in Ctr, RemoveContainer(t, c)
  PROVE  EngineInv'
  <1> t \in Thread /\ loc \in [Thread -> Locals] /\ TypeOK /\ ScopeOf(t)
    BY Zenon DEF Thread, EngineInv, Types, Scope
  <1>1. loc' \in [Thread -> Locals] /\ Others(t)
    <2>1. CASE loc' = [loc EXCEPT ![t].pc = "rc_orphan", ![t].pod = CtrPod[c],
                   ![t].ctr = c]
      <3>0. CtrPod[c] \in Pod
        BY EngineAssumption, Zenon
      <3>1. [loc[t] EXCEPT !.pc = "rc_orphan", !.pod = CtrPod[c], !.ctr = c] \in Locals
        BY <3>0, PcMembers, LocalsCtr, Zenon
      <3>2. loc' = [loc EXCEPT ![t] = [loc[t] EXCEPT !.pc = "rc_orphan",
                !.pod = CtrPod[c], !.ctr = c]]
        BY <2>1, Zenon
      <3> QED
        BY <3>1, <3>2, UpdateLocals, ZenonT(60)
    <2>2. CASE loc' = [loc EXCEPT ![t].pc = "rc_final", ![t].pod = CtrPod[c],
                   ![t].ctr = c]
      <3>0. CtrPod[c] \in Pod
        BY EngineAssumption, Zenon
      <3>1. [loc[t] EXCEPT !.pc = "rc_final", !.pod = CtrPod[c], !.ctr = c] \in Locals
        BY <3>0, PcMembers, LocalsCtr, Zenon
      <3>2. loc' = [loc EXCEPT ![t] = [loc[t] EXCEPT !.pc = "rc_final",
                !.pod = CtrPod[c], !.ctr = c]]
        BY <2>2, Zenon
      <3> QED
        BY <3>1, <3>2, UpdateLocals, Zenon
    <2>3. CASE loc' = [loc EXCEPT ![t].pc = "rc_rpc", ![t].pod = CtrPod[c],
                   ![t].ctr = c]
      <3>0. CtrPod[c] \in Pod
        BY EngineAssumption, Zenon
      <3>1. [loc[t] EXCEPT !.pc = "rc_rpc", !.pod = CtrPod[c], !.ctr = c] \in Locals
        BY <3>0, PcMembers, LocalsCtr, Zenon
      <3>2. loc' = [loc EXCEPT ![t] = [loc[t] EXCEPT !.pc = "rc_rpc", !.pod = CtrPod[c],
                !.ctr = c]]
        BY <2>3, Zenon
      <3> QED
        BY <3>1, <3>2, UpdateLocals, ZenonT(60)
    <2>4. CASE Goto(t, "rm_kernel")
      BY <2>4, GotoLocals, PcMembers, Zenon
    <2>5. CASE Return(t, TRUE)
      BY <2>5, ReturnLocals, Zenon
    <2> QED
      BY <2>1, <2>2, <2>3, <2>4, <2>5, ZenonT(60) DEF RemoveContainer, Enter, NewCall,
         CtrArg, PodExists, RemoveReturn
  <1>2. TypeOK'
    BY EngineAssumption, SMTT(60) DEF RemoveContainer, Enter, NewCall, TypeOK, tables,
       locks, monv, res, ext
  <1>a. /\ loc[t].pc \in {"idle", "rc_enter"} /\ t \notin Mon
        /\ loc[t].nested => loc[t].ctr = c /\ loc[t].pod = CtrPod[c]
    BY EngineAssumption, ZenonT(60) DEF RemoveContainer, Enter, NewCall, CtrArg,
       ScopeOf, InCleanup, MonPcs, NestedPcs
  <1>b. \/ /\ loc'[t].pc \in {"rc_orphan", "rc_final", "rc_rpc"}
           /\ loc'[t].ctr = c /\ loc'[t].pod = CtrPod[c] /\ loc'[t].ip = loc[t].ip
           /\ loc'[t].nested = loc[t].nested
        \/ /\ loc[t].nested /\ loc'[t].pc = "rm_kernel" /\ loc'[t].ctr = loc[t].ctr
           /\ loc'[t].pod = loc[t].pod /\ loc'[t].ip = loc[t].ip
        \/ loc'[t].pc \in {"idle", "mn_after"} /\ ~loc'[t].nested
    BY SMTT(60) DEF RemoveContainer, RemoveReturn, Goto, Return, AtRest, Locals
  <1>c. UNCHANGED <<podState, podIP, kernels, locks, monv, res>>
    BY Zenon DEF RemoveContainer, tables
  <1>d. CtrPod[c] \in Pod
    BY EngineAssumption, Zenon
  <1>3. ScopeOf(t)'
    BY <1>a, <1>b, <1>d, ZenonT(60) DEF ScopeOf, InCleanup, RunPcs, CtrPcs, NestedPcs
  <1>4. Quiet(t)
    BY <1>1, <1>a, <1>b, <1>c, ZenonT(60) DEF Quiet, InCleanup, InStop, RunPcs
  <1>5. Linked'
    BY Zenon DEF EngineInv, Linked, RemoveContainer, tables
  <1> QED
    BY <1>1, <1>2, <1>3, <1>4, <1>5, QuietKeeps, Zenon DEF Types

LEMMA RemoveContainerRemoteKeeps ==
  ASSUME EngineInv, NEW t \in Thread, RemoveContainerRemote(t)
  PROVE  EngineInv'
  <1> t \in Thread /\ loc \in [Thread -> Locals] /\ TypeOK /\ ScopeOf(t)
    BY Zenon DEF Thread, EngineInv, Types, Scope
  <1>1. loc' \in [Thread -> Locals] /\ Others(t)
    <2>1. CASE Goto(t, "rc_final")
      BY <2>1, GotoLocals, PcMembers, ZenonT(60)
    <2> QED
      BY <2>1, Zenon DEF RemoveContainerRemote
  <1>2. TypeOK'
    BY ZenonT(60) DEF RemoveContainerRemote, TypeOK, tables, locks, monv, res
  <1>3. ScopeOf(t)'
    BY EngineAssumption, SMTT(60) DEF RemoveContainerRemote, ScopeOf, InCleanup, Locals,
       Pcs, MonPcs, RunPcs, CtrPcs, NestedPcs, StopPcs, AtRest, Goto, Return, Thread
  <1>4. Quiet(t)
    BY <1>1, SMTT(60) DEF RemoveContainerRemote, Quiet, InCleanup, InStop, RunPcs, Goto,
       tables
  <1>5. Linked'
    BY ZenonT(60) DEF EngineInv, Linked, RemoveContainerRemote, tables
  <1> QED
    BY <1>1, <1>2, <1>3, <1>4, <1>5, QuietKeeps, Zenon DEF Types

LEMMA RemoveContainerOrphanKeeps ==
  ASSUME EngineInv, NEW t \in Thread, RemoveContainerOrphan(t)
  PROVE  EngineInv'
  <1> t \in Thread /\ loc \in [Thread -> Locals] /\ TypeOK /\ ScopeOf(t)
    BY Zenon DEF Thread, EngineInv, Types, Scope
  <1>1. loc' \in [Thread -> Locals] /\ Others(t)
    <2>1. CASE Goto(t, "rm_kernel")
      BY <2>1, GotoLocals, PcMembers, ZenonT(60)
    <2>2. CASE Return(t, TRUE)
      BY <2>2, ReturnLocals, Zenon
    <2> QED
      BY <2>1, <2>2, ZenonT(60) DEF RemoveContainerOrphan, ForgetContainer, RemoveReturn
  <1>2. TypeOK'
    BY EngineAssumption, ZenonT(60) DEF RemoveContainerOrphan, ForgetContainer,
       RemoveReturn, TypeOK, Locals, States, tables, locks, monv, res, ext
  <1>3. ScopeOf(t)'
    BY EngineAssumption, SMTT(60) DEF RemoveContainerOrphan, ForgetContainer,
       RemoveReturn, ScopeOf, InCleanup, Locals, Pcs, MonPcs, RunPcs, CtrPcs, NestedPcs,
       StopPcs, AtRest, Goto, Return, Thread
  <1>4. Quiet(t)
    BY <1>1, EngineAssumption, SMTT(60) DEF RemoveContainerOrphan, ForgetContainer,
       RemoveReturn, Quiet, ScopeOf, InCleanup, InStop, Locals, Pcs, MonPcs, RunPcs,
       CtrPcs, NestedPcs, StopPcs, AtRest, Goto, Return, tables, Thread
  <1>5. Linked'
    BY SMTT(60) DEF EngineInv, Linked, RemoveContainerOrphan, ForgetContainer
  <1> QED
    BY <1>1, <1>2, <1>3, <1>4, <1>5, QuietKeeps, Zenon DEF Types

LEMMA RefreshContainerStatusKeeps ==
  ASSUME EngineInv, NEW t \in Thread, NEW c \in Ctr, RefreshContainerStatus(t, c)
  PROVE  EngineInv'
  <1> t \in Thread /\ loc \in [Thread -> Locals] /\ TypeOK /\ ScopeOf(t)
    BY Zenon DEF Thread, EngineInv, Types, Scope
  <1>1. loc' \in [Thread -> Locals] /\ Others(t)
    <2>1. CASE loc' = [loc EXCEPT ![t].pc = "rs_rpc", ![t].pod = CtrPod[c],
                   ![t].ctr = c]
      <3>0. CtrPod[c] \in Pod
        BY EngineAssumption, Zenon
      <3>1. [loc[t] EXCEPT !.pc = "rs_rpc", !.pod = CtrPod[c], !.ctr = c] \in Locals
        BY <3>0, PcMembers, LocalsCtr, Zenon
      <3>2. loc' = [loc EXCEPT ![t] = [loc[t] EXCEPT !.pc = "rs_rpc", !.pod = CtrPod[c],
                !.ctr = c]]
        BY <2>1, Zenon
      <3> QED
        BY <3>1, <3>2, UpdateLocals, ZenonT(60)
    <2>2. CASE Goto(t, "mn_decide")
      BY <2>2, GotoLocals, PcMembers, Zenon
    <2>3. CASE Return(t, TRUE)
      BY <2>3, ReturnLocals, Zenon
    <2> QED
      BY <2>1, <2>2, <2>3, ZenonT(60) DEF RefreshContainerStatus, Enter, NewCall,
         CtrArg, RefreshReturn
  <1>2. TypeOK'
    BY EngineAssumption, SMTT(60) DEF RefreshContainerStatus, Enter, NewCall, CtrArg,
       RefreshReturn, TypeOK, Locals, States, tables, locks, monv, res, ext
  <1>a. /\ loc[t].pc \in {"idle", "rs_enter"} /\ ~loc[t].nested
        /\ t \in Mon => loc[t].pc = "rs_enter" /\ loc[t].own \in Ctr
    BY ZenonT(60) DEF RefreshContainerStatus, Enter, NewCall, ScopeOf, MonPcs, NestedPcs
  <1>b. \/ /\ loc'[t].pc = "rs_rpc" /\ loc'[t].ctr = c /\ loc'[t].own = loc[t].own
           /\ loc'[t].nested = loc[t].nested
        \/ /\ loc'[t].pc = "mn_decide" /\ loc'[t].own = loc[t].own
           /\ loc'[t].nested = loc[t].nested
        \/ /\ loc'[t].pc \in {"idle", "mn_after"} /\ ~loc'[t].nested /\ t \notin Mon
    BY SMTT(60) DEF RefreshContainerStatus, RefreshReturn, Goto, Return, AtRest, Locals
  <1>c. UNCHANGED <<podState, podIP, kernels, locks, monv, res>>
    BY Zenon DEF RefreshContainerStatus, tables
  <1>3. ScopeOf(t)'
    BY <1>a, <1>b, ZenonT(60) DEF ScopeOf, InCleanup, MonPcs, RunPcs, CtrPcs, StopPcs
  <1>4. Quiet(t)
    BY <1>1, <1>a, <1>b, <1>c, ZenonT(60) DEF Quiet, InCleanup, InStop, RunPcs
  <1>5. Linked'
    BY Zenon DEF EngineInv, Linked, RefreshContainerStatus, tables
  <1> QED
    BY <1>1, <1>2, <1>3, <1>4, <1>5, QuietKeeps, Zenon DEF Types

LEMMA RefreshRemoteKeeps ==
  ASSUME EngineInv, NEW t \in Thread, RefreshRemote(t)
  PROVE  EngineInv'
  <1> t \in Thread /\ loc \in [Thread -> Locals] /\ TypeOK /\ ScopeOf(t)
    BY Zenon DEF Thread, EngineInv, Types, Scope
  <1>1. loc' \in [Thread -> Locals] /\ Others(t)
    <2>1. CASE loc' = [loc EXCEPT ![t].pc = "rs_apply", ![t].st = guest[loc[t].ctr]]
      <3>0. guest[loc[t].ctr] \in States
        BY ZenonT(60) DEF TypeOK, States, ScopeOf, CtrPcs, RefreshRemote
      <3>1. [loc[t] EXCEPT !.pc = "rs_apply", !.st = guest[loc[t].ctr]] \in Locals
        BY <3>0, PcMembers, LocalsSt, Zenon
      <3>2. loc' = [loc EXCEPT ![t] = [loc[t] EXCEPT !.pc = "rs_apply",
                !.st = guest[loc[t].ctr]]]
        BY <2>1, ZenonT(60)
      <3> QED
        BY <3>1, <3>2, UpdateLocals, ZenonT(60)
    <2>2. CASE Goto(t, "mn_decide")
      BY <2>2, GotoLocals, PcMembers, Zenon
    <2>3. CASE Return(t, TRUE)
      BY <2>3, ReturnLocals, Zenon
    <2> QED
      BY <2>1, <2>2, <2>3, ZenonT(60) DEF RefreshRemote, RefreshReturn
  <1>2. TypeOK'
    BY EngineAssumption, ZenonT(60) DEF RefreshRemote, RefreshReturn, TypeOK, Locals,
       States, tables, locks, monv, res, ext
  <1>3. ScopeOf(t)'
    BY SMTT(60) DEF RefreshRemote, RefreshReturn, ScopeOf, InCleanup, Locals, MonPcs,
       RunPcs, CtrPcs, NestedPcs, StopPcs, AtRest, Goto, Return
  <1>4. Quiet(t)
    BY <1>1, SMTT(60) DEF RefreshRemote, RefreshReturn, Quiet, InCleanup, InStop,
       Locals, RunPcs, AtRest, Goto, Return, tables
  <1>5. Linked'
    BY Zenon DEF EngineInv, Linked, RefreshRemote, tables
  <1> QED
    BY <1>1, <1>2, <1>3, <1>4, <1>5, QuietKeeps, Zenon DEF Types

LEMMA RefreshApplyKeeps ==
  ASSUME EngineInv, NEW t \in Thread, RefreshApply(t)
  PROVE  EngineInv'
  <1> t \in Thread /\ loc \in [Thread -> Locals] /\ TypeOK /\ ScopeOf(t)
    BY Zenon DEF Thread, EngineInv, Types, Scope
  <1>1. loc' \in [Thread -> Locals] /\ Others(t)
    <2>1. CASE Goto(t, "mn_decide")
      BY <2>1, GotoLocals, PcMembers, Zenon
    <2>2. CASE Return(t, TRUE)
      BY <2>2, ReturnLocals, Zenon
    <2> QED
      BY <2>1, <2>2, ZenonT(60) DEF RefreshApply, RefreshReturn
  <1>2. TypeOK'
    <2>1. loc[t].st \in States
      BY Zenon DEF Locals
    <2>2. containers' \in [Ctr -> States]
      BY <2>1, Zenon DEF RefreshApply, TypeOK, States
    <2> QED
      BY <2>2, Zenon DEF RefreshApply, TypeOK, States, locks, monv, res, ext
  <1>3. ScopeOf(t)'
    BY SMTT(60) DEF RefreshApply, RefreshReturn, ScopeOf, InCleanup, Locals, MonPcs,
       RunPcs, CtrPcs, NestedPcs, StopPcs, AtRest, Goto, Return
  <1>4. Quiet(t)
    BY <1>1, EngineAssumption, SMTT(60) DEF RefreshApply, RefreshReturn, Quiet, ScopeOf,
       InCleanup, InStop, Locals, Pcs, MonPcs, RunPcs, CtrPcs, NestedPcs, StopPcs,
       AtRest, Goto, Return, tables, Thread
  <1>5. Linked'
    BY Zenon DEF EngineInv, Linked, RefreshApply, tables
  <1> QED
    BY <1>1, <1>2, <1>3, <1>4, <1>5, QuietKeeps, Zenon DEF Types

LEMMA MonitorLogKeeps ==
  ASSUME EngineInv, NEW m \in Mon, MonitorLog(m)
  PROVE  EngineInv'
  <1> m \in Thread /\ loc \in [Thread -> Locals] /\ TypeOK /\ ScopeOf(m)
    BY ZenonT(60) DEF Thread, EngineInv, Types, Scope
  <1>1. loc' \in [Thread -> Locals] /\ Others(m)
    <2>1. CASE loc' = [loc EXCEPT ![m].pc = "mn_eof", ![m].ok = FALSE]
      <3>1. [loc[m] EXCEPT !.pc = "mn_eof", !.ok = FALSE] \in Locals
        BY PcMembers, LocalsOk, Zenon
      <3>2. loc' = [loc EXCEPT ![m] = [loc[m] EXCEPT !.pc = "mn_eof", !.ok = FALSE]]
        BY <2>1, Zenon
      <3> QED
        BY <3>1, <3>2, UpdateLocals, ZenonT(60)
    <2>2. CASE loc' = [loc EXCEPT ![m].pc = "mn_eof",
                   ![m].ok = (guest[loc[m].own] = "exited")]
      <3>0. (guest[loc[m].own] = "exited") \in BOOLEAN
        BY Zenon
      <3>1. [loc[m] EXCEPT !.pc = "mn_eof",
                !.ok = (guest[loc[m].own] = "exited")] \in Locals
        BY <3>0, PcMembers, LocalsOk, Zenon
      <3>2. loc' = [loc EXCEPT ![m] = [loc[m] EXCEPT !.pc = "mn_eof",
                !.ok = (guest[loc[m].own] = "exited")]]
        BY <2>2, Zenon
      <3> QED
        BY <3>1, <3>2, UpdateLocals, Zenon
    <2>3. CASE loc' = [loc EXCEPT ![m].pc = "mn_decide", ![m].pod = CtrPod[loc[m].own],
                   ![m].ctr = loc[m].own]
      <3>0. loc[m].own \in Ctr /\ CtrPod[loc[m].own] \in Pod
        BY EngineAssumption, Zenon DEF ScopeOf, MonitorLog
      <3>1. [loc[m] EXCEPT !.pc = "mn_decide", !.pod = CtrPod[loc[m].own],
                !.ctr = loc[m].own] \in Locals
        BY <3>0, PcMembers, LocalsCtr, Zenon
      <3>2. loc' = [loc EXCEPT ![m] = [loc[m] EXCEPT !.pc = "mn_decide",
                !.pod = CtrPod[loc[m].own], !.ctr = loc[m].own]]
        BY <2>3, Zenon
      <3> QED
        BY <3>1, <3>2, UpdateLocals, Zenon
    <2>4. CASE loc' = [loc EXCEPT ![m].pc = "rs_enter", ![m].pod = CtrPod[loc[m].own],
                   ![m].ctr = loc[m].own]
      <3>0. loc[m].own \in Ctr /\ CtrPod[loc[m].own] \in Pod
        BY EngineAssumption, Zenon DEF ScopeOf, MonitorLog
      <3>1. [loc[m] EXCEPT !.pc = "rs_enter", !.pod = CtrPod[loc[m].own],
                !.ctr = loc[m].own] \in Locals
        BY <3>0, PcMembers, LocalsCtr, Zenon
      <3>2. loc' = [loc EXCEPT ![m] = [loc[m] EXCEPT !.pc = "rs_enter",
                !.pod = CtrPod[loc[m].own], !.ctr = loc[m].own]]
        BY <2>4, Zenon
      <3> QED
        BY <3>1, <3>2, UpdateLocals, Zenon
    <2> QED
      BY <2>1, <2>2, <2>3, <2>4, ZenonT(60) DEF MonitorLog
  <1>2. TypeOK'
    BY EngineAssumption, ZenonT(60) DEF MonitorLog, TypeOK, Locals, States, tables,
       locks, monv, res, ext
  <1>a. /\ loc[m].pc = "mn_log" /\ loc'[m].pc \in {"mn_eof", "mn_decide", "rs_enter"}
        /\ loc'[m].own = loc[m].own /\ loc'[m].nested = loc[m].nested
        /\ loc'[m].pc = "rs_enter" => loc'[m].ctr = loc[m].own
    BY SMTT(60) DEF MonitorLog, Locals
  <1>b. UNCHANGED <<podState, podIP, kernels, locks, monv, res>>
    BY Zenon DEF MonitorLog, tables
  <1>c. ~loc[m].nested /\ loc[m].own \in Ctr
    BY <1>a, Zenon DEF ScopeOf, NestedPcs
  <1>3. ScopeOf(m)'
    BY <1>a, <1>c, ZenonT(60) DEF ScopeOf, InCleanup, MonPcs, RunPcs, CtrPcs, StopPcs
  <1>4. Quiet(m)
    BY <1>1, <1>a, <1>b, <1>c, ZenonT(60) DEF Quiet, InCleanup, InStop, RunPcs
  <1>5. Linked'
    BY ZenonT(60) DEF EngineInv, Linked, MonitorLog, tables
  <1> QED
    BY <1>1, <1>2, <1>3, <1>4, <1>5, QuietKeeps, ZenonT(60) DEF Types

LEMMA MonitorLogApplyKeeps ==
  ASSUME EngineInv, NEW m \in Mon, MonitorLogApply(m)
  PROVE  EngineInv'
  <1> m \in Thread /\ loc \in [Thread -> Locals] /\ TypeOK /\ ScopeOf(m)
    BY Zenon DEF Thread, EngineInv, Types, Scope
  <1>1. loc' \in [Thread -> Locals] /\ Others(m)
    <2>1. CASE loc' = [loc EXCEPT ![m].pc = "rs_enter", ![m].pod = CtrPod[loc[m].own],
                   ![m].ctr = loc[m].own, ![m].ok = TRUE]
      <3>0. loc[m].own \in Ctr /\ CtrPod[loc[m].own] \in Pod
        BY EngineAssumption, Zenon DEF ScopeOf, MonitorLogApply
      <3>1. [loc[m] EXCEPT !.pc = "rs_enter", !.pod = CtrPod[loc[m].own],
                !.ctr = loc[m].own, !.ok = TRUE] \in Locals
        BY <3>0, PcMembers, ZenonT(60) DEF Locals
      <3>2. loc' = [loc EXCEPT ![m] = [loc[m] EXCEPT !.pc = "rs_enter",
                !.pod = CtrPod[loc[m].own], !.ctr = loc[m].own, !.ok = TRUE]]
        BY <2>1, Zenon
      <3> QED
        BY <3>1, <3>2, UpdateLocals, Zenon
    <2> QED
      BY <2>1, Zenon DEF MonitorLogApply
  <1>2. TypeOK'
    BY EngineAssumption, Zenon DEF MonitorLogApply, TypeOK, Locals, States, tables,
       locks, monv, res, ext
  <1>3. ScopeOf(m)'
    <2>1. /\ loc[m].pc = "mn_eof" /\ loc'[m].pc = "rs_enter"
          /\ loc'[m].own = loc[m].own /\ loc'[m].ctr = loc[m].own
          /\ loc'[m].nested = loc[m].nested
      BY DEF MonitorLogApply, Goto, Locals
    <2> QED
      BY <2>1, EngineAssumption, Zenon DEF ScopeOf, InCleanup, Pcs, MonPcs, RunPcs,
         CtrPcs, NestedPcs, StopPcs, Thread
  <1>4. Quiet(m)
    <2>1. /\ loc[m].pc = "mn_eof" /\ loc'[m].pc = "rs_enter"
          /\ loc'[m].own = loc[m].own /\ loc'[m].ctr = loc[m].own
          /\ loc'[m].nested = loc[m].nested
      BY DEF MonitorLogApply, Goto, Locals
    <2>2. UNCHANGED <<podState, podIP, kernels, locks, monv, res>>
      BY Zenon DEF MonitorLogApply, tables
    <2> QED
      BY <1>1, <2>1, <2>2, Zenon DEF Quiet, ScopeOf, InCleanup, InStop, Pcs, MonPcs,
         RunPcs, CtrPcs, NestedPcs, StopPcs
  <1>5. Linked'
    BY Zenon DEF EngineInv, Linked, MonitorLogApply, tables
  <1> QED
    BY <1>1, <1>2, <1>3, <1>4, <1>5, QuietKeeps, Zenon DEF Types

LEMMA MonitorDecideKeeps ==
  ASSUME EngineInv, NEW m \in Mon, MonitorDecide(m)
  PROVE  EngineInv'
  <1> m \in Thread /\ loc \in [Thread -> Locals] /\ TypeOK /\ ScopeOf(m)
    BY Zenon DEF Thread, EngineInv, Types, Scope
  <1>1. loc' \in [Thread -> Locals] /\ Others(m)
    <2>1. CASE loc' = [loc EXCEPT ![m] = AtRest("mn_tick", loc[m].own)]
      <3>1. AtRest("mn_tick", loc[m].own) \in Locals
        BY RestLocals, PcMembers, Zenon DEF Locals
      <3> QED
        BY <2>1, <3>1, UpdateLocals, Zenon
    <2>2. CASE loc' = [loc EXCEPT ![m] = AtRest("off", None)]
      <3>1. AtRest("off", None) \in Locals
        BY RestLocals, PcMembers, Zenon DEF Locals
      <3> QED
        BY <2>2, <3>1, UpdateLocals, Zenon
    <2>3. CASE loc' = [loc EXCEPT ![m] = AtRest("mn_cleanup", loc[m].own)]
      <3>1. AtRest("mn_cleanup", loc[m].own) \in Locals
        BY RestLocals, PcMembers, Zenon DEF Locals
      <3> QED
        BY <2>3, <3>1, UpdateLocals, Zenon
    <2> QED
      BY <2>1, <2>2, <2>3, Zenon DEF MonitorDecide
  <1>2. TypeOK'
    BY EngineAssumption, ZenonT(60) DEF MonitorDecide, TypeOK, Locals, States, tables,
       locks, monv, res, ext
  <1>a. /\ loc[m].pc = "mn_decide" /\ m \notin Caller /\ m \in Mon
        /\ loc'[m].pc \in {"mn_tick", "off", "mn_cleanup"} /\ ~loc'[m].nested
        /\ loc'[m].pc # "off" => loc'[m].own = loc[m].own /\ loc[m].own \in Ctr
    <2>1. loc'[m] \in {AtRest("mn_tick", loc[m].own), AtRest("off", None),
                       AtRest("mn_cleanup", loc[m].own)}
      BY Zenon DEF MonitorDecide
    <2>2. loc[m].own \in Ctr /\ m \notin Caller /\ loc[m].pc = "mn_decide"
      BY EngineAssumption, ZenonT(60) DEF ScopeOf, MonitorDecide
    <2> QED
      BY <2>1, <2>2, SMTT(60) DEF AtRest
  <1>3. ScopeOf(m)'
    BY <1>a, ZenonT(60) DEF ScopeOf, InCleanup, MonPcs, RunPcs, CtrPcs, StopPcs
  <1>4. Quiet(m)
    <2>1. UNCHANGED <<podState, podIP, kernels, locks, monv, res>>
      BY Zenon DEF MonitorDecide, tables
    <2> QED
      BY <1>1, <1>a, <2>1 DEF Quiet, InCleanup, InStop, RunPcs
  <1>5. Linked'
    BY Zenon DEF EngineInv, Linked, MonitorDecide, tables
  <1> QED
    BY <1>1, <1>2, <1>3, <1>4, <1>5, QuietKeeps, Zenon DEF Types

LEMMA MonitorTickKeeps ==
  ASSUME EngineInv, NEW m \in Mon, MonitorTick(m)
  PROVE  EngineInv'
  <1> m \in Thread /\ loc \in [Thread -> Locals] /\ TypeOK /\ ScopeOf(m)
    BY Zenon DEF Thread, EngineInv, Types, Scope
  <1>1. loc' \in [Thread -> Locals] /\ Others(m)
    <2>1. CASE Goto(m, "mn_log")
      BY <2>1, GotoLocals, PcMembers, Zenon
    <2>2. CASE loc' = [loc EXCEPT ![m] = AtRest("off", None)]
      <3>1. AtRest("off", None) \in Locals
        BY RestLocals, PcMembers, Zenon DEF Locals
      <3> QED
        BY <2>2, <3>1, UpdateLocals, Zenon
    <2> QED
      BY <2>1, <2>2, Zenon DEF MonitorTick
  <1>2. TypeOK'
    BY EngineAssumption, Zenon DEF MonitorTick, TypeOK, Locals, States, tables, locks,
       monv, res, ext
  <1>3. ScopeOf(m)'
    BY EngineAssumption DEF MonitorTick, ScopeOf, InCleanup, Locals, Pcs, MonPcs,
       RunPcs, CtrPcs, NestedPcs, StopPcs, AtRest, Goto, Return, Thread
  <1>4. Quiet(m)
    BY <1>1, EngineAssumption DEF MonitorTick, Quiet, ScopeOf, InCleanup, InStop,
       Locals, Pcs, MonPcs, RunPcs, CtrPcs, NestedPcs, StopPcs, AtRest, Goto, Return,
       tables, Thread
  <1>5. Linked'
    BY Zenon DEF EngineInv, Linked, MonitorTick, tables
  <1> QED
    BY <1>1, <1>2, <1>3, <1>4, <1>5, QuietKeeps, Zenon DEF Types

LEMMA MonitorCleanupKeeps ==
  ASSUME EngineInv, NEW m \in Mon, MonitorCleanup(m)
  PROVE  EngineInv'
  <1> m \in Thread /\ loc \in [Thread -> Locals] /\ TypeOK /\ ScopeOf(m)
    BY Zenon DEF Thread, EngineInv, Types, Scope
  <1>1. loc' \in [Thread -> Locals] /\ Others(m)
    <2>1. CASE Goto(m, "mn_tick")
      BY <2>1, GotoLocals, PcMembers, Zenon
    <2>2. CASE Goto(m, "mn_finish")
      BY <2>2, GotoLocals, PcMembers, Zenon
    <2>3. CASE Goto(m, "mn_stop")
      BY <2>3, GotoLocals, PcMembers, Zenon
    <2> QED
      BY <2>1, <2>2, <2>3, Zenon DEF MonitorCleanup
  <1>2. TypeOK'
    BY EngineAssumption, Zenon DEF MonitorCleanup, TypeOK, Locals, States, tables,
       locks, monv, res, ext
  <1>3. ScopeOf(m)'
    BY EngineAssumption, SMTT(60) DEF MonitorCleanup, ScopeOf, InCleanup, Locals, Pcs,
       MonPcs, RunPcs, CtrPcs, NestedPcs, StopPcs, AtRest, Goto, Return, Thread
  <1>4. Quiet(m)
    BY <1>1, SMTT(60) DEF MonitorCleanup, Quiet, InCleanup, InStop, RunPcs, Goto, tables
  <1>5. Linked'
    BY Zenon DEF EngineInv, Linked, MonitorCleanup, tables
  <1> QED
    BY <1>1, <1>2, <1>3, <1>4, <1>5, QuietKeeps, Zenon DEF Types

LEMMA MonitorStopPodKeeps ==
  ASSUME EngineInv, NEW m \in Mon, MonitorStopPod(m)
  PROVE  EngineInv'
  <1> m \in Thread /\ loc \in [Thread -> Locals] /\ TypeOK /\ ScopeOf(m)
    BY Zenon DEF Thread, EngineInv, Types, Scope
  <1>1. loc' \in [Thread -> Locals] /\ Others(m)
    <2>1. CASE Goto(m, "mn_tick")
      BY <2>1, GotoLocals, PcMembers, Zenon
    <2>2. CASE loc' = [loc EXCEPT ![m].pc = "sp_enter", ![m].pod = CtrPod[loc[m].own]]
      <3>0. loc[m].own \in Ctr /\ CtrPod[loc[m].own] \in Pod
        BY EngineAssumption, Zenon DEF ScopeOf, MonitorStopPod
      <3>1. [loc[m] EXCEPT !.pc = "sp_enter", !.pod = CtrPod[loc[m].own]] \in Locals
        BY <3>0, PcMembers, ZenonT(60) DEF Locals
      <3>2. loc' = [loc EXCEPT ![m] = [loc[m] EXCEPT !.pc = "sp_enter",
                !.pod = CtrPod[loc[m].own]]]
        BY <2>2, Zenon
      <3> QED
        BY <3>1, <3>2, UpdateLocals, Zenon
    <2> QED
      BY <2>1, <2>2, Zenon DEF MonitorStopPod
  <1>2. TypeOK'
    BY EngineAssumption, Zenon DEF MonitorStopPod, TypeOK, Locals, States, tables,
       locks, monv, res, ext
  <1>3. ScopeOf(m)'
    BY EngineAssumption DEF MonitorStopPod, ScopeOf, InCleanup, Locals, Pcs, MonPcs,
       RunPcs, CtrPcs, NestedPcs, StopPcs, AtRest, Goto, Return, Thread
  <1>4. Quiet(m)
    BY <1>1, EngineAssumption DEF MonitorStopPod, Quiet, ScopeOf, InCleanup, InStop,
       Locals, Pcs, MonPcs, RunPcs, CtrPcs, NestedPcs, StopPcs, AtRest, Goto, Return,
       tables, Thread
  <1>5. Linked'
    BY Zenon DEF EngineInv, Linked, MonitorStopPod, tables
  <1> QED
    BY <1>1, <1>2, <1>3, <1>4, <1>5, QuietKeeps, Zenon DEF Types

LEMMA MonitorAfterStopKeeps ==
  ASSUME EngineInv, NEW m \in Mon, MonitorAfterStop(m)
  PROVE  EngineInv'
  <1> m \in Thread /\ loc \in [Thread -> Locals] /\ TypeOK /\ ScopeOf(m)
    BY Zenon DEF Thread, EngineInv, Types, Scope
  <1>1. loc' \in [Thread -> Locals] /\ Others(m)
    <2>1. CASE loc' = [loc EXCEPT ![m] = AtRest("mn_finish", loc[m].own)]
      <3>1. AtRest("mn_finish", loc[m].own) \in Locals
        BY RestLocals, PcMembers, Zenon DEF Locals
      <3> QED
        BY <2>1, <3>1, UpdateLocals, Zenon
    <2>2. CASE loc' = [loc EXCEPT ![m] = AtRest("mn_tick", loc[m].own)]
      <3>1. AtRest("mn_tick", loc[m].own) \in Locals
        BY RestLocals, PcMembers, Zenon DEF Locals
      <3> QED
        BY <2>2, <3>1, UpdateLocals, Zenon
    <2> QED
      BY <2>1, <2>2, Zenon DEF MonitorAfterStop
  <1>2. TypeOK'
    BY EngineAssumption, ZenonT(60) DEF MonitorAfterStop, TypeOK, Locals, States,
       tables, locks, monv, res, ext
  <1>3. ScopeOf(m)'
    BY ZenonT(60) DEF MonitorAfterStop, ScopeOf, InCleanup, MonPcs, RunPcs, CtrPcs,
       StopPcs, AtRest
  <1>4. Quiet(m)
    BY <1>1, ZenonT(60) DEF MonitorAfterStop, Quiet, InCleanup, InStop, RunPcs, AtRest,
       tables
  <1>5. Linked'
    BY Zenon DEF EngineInv, Linked, MonitorAfterStop, tables
  <1> QED
    BY <1>1, <1>2, <1>3, <1>4, <1>5, QuietKeeps, Zenon DEF Types

------------------------------------------------------------------------------
(* RunPod.                                                                 *)

\* RunPod takes a peer id for a pod nobody knows yet.
LEMMA RunPodTakes ==
  ASSUME EngineInv, NEW t \in Thread, NEW p \in Pod, RunPod(t, p), NEW id \in idsFree,
         idsFree' = idsFree \ {id},
         loc' = [loc EXCEPT ![t].pc = "rp_start", ![t].pod = p, ![t].kern = id]
  PROVE  EngineInv'
  <1> t \in Thread /\ loc \in [Thread -> Locals] /\ TypeOK /\ ScopeOf(t) /\ Scope
    BY Zenon DEF Thread, EngineInv, Types, Scope
  <1>1. loc' \in [Thread -> Locals] /\ Others(t)
    <2>1. CASE loc' = [loc EXCEPT ![t].pc = "rp_start", ![t].pod = p, ![t].kern = id]
      <3>0. id \in PeerId
        BY Zenon DEF TypeOK
      <3>1. [loc[t] EXCEPT !.pc = "rp_start", !.pod = p, !.kern = id] \in Locals
        BY <3>0, PcMembers, ZenonT(60) DEF Locals
      <3>2. loc' = [loc EXCEPT ![t] = [loc[t] EXCEPT !.pc = "rp_start", !.pod = p,
                !.kern = id]]
        BY <2>1, Zenon
      <3> QED
        BY <3>1, <3>2, UpdateLocals, Zenon
    <2> QED
      BY <2>1, Zenon DEF RunPod
  <1>2. TypeOK'
    <2>1. calls' \in 0 .. MaxCalls
      <3>1. calls < MaxCalls /\ calls' = calls + 1
        BY Zenon DEF RunPod, NewCall
      <3>2. calls \in 0 .. MaxCalls /\ MaxCalls \in Nat
        BY EngineAssumption, Zenon DEF TypeOK
      <3> QED
        BY <3>1, <3>2
    <2> QED
      BY <2>1, Zenon DEF RunPod, TypeOK, tables, locks, monv, ext
  <1>3. /\ loc[t].pc = "idle" /\ loc'[t].pc = "rp_start"
        /\ loc'[t].own = loc[t].own /\ loc'[t].pod = p /\ loc'[t].kern = id
        /\ loc'[t].ctr = loc[t].ctr /\ loc'[t].nested = loc[t].nested
        /\ ~loc[t].nested /\ id \in PeerId
        /\ podState[p] = "none" /\ \A u \in Thread : loc[u].pod # p
        /\ UNCHANGED <<podState, podIP, kernels, podToContainer, podCleanup,
              containerStop,
                        monitors, cancelled, ipsFree>>
    <2>1. /\ loc'[t].pc = "rp_start" /\ loc'[t].own = loc[t].own /\ loc'[t].pod = p
          /\ loc'[t].kern = id /\ loc'[t].ctr = loc[t].ctr
                /\ loc'[t].nested = loc[t].nested
      BY DEF Locals
    <2>2. loc[t].pc = "idle" /\ ~loc[t].nested
      BY Zenon DEF RunPod, NewCall, ScopeOf, NestedPcs
    <2> QED
      BY <2>1, <2>2, Zenon DEF RunPod, TypeOK, tables, locks, monv
  <1>4. Scope'
    <2>1. ScopeOf(t)'
      BY <1>3, EngineAssumption, ZenonT(60) DEF ScopeOf, InCleanup, StopPcs, Pcs,
         MonPcs, RunPcs, CtrPcs, NestedPcs, Thread
    <2> QED
      BY <1>1, <2>1, ScopeFrame, Zenon
  <1>5. Linked'
    BY <1>3, Zenon DEF EngineInv, Linked
  <1>6. Claimed' /\ CleanupExclusive'
    BY <1>1, <1>3, ClaimFrame, ZenonT(60) DEF EngineInv, InCleanup, InStop, ScopeOf,
       StopPcs, MonPcs, RunPcs, CtrPcs, NestedPcs
  <1>7. Fresh'
    BY <1>1, <1>3, FreshFrame, ZenonT(60) DEF EngineInv, InCleanup, InStop, ScopeOf,
       StopPcs, MonPcs, RunPcs, CtrPcs, NestedPcs
  <1>8. Born'
    BY <1>3, SMTT(60) DEF EngineInv, Born, InCleanup
  <1>9. Known'
    BY <1>1, <1>3, KnownFrame, Zenon DEF EngineInv, InCleanup, InStop, ScopeOf, StopPcs,
       MonPcs, RunPcs, CtrPcs, NestedPcs
  <1>10. IpApart' /\ IpSomewhere'
    BY <1>1, <1>3, IpFrame, ZenonT(60) DEF EngineInv, HoldsIp, InCleanup, InStop,
       ScopeOf, StopPcs, MonPcs, RunPcs, CtrPcs, NestedPcs
  <1>11. IdApart' /\ IdSomewhere'
    <2>1. IdApart'
      BY <1>3, SMTT(60) DEF EngineInv, IdApart, HoldsId
    <2>2. ASSUME NEW i \in PeerId \ idsFree'
          PROVE  (\E q \in Pod : kernels'[q] = i) \/ (\E u \in Thread : HoldsId(u)'
              /\ loc'[u].kern = i)
      BY <1>1, <1>3, <2>2 DEF EngineInv, IdSomewhere, HoldsId, Others, RunPcs
    <2> QED
      BY <2>1, <2>2, ZenonT(60) DEF IdSomewhere
  <1>12. NoStrayMonitor'
    BY <1>1, <1>3, StrayFrame, ZenonT(60) DEF EngineInv, InCleanup, InStop, ScopeOf,
       StopPcs, MonPcs, RunPcs, CtrPcs, NestedPcs
  <1> QED
    BY <1>1, <1>2, <1>4, <1>5, <1>6, <1>7, <1>8, <1>9, <1>10, <1>11, <1>12, ZenonT(60)
       DEF EngineInv, Types

\* RunPod gives the peer id back when the kernel does not start.
LEMMA RunPodGivesBack ==
  ASSUME EngineInv, NEW t \in Thread, loc[t].pc \in {"rp_start", "rp_ready"}, Return(t,
         FALSE),
         idsFree' = idsFree \cup {loc[t].kern}, TypeOK',
         UNCHANGED <<tables, locks, monv, ipsFree>>
  PROVE  EngineInv'
  <1> t \in Thread /\ loc \in [Thread -> Locals] /\ TypeOK /\ ScopeOf(t) /\ Scope
    BY Zenon DEF Thread, EngineInv, Types, Scope
  <1>1. loc' \in [Thread -> Locals] /\ Others(t)
    BY ReturnLocals, Zenon
  <1>2. TypeOK'
    BY Zenon
  <1>3. /\ loc[t].pc \in {"rp_start", "rp_ready"}
        /\ loc'[t].pc = (IF t \in Caller THEN "idle" ELSE "mn_after")
        /\ loc'[t].own = (IF t \in Caller THEN None ELSE loc[t].own)
        /\ ~loc'[t].nested
        /\ ~loc[t].nested
        /\ UNCHANGED <<podState, podIP, kernels, podToContainer, podCleanup,
              containerStop,
                        monitors, cancelled, ipsFree>>
    BY ReturnLocals, Zenon DEF ScopeOf, NestedPcs, tables, locks, monv
  <1>4. Scope'
    <2>1. ScopeOf(t)'
      BY <1>3, EngineAssumption, ZenonT(60) DEF ScopeOf, InCleanup, StopPcs, Pcs,
         MonPcs, RunPcs, CtrPcs, NestedPcs, Thread
    <2> QED
      BY <1>1, <2>1, ScopeFrame, ZenonT(60)
  <1>5. Linked'
    BY <1>3, Zenon DEF EngineInv, Linked
  <1>6. Claimed' /\ CleanupExclusive'
    BY <1>1, <1>3, ClaimFrame, ZenonT(60) DEF EngineInv, InCleanup, InStop, ScopeOf,
       StopPcs, MonPcs, RunPcs, CtrPcs, NestedPcs
  <1>7. Fresh'
    BY <1>1, <1>3, FreshFrame, ZenonT(60) DEF EngineInv, InCleanup, InStop, ScopeOf,
       StopPcs, MonPcs, RunPcs, CtrPcs, NestedPcs
  <1>8. Born'
    BY <1>1, <1>3, BornFrame, ZenonT(60) DEF EngineInv, InCleanup, InStop, ScopeOf,
       StopPcs, MonPcs, RunPcs, CtrPcs, NestedPcs
  <1>9. Known'
    BY <1>1, <1>3, KnownFrame, ZenonT(60) DEF EngineInv, InCleanup, InStop, ScopeOf,
       StopPcs, MonPcs, RunPcs, CtrPcs, NestedPcs
  <1>10. IpApart' /\ IpSomewhere'
    BY <1>1, <1>3, IpFrame, Zenon DEF EngineInv, HoldsIp, InCleanup, InStop, ScopeOf,
       StopPcs, MonPcs, RunPcs, CtrPcs, NestedPcs
  <1>11. IdApart' /\ IdSomewhere'
    <2>1. IdApart'
      BY <1>1, <1>3, SMTT(60) DEF EngineInv, IdApart, HoldsId, Others, RunPcs
    <2>2. ASSUME NEW i \in PeerId \ idsFree'
          PROVE  (\E q \in Pod : kernels'[q] = i) \/ (\E u \in Thread : HoldsId(u)'
              /\ loc'[u].kern = i)
      BY <1>1, <1>3, <2>2 DEF EngineInv, IdSomewhere, HoldsId, Others, RunPcs
    <2> QED
      BY <2>1, <2>2, ZenonT(60) DEF IdSomewhere
  <1>12. NoStrayMonitor'
    BY <1>1, <1>3, StrayFrame, Zenon DEF EngineInv, InCleanup, InStop, ScopeOf, StopPcs,
       MonPcs, RunPcs, CtrPcs, NestedPcs
  <1> QED
    BY <1>1, <1>2, <1>4, <1>5, <1>6, <1>7, <1>8, <1>9, <1>10, <1>11, <1>12, ZenonT(60)
       DEF EngineInv, Types

\* RunPod takes an address for the pod it creates.
LEMMA RunPodAddress ==
  ASSUME EngineInv, NEW t \in Thread, RunPodReady(t), NEW ip \in ipsFree,
         ipsFree' = ipsFree \ {ip}, UNCHANGED <<idsFree, ext>>,
         loc' = [loc EXCEPT ![t].pc = "rp_register", ![t].ip = ip]
  PROVE  EngineInv'
  <1> t \in Thread /\ loc \in [Thread -> Locals] /\ TypeOK /\ ScopeOf(t) /\ Scope
    BY Zenon DEF Thread, EngineInv, Types, Scope
  <1>1. loc' \in [Thread -> Locals] /\ Others(t)
    <2>1. CASE loc' = [loc EXCEPT ![t].pc = "rp_register", ![t].ip = ip]
      <3>0. ip \in Ip
        BY Zenon DEF TypeOK
      <3>1. [loc[t] EXCEPT !.pc = "rp_register", !.ip = ip] \in Locals
        BY <3>0, PcMembers, ZenonT(60) DEF Locals
      <3>2. loc' = [loc EXCEPT ![t] = [loc[t] EXCEPT !.pc = "rp_register", !.ip = ip]]
        BY <2>1, Zenon
      <3> QED
        BY <3>1, <3>2, UpdateLocals, ZenonT(60)
    <2> QED
      BY <2>1, Zenon DEF RunPodReady
  <1>2. TypeOK'
    BY Zenon DEF RunPodReady, TypeOK, tables, locks, monv, ext
  <1>3. /\ loc[t].pc = "rp_ready" /\ loc'[t].pc = "rp_register"
        /\ loc'[t].own = loc[t].own /\ loc'[t].pod = loc[t].pod
              /\ loc'[t].kern = loc[t].kern
        /\ loc'[t].ctr = loc[t].ctr /\ loc'[t].nested = loc[t].nested /\ loc'[t].ip = ip
        /\ ~loc[t].nested /\ ip \in Ip
        /\ UNCHANGED <<podState, podIP, kernels, podToContainer, podCleanup,
                        containerStop, monitors, cancelled, idsFree>>
    <2>1. /\ loc'[t].pc = "rp_register" /\ loc'[t].own = loc[t].own
                /\ loc'[t].pod = loc[t].pod
          /\ loc'[t].kern = loc[t].kern /\ loc'[t].ctr = loc[t].ctr
          /\ loc'[t].nested = loc[t].nested /\ loc'[t].ip = ip
      BY DEF Locals
    <2>2. loc[t].pc = "rp_ready" /\ ~loc[t].nested
      BY Zenon DEF RunPodReady, ScopeOf, NestedPcs
    <2> QED
      BY <2>1, <2>2, Zenon DEF RunPodReady, TypeOK, tables, locks, monv
  <1>4. Scope'
    <2>1. ScopeOf(t)'
      BY <1>3, EngineAssumption, Zenon DEF ScopeOf, InCleanup, StopPcs, Pcs, MonPcs,
         RunPcs, CtrPcs, NestedPcs, Thread
    <2> QED
      BY <1>1, <2>1, ScopeFrame, Zenon
  <1>5. Linked'
    BY <1>3, Zenon DEF EngineInv, Linked
  <1>6. Claimed' /\ CleanupExclusive'
    BY <1>1, <1>3, ClaimFrame, Zenon DEF EngineInv, InCleanup, InStop, ScopeOf, StopPcs,
       MonPcs, RunPcs, CtrPcs, NestedPcs
  <1>7. Fresh'
    BY <1>1, <1>3, FreshFrame, ZenonT(60) DEF EngineInv, InCleanup, InStop, ScopeOf,
       StopPcs, MonPcs, RunPcs, CtrPcs, NestedPcs
  <1>8. Born'
    BY <1>1, <1>3, BornFrame, ZenonT(60) DEF EngineInv, InCleanup, InStop, ScopeOf,
       StopPcs, MonPcs, RunPcs, CtrPcs, NestedPcs
  <1>9. Known'
    BY <1>1, <1>3, KnownFrame, ZenonT(60) DEF EngineInv, InCleanup, InStop, ScopeOf,
       StopPcs, MonPcs, RunPcs, CtrPcs, NestedPcs
  <1>10. IpApart' /\ IpSomewhere'
    <2>1. IpApart'
      BY <1>3, SMTT(60) DEF EngineInv, IpApart, HoldsIp
    <2>2. ASSUME NEW i \in Ip \ ipsFree'
          PROVE  (\E q \in Pod : podIP'[q] = i) \/ (\E u \in Thread : HoldsIp(u)'
              /\ loc'[u].ip = i)
      BY <1>1, <1>3, <2>2, EngineAssumption, SMTT(60) DEF EngineInv, IpSomewhere,
         HoldsIp, Others
    <2> QED
      BY <2>1, <2>2, ZenonT(60) DEF IpSomewhere
  <1>11. IdApart' /\ IdSomewhere'
    BY <1>1, <1>3, IdFrame, ZenonT(60) DEF EngineInv, HoldsId, InCleanup, InStop,
       ScopeOf, StopPcs, MonPcs, RunPcs, CtrPcs, NestedPcs
  <1>12. NoStrayMonitor'
    BY <1>1, <1>3, StrayFrame, ZenonT(60) DEF EngineInv, InCleanup, InStop, ScopeOf,
       StopPcs, MonPcs, RunPcs, CtrPcs, NestedPcs
  <1> QED
    BY <1>1, <1>2, <1>4, <1>5, <1>6, <1>7, <1>8, <1>9, <1>10, <1>11, <1>12
       DEF EngineInv, Types

LEMMA RunPodKeeps ==
  ASSUME EngineInv, NEW t \in Thread, NEW p \in Pod, RunPod(t, p)
  PROVE  EngineInv'
  <1> loc \in [Thread -> Locals] /\ TypeOK /\ ScopeOf(t)
    BY Zenon DEF EngineInv, Types, Scope
  <1>1. CASE Return(t, FALSE) /\ UNCHANGED idsFree
    <2>1. loc' \in [Thread -> Locals] /\ Others(t)
      BY <1>1, ReturnLocals, ZenonT(60)
    <2>2. TypeOK'
      BY <1>1, EngineAssumption DEF RunPod, NewCall, TypeOK, tables, locks, monv, ext
    <2>3. /\ loc[t].pc = "idle" /\ ~loc[t].nested
          /\ loc'[t].pc = (IF t \in Caller THEN "idle" ELSE "mn_after")
          /\ loc'[t].own = (IF t \in Caller THEN None ELSE loc[t].own)
          /\ ~loc'[t].nested
      BY <1>1, ReturnLocals, Zenon DEF RunPod, NewCall, ScopeOf, NestedPcs
    <2>4. ScopeOf(t)'
      BY <2>3, EngineAssumption, Zenon DEF ScopeOf, InCleanup, StopPcs, Pcs, MonPcs,
         RunPcs, CtrPcs, NestedPcs, Thread
    <2>5. Quiet(t)
      BY <1>1, <2>1, <2>3, EngineAssumption, ZenonT(60) DEF Quiet, RunPod, ScopeOf,
         InCleanup, InStop, Pcs, MonPcs, RunPcs, CtrPcs, NestedPcs, StopPcs, tables,
         locks, monv, res, Thread
    <2>6. Linked'
      BY Zenon DEF EngineInv, Linked, RunPod, tables
    <2> QED
      BY <2>1, <2>2, <2>4, <2>5, <2>6, QuietKeeps, ZenonT(60) DEF Types
  <1>2. CASE \E id \in idsFree :
               /\ idsFree' = idsFree \ {id}
               /\ loc' = [loc EXCEPT ![t].pc = "rp_start", ![t].pod = p, ![t].kern = id]
    BY <1>2, RunPodTakes, Zenon
  <1> QED
    BY <1>1, <1>2, ZenonT(60) DEF RunPod

LEMMA RunPodStartKeeps ==
  ASSUME EngineInv, NEW t \in Thread, RunPodStart(t)
  PROVE  EngineInv'
  <1> loc \in [Thread -> Locals] /\ TypeOK /\ ScopeOf(t)
    BY Zenon DEF EngineInv, Types, Scope
  <1>0. loc[t].pc = "rp_start" /\ ~loc[t].nested /\ loc[t].pod \in Pod
            /\ loc[t].kern \in PeerId
    BY Zenon DEF RunPodStart, ScopeOf, NestedPcs, RunPcs
  <1>1. CASE StartKernel(loc[t].pod, loc[t].kern) /\ Goto(t,
                 "rp_ready") /\ UNCHANGED idsFree
    <2>1. loc' \in [Thread -> Locals] /\ Others(t)
              /\ loc'[t] = [loc[t] EXCEPT !.pc = "rp_ready"]
      BY <1>1, GotoLocals, PcMembers, Zenon
    <2>2. TypeOK'
      BY <1>0, <1>1, ZenonT(60) DEF RunPodStart, StartKernel, TypeOK, tables, locks,
         monv
    <2>3. /\ loc'[t].pc = "rp_ready" /\ loc'[t].own = loc[t].own
                /\ loc'[t].pod = loc[t].pod
          /\ loc'[t].kern = loc[t].kern /\ loc'[t].ctr = loc[t].ctr
          /\ loc'[t].nested = loc[t].nested /\ loc'[t].ip = loc[t].ip
      BY <2>1 DEF Locals
    <2>4. ScopeOf(t)'
      BY <1>0, <2>3, ZenonT(60) DEF ScopeOf, InCleanup, StopPcs, Pcs, MonPcs, RunPcs,
         CtrPcs, NestedPcs
    <2>5. Quiet(t)
      BY <1>0, <1>1, <2>1, <2>3, ZenonT(60) DEF Quiet, RunPodStart, ScopeOf, InCleanup,
         InStop, Pcs, MonPcs, RunPcs, CtrPcs, NestedPcs, StopPcs, tables, locks, monv,
         res
    <2>6. Linked'
      BY Zenon DEF EngineInv, Linked, RunPodStart, tables
    <2> QED
      BY <2>1, <2>2, <2>4, <2>5, <2>6, QuietKeeps, Zenon DEF Types
  <1>2. CASE /\ idsFree' = idsFree \cup {loc[t].kern} /\ Return(t, FALSE)
             /\ live' \in {live, [live EXCEPT ![loc[t].pod] = loc[t].kern]}
             /\ UNCHANGED <<startedKernels, guest>>
    <2>1. TypeOK'
      BY <1>0, <1>2, ZenonT(60) DEF RunPodStart, TypeOK, tables, locks, monv
    <2> QED
      BY <1>0, <1>2, <2>1, RunPodGivesBack, ZenonT(60) DEF RunPodStart
  <1> QED
    BY <1>1, <1>2, Zenon DEF RunPodStart

LEMMA RunPodReadyKeeps ==
  ASSUME EngineInv, NEW t \in Thread, RunPodReady(t)
  PROVE  EngineInv'
  <1> TypeOK /\ ScopeOf(t)
    BY Zenon DEF EngineInv, Types, Scope
  <1>0. loc[t].pc = "rp_ready" /\ loc[t].kern \in PeerId
    BY Zenon DEF RunPodReady, ScopeOf, RunPcs
  <1>1. CASE \E ip \in ipsFree :
               /\ ipsFree' = ipsFree \ {ip}
               /\ loc' = [loc EXCEPT ![t].pc = "rp_register", ![t].ip = ip]
               /\ UNCHANGED <<idsFree, ext>>
    BY <1>1, RunPodAddress, ZenonT(60)
  <1>2. CASE /\ \E ok \in BOOLEAN : StopKernel(t, loc[t].pod, ok)
             /\ idsFree' = idsFree \cup {loc[t].kern}
             /\ Return(t, FALSE)
             /\ UNCHANGED ipsFree
    <2>1. ASSUME NEW ok \in BOOLEAN, StopKernel(t, loc[t].pod, ok)
          PROVE  live' \in [Pod -> PeerId \cup {None}]
              /\ startedKernels' \subseteq Pod /\ guest' = guest
      BY <2>1, ZenonT(60) DEF StopKernel, TypeOK
    <2>2. TypeOK'
      BY <1>0, <1>2, <2>1, ZenonT(60) DEF RunPodReady, TypeOK, tables, locks, monv
    <2> QED
      BY <1>0, <1>2, <2>2, RunPodGivesBack, ZenonT(60) DEF RunPodReady
  <1> QED
    BY <1>1, <1>2, ZenonT(60) DEF RunPodReady

\* RunPod gives the address it holds to the pod it registers.
LEMMA AddressRegistered ==
  ASSUME IpApart, IpSomewhere, ipsFree' = ipsFree, NEW t \in Thread, NEW p \in Pod,
         HoldsIp(t), ~HoldsIp(t)', podIP[p] = None, loc[t].ip # None,
         \A u \in Thread \ {t} :
           (HoldsIp(u)' <=> HoldsIp(u)) /\ loc'[u].ip = loc[u].ip,
         \A q \in Pod : podIP'[q] = IF q = p THEN loc[t].ip ELSE podIP[q],
         None \notin Ip
  PROVE  IpApart' /\ IpSomewhere'
  <1>1. \A q \in Pod : podIP'[q] \notin ipsFree'
    BY Zenon DEF IpApart
  <1>2. \A q, r \in Pod : podIP'[q] = podIP'[r] /\ podIP'[q] # None => q = r
    BY DEF IpApart
  <1>3. ASSUME NEW u \in Thread, HoldsIp(u)'
        PROVE  /\ loc'[u].ip \notin ipsFree'
               /\ \A q \in Pod : podIP'[q] # loc'[u].ip
    BY <1>3 DEF IpApart
  <1>4. ASSUME NEW u \in Thread, NEW v \in Thread, HoldsIp(u)', HoldsIp(v)',
               loc'[u].ip = loc'[v].ip
        PROVE  u = v
    BY <1>4 DEF IpApart
  <1>5. ASSUME NEW i \in Ip \ ipsFree'
        PROVE  \/ \E q \in Pod : podIP'[q] = i
               \/ \E u \in Thread : HoldsIp(u)' /\ loc'[u].ip = i
    <2>1. CASE loc[t].ip = i
      BY <2>1
    <2>2. CASE loc[t].ip # i
      BY <1>5, <2>2 DEF IpSomewhere
    <2> QED
      BY <2>1, <2>2
  <1> QED
    BY <1>1, <1>2, <1>3, <1>4, <1>5, Zenon DEF IpApart, IpSomewhere

\* The same for the peer id.
LEMMA IdRegistered ==
  ASSUME IdApart, IdSomewhere, idsFree' = idsFree, NEW t \in Thread, NEW p \in Pod,
         HoldsId(t), ~HoldsId(t)', kernels[p] = None, loc[t].kern # None,
         \A u \in Thread \ {t} :
           (HoldsId(u)' <=> HoldsId(u)) /\ loc'[u].kern = loc[u].kern,
         \A q \in Pod : kernels'[q] = IF q = p THEN loc[t].kern ELSE kernels[q],
         None \notin PeerId
  PROVE  IdApart' /\ IdSomewhere'
  <1>1. \A q \in Pod : kernels'[q] \notin idsFree'
    BY Zenon DEF IdApart
  <1>2. \A q, r \in Pod : kernels'[q] = kernels'[r] /\ kernels'[q] # None => q = r
    BY DEF IdApart
  <1>3. ASSUME NEW u \in Thread, HoldsId(u)'
        PROVE  /\ loc'[u].kern \notin idsFree'
               /\ \A q \in Pod : kernels'[q] # loc'[u].kern
    BY <1>3 DEF IdApart
  <1>4. ASSUME NEW u \in Thread, NEW v \in Thread, HoldsId(u)', HoldsId(v)',
               loc'[u].kern = loc'[v].kern
        PROVE  u = v
    BY <1>4 DEF IdApart
  <1>5. ASSUME NEW i \in PeerId \ idsFree'
        PROVE  \/ \E q \in Pod : kernels'[q] = i
               \/ \E u \in Thread : HoldsId(u)' /\ loc'[u].kern = i
    <2>1. CASE loc[t].kern = i
      BY <2>1
    <2>2. CASE loc[t].kern # i
      BY <1>5, <2>2 DEF IdSomewhere
    <2> QED
      BY <2>1, <2>2
  <1> QED
    BY <1>1, <1>2, <1>3, <1>4, <1>5, Zenon DEF IdApart, IdSomewhere

LEMMA RunPodRegisterKeeps ==
  ASSUME EngineInv, NEW t \in Thread, RunPodRegister(t)
  PROVE  EngineInv'
  <1> t \in Thread /\ loc \in [Thread -> Locals] /\ TypeOK /\ ScopeOf(t) /\ Scope
    BY Zenon DEF Thread, EngineInv, Types, Scope
  <1>1. loc' \in [Thread -> Locals] /\ Others(t)
    <2>1. CASE Return(t, TRUE)
      BY <2>1, ReturnLocals, Zenon
    <2> QED
      BY <2>1, Zenon DEF RunPodRegister
  <1>2. TypeOK'
    <2>1. loc[t].kern \in PeerId /\ loc[t].ip \in Ip
      BY Zenon DEF RunPodRegister, ScopeOf, RunPcs
    <2> QED
      BY <2>1, Zenon DEF RunPodRegister, TypeOK, locks, monv, res, ext
  <1>3. /\ loc[t].pc = "rp_register"
        /\ loc'[t].pc = (IF t \in Caller THEN "idle" ELSE "mn_after")
        /\ loc'[t].own = (IF t \in Caller THEN None ELSE loc[t].own)
        /\ ~loc'[t].nested
        /\ ~loc[t].nested
        /\ loc[t].pod \in Pod /\ loc[t].kern \in PeerId /\ loc[t].ip \in Ip
        /\ kernels' = [kernels EXCEPT ![loc[t].pod] = loc[t].kern]
        /\ podState' = [podState EXCEPT ![loc[t].pod] = "ready"]
        /\ podIP' = [podIP EXCEPT ![loc[t].pod] = loc[t].ip]
        /\ podState[loc[t].pod] = "none" /\ kernels[loc[t].pod] = None
              /\ podIP[loc[t].pod] = None
        /\ UNCHANGED <<podToContainer, podCleanup, containerStop, monitors, cancelled,
                        idsFree, ipsFree>>
    <2>1. Return(t, TRUE)
      BY Zenon DEF RunPodRegister
    <2>2. /\ loc[t].pc = "rp_register" /\ ~loc[t].nested
          /\ loc[t].pod \in Pod /\ loc[t].kern \in PeerId /\ loc[t].ip \in Ip
      BY Zenon DEF RunPodRegister, ScopeOf, NestedPcs, RunPcs
    <2>3. podState[loc[t].pod] = "none" /\ kernels[loc[t].pod] = None
              /\ podIP[loc[t].pod] = None
      BY <2>2, Zenon DEF EngineInv, Born, RunPcs
    <2> QED
      BY <2>1, <2>2, <2>3, ReturnLocals, Zenon DEF RunPodRegister, locks, monv, res
  <1>4. Scope'
    <2>1. ScopeOf(t)'
      BY <1>3, EngineAssumption, Zenon DEF ScopeOf, InCleanup, StopPcs, Pcs, MonPcs,
         RunPcs, CtrPcs, NestedPcs, Thread
    <2> QED
      BY <1>1, <2>1, ScopeFrame, ZenonT(60)
  <1>5. Linked'
    BY <1>3, Zenon DEF EngineInv, Linked
  <1>6. Claimed' /\ CleanupExclusive'
    BY <1>1, <1>3, ClaimFrame, Zenon DEF EngineInv, InCleanup, InStop, ScopeOf, StopPcs,
       MonPcs, RunPcs, CtrPcs, NestedPcs
  <1>7. Fresh'
    BY <1>1, <1>3, FreshFrame, ZenonT(60) DEF EngineInv, InCleanup, InStop, ScopeOf,
       StopPcs, MonPcs, RunPcs, CtrPcs, NestedPcs
  <1>8. Born'
    <2>1. loc[t].pc \in RunPcs /\ loc'[t].pc \notin RunPcs /\ ~InCleanup(t)' /\ Born
      BY <1>3, ZenonT(60) DEF EngineInv, RunPcs, InCleanup
    <2>2. \A u \in Thread \ {t} : loc'[u] = loc[u] /\ (InCleanup(u)' <=> InCleanup(u))
      BY <1>1, Zenon DEF Others, InCleanup
    <2>3. \A u \in Thread \ {t} : loc[u].pc \in RunPcs => loc[u].pod # loc[t].pod
      BY <2>1, Zenon DEF Born
    <2>4. \A u \in Thread : InCleanup(u) => loc[u].pod # loc[t].pod
      BY <1>3, <2>1, Zenon DEF Born
    <2>5. \A u \in Thread : /\ loc[u].pc \in RunPcs => loc[u].pod \in Pod
                            /\ InCleanup(u) => loc[u].pod \in Pod
      BY Zenon DEF Scope, ScopeOf
    <2>6. \A q \in Pod : q # loc[t].pod =>
            podState'[q] = podState[q] /\ kernels'[q] = kernels[q] /\ podIP'[q] = podIP[q]
      BY <1>3, Zenon DEF TypeOK
    <2>7. podState'[loc[t].pod] = "ready"
      BY <1>3, Zenon DEF TypeOK
    <2>8. \A u \in Thread : loc'[u].pc \in RunPcs => podState'[loc'[u].pod] = "none"
      <3> SUFFICES ASSUME NEW u \in Thread, loc'[u].pc \in RunPcs
                   PROVE  podState'[loc'[u].pod] = "none"
        BY Zenon
      <3>1. u # t /\ loc'[u] = loc[u] /\ loc[u].pod \in Pod /\ loc[u].pod # loc[t].pod
        BY <2>1, <2>2, <2>3, <2>5, Zenon
      <3> QED
        BY <2>1, <2>6, <3>1, ZenonT(60) DEF Born
    <2>9. \A u, v \in Thread :
            loc'[u].pc \in RunPcs /\ loc'[v].pc \in RunPcs /\ loc'[u].pod = loc'[v].pod
              => u = v
      <3> SUFFICES ASSUME NEW u \in Thread, NEW v \in Thread, loc'[u].pc \in RunPcs,
                          loc'[v].pc \in RunPcs, loc'[u].pod = loc'[v].pod
                   PROVE  u = v
        BY Zenon
      <3>1. loc'[u] = loc[u] /\ loc'[v] = loc[v]
        BY <2>1, <2>2, Zenon
      <3>2. loc[u].pc \in RunPcs /\ loc[v].pc \in RunPcs /\ loc[u].pod = loc[v].pod
        BY <3>1, Zenon
      <3> QED
        BY <2>1, <3>2, ZenonT(60) DEF Born
    <2>10. \A u \in Thread : InCleanup(u)' => podState'[loc'[u].pod] # "none"
      <3> SUFFICES ASSUME NEW u \in Thread, InCleanup(u)'
                   PROVE  podState'[loc'[u].pod] # "none"
        BY Zenon
      <3>1. u # t /\ loc'[u] = loc[u] /\ loc[u].pod \in Pod /\ loc[u].pod # loc[t].pod
        BY <2>1, <2>2, <2>4, <2>5, Zenon
      <3>2. podState[loc[u].pod] # "none"
        BY <2>1, <2>2, <3>1, Zenon DEF Born
      <3> QED
        BY <2>6, <3>1, <3>2, Zenon
    <2>11. \A q \in Pod : podState'[q] = "none" => kernels'[q] = None /\ podIP'[q] = None
      <3> SUFFICES ASSUME NEW q \in Pod, podState'[q] = "none"
                   PROVE  kernels'[q] = None /\ podIP'[q] = None
        BY Zenon
      <3>1. q # loc[t].pod
        BY <2>7, Zenon
      <3> QED
        BY <2>1, <2>6, <3>1, Zenon DEF Born
    <2> QED
      BY <2>8, <2>9, <2>10, <2>11, Zenon DEF Born
  <1>9. Known'
    <2>1. \A u \in Thread : InCleanup(u) => loc[u].pod # loc[t].pod
      BY <1>3, Zenon DEF EngineInv, Born
    <2> QED
      BY <1>1, <1>3, <2>1, SMTT(60) DEF EngineInv, Known, Others, InCleanup
  <1>10. IpApart' /\ IpSomewhere'
    <2>1. HoldsIp(t) /\ ~HoldsIp(t)'
      BY <1>3, EngineAssumption, Zenon DEF HoldsIp
    <2>2. \A u \in Thread \ {t} : (HoldsIp(u)' <=> HoldsIp(u)) /\ loc'[u].ip = loc[u].ip
      BY <1>1, Zenon DEF Others, HoldsIp
    <2>3. \A q \in Pod : podIP'[q] = IF q = loc[t].pod THEN loc[t].ip ELSE podIP[q]
      BY <1>3, Zenon DEF TypeOK
    <2>4. IpApart /\ IpSomewhere /\ None \notin Ip
      BY EngineAssumption, Zenon DEF EngineInv
    <2> QED
      BY <1>3, <2>1, <2>2, <2>3, <2>4, AddressRegistered, ZenonT(60)
  <1>11. IdApart' /\ IdSomewhere'
    <2>1. HoldsId(t) /\ ~HoldsId(t)'
      BY <1>3, Zenon DEF HoldsId, RunPcs
    <2>2. \A u \in Thread \ {t} : (HoldsId(u)' <=> HoldsId(u))
              /\ loc'[u].kern = loc[u].kern
      BY <1>1, Zenon DEF Others, HoldsId
    <2>3. \A q \in Pod : kernels'[q] = IF q = loc[t].pod THEN loc[t].kern ELSE kernels[q]
      BY <1>3, ZenonT(60) DEF TypeOK
    <2>4. IdApart /\ IdSomewhere /\ None \notin PeerId
      BY EngineAssumption, Zenon DEF EngineInv
    <2> QED
      BY <1>3, <2>1, <2>2, <2>3, <2>4, IdRegistered, ZenonT(60)
  <1>12. NoStrayMonitor'
    BY <1>1, <1>3, StrayFrame, Zenon DEF EngineInv, InCleanup, InStop, ScopeOf, StopPcs,
       MonPcs, RunPcs, CtrPcs, NestedPcs
  <1> QED
    BY <1>1, <1>2, <1>4, <1>5, <1>6, <1>7, <1>8, <1>9, <1>10, <1>11, <1>12, ZenonT(60)
       DEF EngineInv, Types
==============================================================================
