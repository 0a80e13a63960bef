----------------------------- MODULE EngineShield -----------------------------
(***************************************************************************)
(* StopContainer is shielded from the monitors, for any number of pods,    *)
(* containers, callers and monitors: a monitor past its test of            *)
(* containerStop is waited for by the StopContainer that has the container *)
(* or by whoever cancels the registered monitor, directly or through a     *)
(* chain of monitors that wait to be launched.                             *)
(***************************************************************************)
EXTENDS EngineProofs

------------------------------------------------------------------------------
(* StopContainer and the monitors.                                         *)

\* Monitor m is past its test of containerStop and may run StopPod.
Past(m) == loc[m].pc \in {"mn_stop", "sp_enter"} \/ InCleanup(m)

\* A wait for x is a wait for m: x is m, or one of a set of monitors that wait
\* to be launched until others of the set, or m, have ended.
Behind(m, x) ==
  \E B \in SUBSET Mon :
    /\ x \in B \cup {m}
    /\ \A y \in B :
         /\ loc[y].pc = "ready"
         /\ \A u \in Thread : loc[u].pc = "ms_wait" /\ loc[u].new = y
                                => loc[u].mon \in B \cup {m}

\* RemovePod has dropped the pod's container, or the pod.
BeingRemoved(p) ==
  \/ podState[p] = "removed"
  \/ \E u \in Thread : loc[u].pc \in {"rm_kernel", "rm_final"} /\ loc[u].pod = p

\* A monitor past its test is waited for: by the StopContainer that has the
\* container, or else by whoever cancels the registered monitor; or its pod is
\* being removed and it will not enter StopPod.
ShieldOf(m) ==
  \/ ~InCleanup(m) /\ BeingRemoved(CtrPod[loc[m].own])
  \/ loc[m].own \notin containerStop /\ Behind(m, monitors[loc[m].own])
  \/ \E t \in Thread : /\ loc[t].pc = "sc_wait" /\ loc[t].ctr = loc[m].own
                       /\ Behind(m, loc[t].mon)

Shield == \A m \in Mon : Past(m) => ShieldOf(m)

RemovePcs == {"rc_enter", "rc_rpc", "rc_final", "rc_orphan", "rm_kernel", "rm_final"}

\* A monitor stops the pod of its own container; RemoveContainer runs only
\* inside RemovePod.
LaneOf(t) ==
  /\ t \in Mon /\ Past(t) /\ loc[t].pc # "mn_stop" => loc[t].pod = CtrPod[loc[t].own]
  /\ loc[t].pc \in RemovePcs => loc[t].nested /\ t \in Caller

Lanes == \A t \in Thread : LaneOf(t)

\* A step of t that launches no monitor, ends no wait too early and sends no
\* monitor into a cleanup it is kept from.
Calm(t) ==
  /\ Others(t)
  /\ \A p \in Pod : podState[p] = "removed" => podState'[p] = "removed"
  /\ loc[t].pc \notin {"ready", "ms_wait"} /\ loc'[t].pc # "ms_wait"
  /\ loc[t].pc = "sc_wait" => Done(loc[t].mon)
  /\ loc[t].pc \in {"rm_kernel", "rm_final"} =>
       \/ loc'[t].pc \in {"rm_kernel", "rm_final"} /\ loc'[t].pod = loc[t].pod
       \/ podState'[loc[t].pod] = "removed"
  /\ t \in Mon /\ Past(t)' =>
       /\ loc'[t].own = loc[t].own
       /\ Past(t) \/ (loc[t].own \notin containerStop /\ monitors[loc[t].own] = t)
       /\ InCleanup(t)' => InCleanup(t) \/ ~BeingRemoved(CtrPod[loc[t].own])

\* It registers no monitor and takes no container either.
Passive(t) == Calm(t) /\ UNCHANGED <<monitors, containerStop>>

\* Others still wait for m.
LEMMA BehindFrame ==
  ASSUME NEW t \in Thread, Others(t), loc[t].pc # "ready", loc'[t].pc # "ms_wait",
         NEW m \in Mon, NEW x, Behind(m, x)
  PROVE  Behind(m, x)'
  <1>1. PICK B \in SUBSET Mon :
          /\ x \in B \cup {m}
          /\ \A y \in B :
               /\ loc[y].pc = "ready"
               /\ \A u \in Thread : loc[u].pc = "ms_wait" /\ loc[u].new = y
                                      => loc[u].mon \in B \cup {m}
    BY Zenon DEF Behind
  <1>2. \A y \in B : loc'[y].pc = "ready"
    BY <1>1, Zenon DEF Others, Thread
  <1>3. \A y \in B, u \in Thread : loc'[u].pc = "ms_wait" /\ loc'[u].new = y
                                     => loc'[u].mon \in B \cup {m}
    BY <1>1, Zenon DEF Others
  <1> QED
    BY <1>1, <1>2, <1>3, Zenon DEF Behind

\* Who waits for m waits as long as m runs.
LEMMA NotDone ==
  ASSUME NEW m \in Mon, Past(m), NEW x, Behind(m, x), ScopeOf(m)
  PROVE  x \in Mon /\ ~Done(x)
  <1>1. loc[m].pc # "off"
    BY Zenon DEF Past, InCleanup, ScopeOf, NestedPcs
  <1>2. x \in Mon /\ (x = m \/ loc[x].pc = "ready")
    BY Zenon DEF Behind
  <1>3. x # None
    BY <1>2, EngineAssumption, Zenon
  <1> QED
    BY <1>1, <1>2, <1>3, Zenon DEF Done

\* A pod that is being removed stays so.
LEMMA RemovedFrame ==
  ASSUME NEW t \in Thread, Calm(t), NEW p \in Pod, BeingRemoved(p)
  PROVE  BeingRemoved(p)'
  <1>1. CASE podState[p] = "removed"
    BY <1>1, Zenon DEF Calm, BeingRemoved
  <1>2. ASSUME NEW u \in Thread, loc[u].pc \in {"rm_kernel", "rm_final"}, loc[u].pod = p
        PROVE  BeingRemoved(p)'
    <2>1. CASE u = t
      BY <1>2, <2>1, Zenon DEF Calm, BeingRemoved
    <2>2. CASE u # t
      BY <1>2, <2>2, Zenon DEF Calm, Others, BeingRemoved
    <2> QED
      BY <2>1, <2>2, Zenon
  <1> QED
    BY <1>1, <1>2, Zenon DEF BeingRemoved

\* Only the lane of the thread that moves has to be checked.
LEMMA LanesFrame ==
  ASSUME Lanes, NEW t \in Thread, Others(t), LaneOf(t)'
  PROVE  Lanes'
  <1> SUFFICES ASSUME NEW u \in Thread \ {t} PROVE LaneOf(u)'
    BY Zenon DEF Lanes
  <1>1. loc'[u] = loc[u] /\ LaneOf(u)
    BY Zenon DEF Lanes, Others
  <1> QED
    BY <1>1, Zenon DEF LaneOf, Past, InCleanup

\* How a monitor past its test is waited for after a calm step.
LEMMA Waited ==
  ASSUME EngineInv, Shield, NEW t \in Thread, Calm(t), NEW m \in Mon, Past(m), Past(m)'
  PROVE  /\ loc'[m].own = loc[m].own /\ loc[m].own \in Ctr
         /\ \/ ~InCleanup(m)' /\ BeingRemoved(CtrPod[loc[m].own])'
            \/ /\ loc[m].own \notin containerStop
               /\ \E x : x = monitors[loc[m].own] /\ Behind(m, x) /\ Behind(m, x)'
            \/ \E u \in Thread \ {t} :
                 /\ loc[u].pc = "sc_wait" /\ loc[u].ctr = loc[m].own
                 /\ Behind(m, loc[u].mon)'
  <1>0. m \in Thread /\ Others(t) /\ ScopeOf(m) /\ loc[t].pc # "ready"
        /\ loc'[t].pc # "ms_wait"
    BY Zenon DEF Thread, Calm, EngineInv, Scope
  <1>1. /\ loc'[m].own = loc[m].own /\ loc[m].own \in Ctr
        /\ InCleanup(m)' => InCleanup(m) \/ ~BeingRemoved(CtrPod[loc[m].own])
    <2>1. loc[m].own \in Ctr
      BY <1>0, Zenon DEF Past, InCleanup, ScopeOf, NestedPcs
    <2>2. CASE m = t
      BY <2>1, <2>2, Zenon DEF Calm
    <2>3. CASE m # t
      BY <1>0, <2>1, <2>3, Zenon DEF Others, InCleanup
    <2> QED
      BY <2>2, <2>3, Zenon
  <1>2. CASE ~InCleanup(m) /\ BeingRemoved(CtrPod[loc[m].own])
    <2>1. PICK p \in Pod : p = CtrPod[loc[m].own]
      BY <1>1, EngineAssumption, Zenon
    <2>2. BeingRemoved(p)'
      BY <1>2, <2>1, RemovedFrame, Zenon
    <2>3. CtrPod[loc'[m].own] = p /\ ~InCleanup(m)'
      BY <1>1, <1>2, <2>1, Zenon
    <2>4. BeingRemoved(CtrPod[loc[m].own])'
      BY <2>2, <2>3, Zenon
    <2> QED
      BY <1>1, <2>3, <2>4, Zenon
  <1>3. CASE loc[m].own \notin containerStop /\ Behind(m, monitors[loc[m].own])
    <2>1. PICK x : x = monitors[loc[m].own]
      BY Zenon
    <2>2. Behind(m, x)'
      BY <1>0, <1>3, <2>1, BehindFrame, Zenon
    <2> QED
      BY <1>1, <1>3, <2>1, <2>2, Zenon
  <1>4. ASSUME NEW u \in Thread, loc[u].pc = "sc_wait", loc[u].ctr = loc[m].own,
               Behind(m, loc[u].mon)
        PROVE  u # t /\ Behind(m, loc[u].mon)'
    <2>1. u # t
      BY <1>0, <1>4, NotDone, Zenon DEF Calm
    <2>2. PICK x : x = loc[u].mon
      BY Zenon
    <2>3. Behind(m, x)'
      BY <1>0, <1>4, <2>2, BehindFrame, Zenon
    <2>4. loc'[u].mon = x
      BY <1>0, <2>1, <2>2, Zenon DEF Others
    <2> QED
      BY <2>1, <2>3, <2>4, Zenon
  <1> QED
    BY <1>1, <1>2, <1>3, <1>4, Zenon DEF Shield, ShieldOf

\* The step that takes a monitor past its test finds it registered.
LEMMA Admitted ==
  ASSUME NEW t \in Thread, Passive(t), NEW m \in Mon, ~Past(m), Past(m)'
  PROVE  ShieldOf(m)'
  <1>1. m = t
    BY Zenon DEF Passive, Calm, Others, Past, InCleanup, Thread
  <1>2. /\ loc'[m].own = loc[m].own /\ loc[m].own \notin containerStop
        /\ monitors[loc[m].own] = m
        /\ monitors' = monitors /\ containerStop' = containerStop
    BY <1>1, Zenon DEF Passive, Calm
  <1>3. Behind(m, m)'
    <2>1. {} \in SUBSET Mon /\ m \in {} \cup {m}
      BY Zenon
    <2> QED
      BY <2>1, Zenon DEF Behind
  <1>4. monitors'[loc'[m].own] = m
    BY <1>2, Zenon
  <1>5. Behind(m, monitors[loc[m].own])'
    BY <1>3, <1>4, Zenon
  <1> QED
    BY <1>2, <1>5, Zenon DEF ShieldOf

\* Somebody else still waits for m.
LEMMA StillWaited ==
  ASSUME NEW t \in Thread, Others(t), NEW m \in Mon, NEW u \in Thread \ {t},
         loc'[m].own = loc[m].own, loc[u].pc = "sc_wait", loc[u].ctr = loc[m].own,
         Behind(m, loc[u].mon)'
  PROVE  ShieldOf(m)'
  <1>1. loc'[u].pc = "sc_wait" /\ loc'[u].ctr = loc'[m].own
    BY Zenon DEF Others
  <1> QED
    BY <1>1, Zenon DEF ShieldOf

\* Behind the same monitor, under its name of the next state.
LEMMA SameMonitor ==
  ASSUME NEW m \in Mon, NEW x, Behind(m, x)', monitors'[loc'[m].own] = x
  PROVE  Behind(m, monitors[loc[m].own])'
  BY Zenon

\* Passive steps keep the shield.
LEMMA PassiveKeeps ==
  ASSUME EngineInv, Shield, Lanes, NEW t \in Thread, Passive(t), LaneOf(t)'
  PROVE  Shield' /\ Lanes'
  <1>1. Lanes'
    BY LanesFrame, Zenon DEF Passive, Calm
  <1>2. ASSUME NEW m \in Mon, Past(m), Past(m)' PROVE ShieldOf(m)'
    <2>0. Calm(t) /\ Others(t) /\ monitors' = monitors /\ containerStop' = containerStop
      BY Zenon DEF Passive, Calm
    <2>1. loc'[m].own = loc[m].own
      BY <1>2, <2>0, Waited, Zenon
    <2>2. CASE ~InCleanup(m)' /\ BeingRemoved(CtrPod[loc[m].own])'
      BY <2>2, Zenon DEF ShieldOf
    <2>3. ASSUME loc[m].own \notin containerStop,
                 NEW x, x = monitors[loc[m].own], Behind(m, x)'
          PROVE  ShieldOf(m)'
      <3>1. monitors'[loc'[m].own] = x
        BY <2>0, <2>1, <2>3, Zenon
      <3>2. Behind(m, monitors[loc[m].own])'
        BY <2>3, <3>1, SameMonitor, Zenon
      <3> QED
        BY <2>0, <2>1, <2>3, <3>2, Zenon DEF ShieldOf
    <2>4. ASSUME NEW u \in Thread \ {t}, loc[u].pc = "sc_wait", loc[u].ctr = loc[m].own,
                 Behind(m, loc[u].mon)'
          PROVE  ShieldOf(m)'
      BY <2>0, <2>1, <2>4, StillWaited, Zenon
    <2> QED
      BY <1>2, <2>0, <2>2, <2>3, <2>4, Waited, Zenon
  <1> QED
    BY <1>1, <1>2, Admitted, Zenon DEF Shield

------------------------------------------------------------------------------
(* The passive steps: each leaves monitors and containerStop alone, and the  *)
(* lane of its thread is kept.                                               *)

\* Where a thread neither stops a pod nor removes or launches anything.
AsidePcs ==
  {"idle", "mn_after", "rp_start", "rp_ready", "rp_register", "cc_rpc",
   "cc_register", "st_rpc", "st_apply", "ms_swap", "mn_decide", "rs_rpc",
   "rs_apply", "mn_eof", "rs_enter", "mn_tick", "off", "mn_cleanup",
   "mn_log", "mn_finish"}

\* A step elsewhere to one of those places is passive.
LEMMA Aside ==
  ASSUME NEW t \in Thread, Others(t), UNCHANGED <<podState, monitors, containerStop>>,
         loc[t].pc \notin {"ready", "ms_wait", "sc_wait", "rm_kernel", "rm_final"},
         loc'[t].pc \in AsidePcs, ~loc'[t].nested
  PROVE  Passive(t) /\ LaneOf(t)'
  <1>1. ~Past(t)' /\ loc'[t].pc \notin RemovePcs /\ loc'[t].pc # "ms_wait"
    BY Zenon DEF Past, InCleanup, RemovePcs, AsidePcs
  <1> QED
    BY <1>1, Zenon DEF Passive, Calm, LaneOf

LEMMA RunPodPassive ==
  ASSUME EngineInv, NEW t \in Thread, NEW p \in Pod, RunPod(t, p)
  PROVE  Passive(t) /\ LaneOf(t)'
  <1> loc \in [Thread -> Locals] /\ ScopeOf(t) /\ t \in Thread
    BY Zenon DEF EngineInv, Types, Scope
  <1>1. Others(t) /\ UNCHANGED <<podState, monitors, containerStop>>
    BY DEF RunPod, Return, Others, tables, locks, monv
  <1>2. loc[t].pc = "idle" /\ ~loc[t].nested
    BY Zenon DEF RunPod, NewCall, ScopeOf, NestedPcs
  <1>3. loc'[t].pc \in {"idle", "mn_after", "rp_start"} /\ ~loc'[t].nested
    BY <1>2 DEF RunPod, Return, AtRest, Locals
  <1> QED
    BY <1>1, <1>2, <1>3, Aside, Zenon DEF AsidePcs

LEMMA RunPodStartPassive ==
  ASSUME EngineInv, NEW t \in Thread, RunPodStart(t)
  PROVE  Passive(t) /\ LaneOf(t)'
  <1> loc \in [Thread -> Locals] /\ ScopeOf(t) /\ t \in Thread
    BY Zenon DEF EngineInv, Types, Scope
  <1>1. Others(t) /\ UNCHANGED <<podState, monitors, containerStop>>
    BY DEF RunPodStart, Goto, Return, Others, tables, locks, monv
  <1>2. loc[t].pc = "rp_start" /\ ~loc[t].nested
    BY Zenon DEF RunPodStart, ScopeOf, NestedPcs
  <1>3. loc'[t].pc \in {"rp_ready", "idle", "mn_after"} /\ ~loc'[t].nested
    BY <1>2 DEF RunPodStart, Goto, Return, AtRest, Locals
  <1> QED
    BY <1>1, <1>2, <1>3, Aside, Zenon DEF AsidePcs

LEMMA RunPodReadyPassive ==
  ASSUME EngineInv, NEW t \in Thread, RunPodReady(t)
  PROVE  Passive(t) /\ LaneOf(t)'
  <1> loc \in [Thread -> Locals] /\ ScopeOf(t) /\ t \in Thread
    BY Zenon DEF EngineInv, Types, Scope
  <1>1. Others(t) /\ UNCHANGED <<podState, monitors, containerStop>>
    BY DEF RunPodReady, Return, Others, tables, locks, monv
  <1>2. loc[t].pc = "rp_ready" /\ ~loc[t].nested
    BY Zenon DEF RunPodReady, ScopeOf, NestedPcs
  <1>3. loc'[t].pc \in {"rp_register", "idle", "mn_after"} /\ ~loc'[t].nested
    BY <1>2 DEF RunPodReady, Return, AtRest, Locals
  <1> QED
    BY <1>1, <1>2, <1>3, Aside, Zenon DEF AsidePcs

LEMMA RunPodRegisterPassive ==
  ASSUME EngineInv, Lanes, NEW t \in Thread, RunPodRegister(t)
  PROVE  Passive(t) /\ LaneOf(t)'
  <1> loc \in [Thread -> Locals] /\ ScopeOf(t) /\ LaneOf(t) /\ t \in Thread
    BY Zenon DEF EngineInv, Types, Scope, Lanes
  <1>1. Others(t) /\ UNCHANGED <<monitors, containerStop>>
    BY DEF RunPodRegister, Return, Others, locks, monv
  <1>2. \A p \in Pod : podState[p] = "removed" => podState'[p] = "removed"
    <2>1. /\ podState[loc[t].pod] = "none"
          /\ podState \in [Pod -> {"none", "ready", "notready", "removed"}]
      BY Zenon DEF RunPodRegister, EngineInv, Types, TypeOK, Born, RunPcs
    <2> QED
      BY <2>1, Zenon DEF RunPodRegister
  <1> QED
    BY <1>1, <1>2, EngineAssumption DEF RunPodRegister, Return, AtRest, Passive, Calm,
       Past, InCleanup, LaneOf, RemovePcs

LEMMA StopPodCheckPassive ==
  ASSUME EngineInv, Lanes, NEW t \in Thread, StopPodCheck(t)
  PROVE  Passive(t) /\ LaneOf(t)'
  <1> loc \in [Thread -> Locals] /\ ScopeOf(t) /\ LaneOf(t) /\ t \in Thread
    BY Zenon DEF EngineInv, Types, Scope, Lanes
  <1>1. Others(t) /\ UNCHANGED <<monitors, containerStop>>
    BY DEF StopPodCheck, Goto, Others, locks, monv
  <1> QED
    BY <1>1, EngineAssumption DEF StopPodCheck, Goto, Passive, Calm, Past, InCleanup,
       Locals, tables, LaneOf, RemovePcs

LEMMA StopPodKernelPassive ==
  ASSUME EngineInv, Lanes, NEW t \in Thread, StopPodKernel(t)
  PROVE  Passive(t) /\ LaneOf(t)'
  <1> loc \in [Thread -> Locals] /\ ScopeOf(t) /\ LaneOf(t) /\ t \in Thread
    BY Zenon DEF EngineInv, Types, Scope, Lanes
  <1>1. Others(t) /\ UNCHANGED <<monitors, containerStop>>
    BY Zenon DEF StopPodKernel, Goto, Others, locks, monv
  <1>2. /\ loc[t].pc = "sp_kernel" /\ loc'[t].pc \in {"sp_final", "sp_end"}
        /\ loc'[t].own = loc[t].own /\ loc'[t].pod = loc[t].pod
        /\ loc'[t].nested = loc[t].nested
    <2>0. loc[t].pc = "sp_kernel" /\ loc[t] \in Locals
      BY Zenon DEF StopPodKernel
    <2>1. CASE Goto(t, "sp_final")
      <3>1. loc'[t] = [loc[t] EXCEPT !.pc = "sp_final"]
        BY <2>1, Zenon DEF Goto
      <3> QED
        BY <2>0, <3>1
    <2>2. ASSUME NEW ok \in BOOLEAN,
                 loc' = [loc EXCEPT ![t].pc = IF ok THEN "sp_final" ELSE "sp_end",
                                      ![t].ok = ok]
          PROVE  <1>2!:
      <3>1. PICK pc \in {"sp_final", "sp_end"} :
              loc'[t] = [loc[t] EXCEPT !.pc = pc, !.ok = ok]
        BY <2>2, Zenon
      <3> QED
        BY <2>0, <3>1
    <2> QED
      BY <2>1, <2>2, Zenon DEF StopPodKernel
  <1>3. LaneOf(t)'
    BY <1>2 DEF LaneOf, Past, InCleanup, RemovePcs
  <1> QED
    BY <1>1, <1>2, <1>3 DEF StopPodKernel, Passive, Calm, Past, InCleanup, tables

LEMMA StopPodFinalPassive ==
  ASSUME EngineInv, Lanes, NEW t \in Thread, StopPodFinal(t)
  PROVE  Passive(t) /\ LaneOf(t)'
  <1> loc \in [Thread -> Locals] /\ ScopeOf(t) /\ LaneOf(t) /\ t \in Thread
    BY Zenon DEF EngineInv, Types, Scope, Lanes
  <1>1. Others(t) /\ UNCHANGED <<monitors, containerStop>>
    BY DEF StopPodFinal, Goto, Others, locks, monv
  <1> QED
    BY <1>1, EngineAssumption DEF StopPodFinal, Goto, PodExists, Passive, Calm, Past,
       InCleanup, LaneOf, RemovePcs

LEMMA ReleaseIPPassive ==
  ASSUME EngineInv, Lanes, NEW t \in Thread, ReleaseIP(t)
  PROVE  Passive(t) /\ LaneOf(t)'
  <1> loc \in [Thread -> Locals] /\ ScopeOf(t) /\ LaneOf(t) /\ t \in Thread
    BY Zenon DEF EngineInv, Types, Scope, Lanes
  <1>1. Others(t) /\ UNCHANGED <<monitors, containerStop>>
    BY DEF ReleaseIP, Others, locks, monv
  <1> QED
    BY <1>1, EngineAssumption DEF ReleaseIP, Passive, Calm, Past, InCleanup, tables,
       LaneOf, RemovePcs

LEMMA EndPodCleanupPassive ==
  ASSUME EngineInv, Lanes, NEW t \in Thread, EndPodCleanup(t)
  PROVE  Passive(t) /\ LaneOf(t)'
  <1> loc \in [Thread -> Locals] /\ ScopeOf(t) /\ LaneOf(t) /\ t \in Thread
    BY Zenon DEF EngineInv, Types, Scope, Lanes
  <1>1. Others(t) /\ UNCHANGED <<monitors, containerStop>>
    BY DEF EndPodCleanup, Return, Others, monv
  <1> QED
    BY <1>1, EngineAssumption DEF EndPodCleanup, Return, AtRest, Passive, Calm, Past,
       InCleanup, tables, LaneOf, RemovePcs

LEMMA RemovePodPassive ==
  ASSUME EngineInv, Lanes, NEW t \in Thread, NEW p \in Pod, RemovePod(t, p)
  PROVE  Passive(t) /\ LaneOf(t)'
  <1> loc \in [Thread -> Locals] /\ ScopeOf(t) /\ LaneOf(t) /\ t \in Thread
    BY Zenon DEF EngineInv, Types, Scope, Lanes
  <1>1. Others(t) /\ UNCHANGED <<monitors, containerStop>>
    BY DEF RemovePod, Others, monv
  <1>a. /\ t \notin Mon /\ t \in Caller /\ podState' = podState /\ loc[t].pc = "idle"
    BY Zenon DEF RemovePod, NewCall, ScopeOf, MonPcs, tables, Thread
  <1>b. loc'[t].pc \in {"rm_kernel", "rc_enter"} /\ loc'[t].nested
    BY DEF RemovePod, Locals
  <1>2. /\ t \notin Mon /\ t \in Caller /\ podState' = podState /\ loc[t].pc = "idle"
        /\ loc'[t].pc \in {"rm_kernel", "rc_enter"} /\ loc'[t].nested
    BY <1>a, <1>b, Zenon
  <1>3. LaneOf(t)'
    BY <1>2, Zenon DEF LaneOf
  <1>4. /\ loc[t].pc \notin {"ready", "ms_wait", "sc_wait", "rm_kernel", "rm_final"}
        /\ loc'[t].pc # "ms_wait"
    BY <1>2
  <1> QED
    BY <1>1, <1>2, <1>3, <1>4, Zenon DEF Passive, Calm

LEMMA RemovePodKernelPassive ==
  ASSUME EngineInv, Lanes, NEW t \in Thread, RemovePodKernel(t)
  PROVE  Passive(t) /\ LaneOf(t)'
  <1> loc \in [Thread -> Locals] /\ ScopeOf(t) /\ LaneOf(t) /\ t \in Thread
    BY Zenon DEF EngineInv, Types, Scope, Lanes
  <1>1. Others(t) /\ UNCHANGED <<monitors, containerStop>>
    BY DEF RemovePodKernel, Goto, Others, locks, monv
  <1> QED
    BY <1>1, EngineAssumption DEF RemovePodKernel, Goto, Passive, Calm, tables, LaneOf,
       RemovePcs

LEMMA RemovePodFinalPassive ==
  ASSUME EngineInv, Lanes, NEW t \in Thread, RemovePodFinal(t)
  PROVE  Passive(t) /\ LaneOf(t)'
  <1> loc \in [Thread -> Locals] /\ ScopeOf(t) /\ LaneOf(t) /\ t \in Thread
    BY Zenon DEF EngineInv, Types, Scope, Lanes
  <1>1. Others(t) /\ UNCHANGED <<monitors, containerStop>>
    BY DEF RemovePodFinal, Goto, Others, locks, monv
  <1>2. /\ \A p \in Pod : podState[p] = "removed" => podState'[p] = "removed"
        /\ podState'[loc[t].pod] = "removed"
    <2>1. /\ loc[t].pod \in Pod
          /\ podState \in [Pod -> {"none", "ready", "notready", "removed"}]
      BY Zenon DEF RemovePodFinal, EngineInv, Types, TypeOK, ScopeOf, InCleanup
    <2> QED
      BY <2>1, Zenon DEF RemovePodFinal
  <1> QED
    BY <1>1, <1>2, EngineAssumption DEF RemovePodFinal, Goto, Passive, Calm, LaneOf,
       RemovePcs

LEMMA CreateContainerPassive ==
  ASSUME EngineInv, NEW t \in Thread, NEW c \in Ctr, CreateContainer(t, c)
  PROVE  Passive(t) /\ LaneOf(t)'
  <1> loc \in [Thread -> Locals] /\ ScopeOf(t) /\ t \in Thread
    BY Zenon DEF EngineInv, Types, Scope
  <1>1. Others(t) /\ UNCHANGED <<podState, monitors, containerStop>>
    BY DEF CreateContainer, Others, tables, locks, monv
  <1>2. loc[t].pc = "idle" /\ ~loc[t].nested
    BY Zenon DEF CreateContainer, NewCall, ScopeOf, NestedPcs
  <1>3. loc'[t].pc = "cc_rpc" /\ ~loc'[t].nested
    BY <1>2 DEF CreateContainer, Locals
  <1> QED
    BY <1>1, <1>2, <1>3, Aside, Zenon DEF AsidePcs

LEMMA CreateContainerRemotePassive ==
  ASSUME EngineInv, NEW t \in Thread, CreateContainerRemote(t)
  PROVE  Passive(t) /\ LaneOf(t)'
  <1> loc \in [Thread -> Locals] /\ ScopeOf(t) /\ t \in Thread
    BY Zenon DEF EngineInv, Types, Scope
  <1>1. Others(t) /\ UNCHANGED <<podState, monitors, containerStop>>
    BY DEF CreateContainerRemote, Goto, Return, Others, tables, locks, monv
  <1>2. loc[t].pc = "cc_rpc" /\ ~loc[t].nested
    BY Zenon DEF CreateContainerRemote, ScopeOf, NestedPcs
  <1>3. loc'[t].pc \in {"cc_register", "idle", "mn_after"} /\ ~loc'[t].nested
    BY <1>2 DEF CreateContainerRemote, Goto, Return, AtRest, Locals
  <1> QED
    BY <1>1, <1>2, <1>3, Aside, Zenon DEF AsidePcs

LEMMA CreateContainerRegisterPassive ==
  ASSUME EngineInv, NEW t \in Thread, CreateContainerRegister(t)
  PROVE  Passive(t) /\ LaneOf(t)'
  <1> loc \in [Thread -> Locals] /\ ScopeOf(t) /\ t \in Thread
    BY Zenon DEF EngineInv, Types, Scope
  <1>1. Others(t) /\ UNCHANGED <<podState, monitors, containerStop>>
    BY DEF CreateContainerRegister, Return, Others, locks, monv
  <1>2. loc[t].pc = "cc_register" /\ ~loc[t].nested
    BY Zenon DEF CreateContainerRegister, ScopeOf, NestedPcs
  <1>3. loc'[t].pc \in {"idle", "mn_after"} /\ ~loc'[t].nested
    BY <1>2 DEF CreateContainerRegister, Return, AtRest
  <1> QED
    BY <1>1, <1>2, <1>3, Aside, Zenon DEF AsidePcs

LEMMA StartContainerPassive ==
  ASSUME EngineInv, NEW t \in Thread, NEW c \in Ctr, StartContainer(t, c)
  PROVE  Passive(t) /\ LaneOf(t)'
  <1> loc \in [Thread -> Locals] /\ ScopeOf(t) /\ t \in Thread
    BY Zenon DEF EngineInv, Types, Scope
  <1>1. Others(t) /\ UNCHANGED <<podState, monitors, containerStop>>
    BY DEF StartContainer, Others, tables, locks, monv
  <1>2. loc[t].pc = "idle" /\ ~loc[t].nested
    BY Zenon DEF StartContainer, NewCall, ScopeOf, NestedPcs
  <1>3. loc'[t].pc = "st_rpc" /\ ~loc'[t].nested
    BY <1>2 DEF StartContainer, Locals
  <1> QED
    BY <1>1, <1>2, <1>3, Aside, Zenon DEF AsidePcs

LEMMA StartContainerRemotePassive ==
  ASSUME EngineInv, NEW t \in Thread, StartContainerRemote(t)
  PROVE  Passive(t) /\ LaneOf(t)'
  <1> loc \in [Thread -> Locals] /\ ScopeOf(t) /\ t \in Thread
    BY Zenon DEF EngineInv, Types, Scope
  <1>1. Others(t) /\ UNCHANGED <<podState, monitors, containerStop>>
    BY DEF StartContainerRemote, Goto, Return, Others, tables, locks, monv
  <1>2. loc[t].pc = "st_rpc" /\ ~loc[t].nested
    BY Zenon DEF StartContainerRemote, ScopeOf, NestedPcs
  <1>3. loc'[t].pc \in {"st_apply", "idle", "mn_after"} /\ ~loc'[t].nested
    BY <1>2 DEF StartContainerRemote, Goto, Return, AtRest, Locals
  <1> QED
    BY <1>1, <1>2, <1>3, Aside, Zenon DEF AsidePcs

LEMMA StartContainerApplyPassive ==
  ASSUME EngineInv, NEW t \in Thread, StartContainerApply(t)
  PROVE  Passive(t) /\ LaneOf(t)'
  <1> loc \in [Thread -> Locals] /\ ScopeOf(t) /\ t \in Thread
    BY Zenon DEF EngineInv, Types, Scope
  <1>1. Others(t) /\ UNCHANGED <<podState, monitors, containerStop>>
    BY DEF StartContainerApply, Goto, Others, locks, monv
  <1>2. loc[t].pc = "st_apply" /\ ~loc[t].nested
    BY Zenon DEF StartContainerApply, ScopeOf, NestedPcs
  <1>3. loc'[t].pc = "ms_swap" /\ ~loc'[t].nested
    BY <1>2 DEF StartContainerApply, Goto, Locals
  <1> QED
    BY <1>1, <1>2, <1>3, Aside, Zenon DEF AsidePcs

LEMMA StopContainerWaitPassive ==
  ASSUME EngineInv, Lanes, NEW t \in Thread, StopContainerWait(t)
  PROVE  Passive(t) /\ LaneOf(t)'
  <1> loc \in [Thread -> Locals] /\ ScopeOf(t) /\ LaneOf(t) /\ t \in Thread
    BY Zenon DEF EngineInv, Types, Scope, Lanes
  <1>1. Others(t) /\ UNCHANGED <<monitors, containerStop>>
    BY DEF StopContainerWait, Others, locks, monv
  <1> QED
    BY <1>1, EngineAssumption DEF StopContainerWait, Passive, Calm, Past, InCleanup,
       tables, LaneOf, RemovePcs

LEMMA StopContainerRemotePassive ==
  ASSUME EngineInv, Lanes, NEW t \in Thread, StopContainerRemote(t)
  PROVE  Passive(t) /\ LaneOf(t)'
  <1> loc \in [Thread -> Locals] /\ ScopeOf(t) /\ LaneOf(t) /\ t \in Thread
    BY Zenon DEF EngineInv, Types, Scope, Lanes
  <1>1. Others(t) /\ UNCHANGED <<monitors, containerStop>>
    BY DEF StopContainerRemote, Goto, Others, locks, monv
  <1> QED
    BY <1>1, EngineAssumption DEF StopContainerRemote, Goto, Passive, Calm, Past,
       InCleanup, Locals, tables, LaneOf, RemovePcs

LEMMA StopContainerApplyPassive ==
  ASSUME EngineInv, Lanes, NEW t \in Thread, StopContainerApply(t)
  PROVE  Passive(t) /\ LaneOf(t)'
  <1> loc \in [Thread -> Locals] /\ ScopeOf(t) /\ LaneOf(t) /\ t \in Thread
    BY Zenon DEF EngineInv, Types, Scope, Lanes
  <1>1. Others(t) /\ UNCHANGED <<monitors, containerStop>>
    BY DEF StopContainerApply, Others, locks, monv
  <1> QED
    BY <1>1, EngineAssumption DEF StopContainerApply, Passive, Calm, Past, InCleanup,
       LaneOf, RemovePcs

LEMMA RemoveContainerPassive ==
  ASSUME "RemoveContainer" \notin Ops, EngineInv, Lanes, NEW t \in Thread,
         NEW c \in Ctr, RemoveContainer(t, c)
  PROVE  Passive(t) /\ LaneOf(t)'
  <1> loc \in [Thread -> Locals] /\ ScopeOf(t) /\ LaneOf(t) /\ t \in Thread
    BY Zenon DEF EngineInv, Types, Scope, Lanes
  <1>1. Others(t) /\ UNCHANGED <<monitors, containerStop>>
    BY DEF RemoveContainer, RemoveReturn, Goto, Return, Others, locks, monv
  <1>2. podState' = podState /\ loc[t].pc = "rc_enter"
    BY Zenon DEF RemoveContainer, Enter, NewCall, tables
  <1>3. loc[t].nested /\ t \in Caller /\ t \notin Mon
    BY <1>2, Zenon DEF LaneOf, RemovePcs, ScopeOf, MonPcs
  <1>4. /\ loc'[t].pc \in {"rm_kernel", "rc_orphan", "rc_final", "rc_rpc"}
        /\ loc'[t].nested
    BY <1>3 DEF RemoveContainer, RemoveReturn, Goto, Locals
  <1>5. LaneOf(t)'
    BY <1>3, <1>4, Zenon DEF LaneOf
  <1> QED
    BY <1>1, <1>2, <1>3, <1>4, <1>5, Zenon DEF Passive, Calm

LEMMA RemoveContainerRemotePassive ==
  ASSUME EngineInv, Lanes, NEW t \in Thread, RemoveContainerRemote(t)
  PROVE  Passive(t) /\ LaneOf(t)'
  <1> loc \in [Thread -> Locals] /\ ScopeOf(t) /\ LaneOf(t) /\ t \in Thread
    BY Zenon DEF EngineInv, Types, Scope, Lanes
  <1>1. Others(t) /\ UNCHANGED <<monitors, containerStop>>
    BY DEF RemoveContainerRemote, Goto, Others, locks, monv
  <1> QED
    BY <1>1, EngineAssumption DEF RemoveContainerRemote, Goto, Passive, Calm, tables,
       LaneOf, RemovePcs

LEMMA RemoveContainerOrphanPassive ==
  ASSUME EngineInv, Lanes, NEW t \in Thread, RemoveContainerOrphan(t)
  PROVE  Passive(t) /\ LaneOf(t)'
  <1> loc \in [Thread -> Locals] /\ ScopeOf(t) /\ LaneOf(t) /\ t \in Thread
    BY Zenon DEF EngineInv, Types, Scope, Lanes
  <1>1. Others(t) /\ UNCHANGED <<monitors, containerStop>>
    BY DEF RemoveContainerOrphan, ForgetContainer, RemoveReturn, Goto, Return, Others,
       locks, monv
  <1> QED
    BY <1>1, EngineAssumption DEF RemoveContainerOrphan, ForgetContainer, RemoveReturn,
       Goto, Return, Passive, Calm, Locals, LaneOf, RemovePcs

LEMMA RefreshContainerStatusPassive ==
  ASSUME EngineInv, NEW t \in Thread, NEW c \in Ctr, RefreshContainerStatus(t, c)
  PROVE  Passive(t) /\ LaneOf(t)'
  <1> loc \in [Thread -> Locals] /\ ScopeOf(t) /\ t \in Thread
    BY Zenon DEF EngineInv, Types, Scope
  <1>1. Others(t) /\ UNCHANGED <<podState, monitors, containerStop>>
    BY DEF RefreshContainerStatus, RefreshReturn, Goto, Return, Others, tables, locks, monv
  <1>2. loc[t].pc \in {"idle", "rs_enter"} /\ ~loc[t].nested
    BY Zenon DEF RefreshContainerStatus, Enter, NewCall, ScopeOf, NestedPcs
  <1>3. loc'[t].pc \in {"mn_decide", "idle", "mn_after", "rs_rpc"} /\ ~loc'[t].nested
    BY <1>2, SMTT(30) DEF RefreshContainerStatus, RefreshReturn, Goto, Return, AtRest, Locals
  <1> QED
    BY <1>1, <1>2, <1>3, Aside, Zenon DEF AsidePcs

LEMMA RefreshRemotePassive ==
  ASSUME EngineInv, NEW t \in Thread, RefreshRemote(t)
  PROVE  Passive(t) /\ LaneOf(t)'
  <1> loc \in [Thread -> Locals] /\ ScopeOf(t) /\ t \in Thread
    BY Zenon DEF EngineInv, Types, Scope
  <1>1. Others(t) /\ UNCHANGED <<podState, monitors, containerStop>>
    BY DEF RefreshRemote, RefreshReturn, Goto, Return, Others, tables, locks, monv
  <1>2. loc[t].pc = "rs_rpc" /\ ~loc[t].nested
    BY Zenon DEF RefreshRemote, ScopeOf, NestedPcs
  <1>3. loc'[t].pc \in {"rs_apply", "mn_decide", "idle", "mn_after"} /\ ~loc'[t].nested
    BY <1>2 DEF RefreshRemote, RefreshReturn, Goto, Return, AtRest, Locals
  <1> QED
    BY <1>1, <1>2, <1>3, Aside, Zenon DEF AsidePcs

LEMMA RefreshApplyPassive ==
  ASSUME EngineInv, NEW t \in Thread, RefreshApply(t)
  PROVE  Passive(t) /\ LaneOf(t)'
  <1> loc \in [Thread -> Locals] /\ ScopeOf(t) /\ t \in Thread
    BY Zenon DEF EngineInv, Types, Scope
  <1>1. Others(t) /\ UNCHANGED <<podState, monitors, containerStop>>
    BY DEF RefreshApply, RefreshReturn, Goto, Return, Others, locks, monv
  <1>2. loc[t].pc = "rs_apply" /\ ~loc[t].nested
    BY Zenon DEF RefreshApply, ScopeOf, NestedPcs
  <1>3. loc'[t].pc \in {"mn_decide", "idle", "mn_after"} /\ ~loc'[t].nested
    BY <1>2 DEF RefreshApply, RefreshReturn, Goto, Return, AtRest, Locals
  <1> QED
    BY <1>1, <1>2, <1>3, Aside, Zenon DEF AsidePcs

LEMMA MonitorLogPassive ==
  ASSUME EngineInv, NEW m \in Mon, MonitorLog(m)
  PROVE  Passive(m) /\ LaneOf(m)'
  <1> loc \in [Thread -> Locals] /\ ScopeOf(m) /\ m \in Thread
    BY Zenon DEF Thread, EngineInv, Types, Scope
  <1>1. Others(m) /\ UNCHANGED <<podState, monitors, containerStop>>
    BY DEF MonitorLog, Others, tables, locks, monv
  <1>2. loc[m].pc = "mn_log" /\ ~loc[m].nested
    BY Zenon DEF MonitorLog, ScopeOf, NestedPcs
  <1>3. loc'[m].pc \in {"mn_eof", "mn_decide", "rs_enter"} /\ ~loc'[m].nested
    BY <1>2 DEF MonitorLog, Locals
  <1> QED
    BY <1>1, <1>2, <1>3, Aside, Zenon DEF AsidePcs

LEMMA MonitorLogApplyPassive ==
  ASSUME EngineInv, NEW m \in Mon, MonitorLogApply(m)
  PROVE  Passive(m) /\ LaneOf(m)'
  <1> loc \in [Thread -> Locals] /\ ScopeOf(m) /\ m \in Thread
    BY Zenon DEF Thread, EngineInv, Types, Scope
  <1>1. Others(m) /\ UNCHANGED <<podState, monitors, containerStop>>
    BY DEF MonitorLogApply, Others, locks, monv
  <1>2. loc[m].pc = "mn_eof" /\ ~loc[m].nested
    BY Zenon DEF MonitorLogApply, ScopeOf, NestedPcs
  <1>3. loc'[m].pc = "rs_enter" /\ ~loc'[m].nested
    BY <1>2 DEF MonitorLogApply, Locals
  <1> QED
    BY <1>1, <1>2, <1>3, Aside, Zenon DEF AsidePcs

LEMMA MonitorDecidePassive ==
  ASSUME EngineInv, NEW m \in Mon, MonitorDecide(m)
  PROVE  Passive(m) /\ LaneOf(m)'
  <1> loc \in [Thread -> Locals] /\ ScopeOf(m) /\ m \in Thread
    BY Zenon DEF Thread, EngineInv, Types, Scope
  <1>1. Others(m) /\ UNCHANGED <<podState, monitors, containerStop>>
    BY DEF MonitorDecide, Others, tables, locks, monv
  <1>2. loc[m].pc = "mn_decide" /\ ~loc[m].nested
    BY Zenon DEF MonitorDecide, ScopeOf, NestedPcs
  <1>3. loc'[m].pc \in {"mn_tick", "off", "mn_cleanup"} /\ ~loc'[m].nested
    BY <1>2 DEF MonitorDecide, AtRest
  <1> QED
    BY <1>1, <1>2, <1>3, Aside, Zenon DEF AsidePcs

LEMMA MonitorTickPassive ==
  ASSUME EngineInv, NEW m \in Mon, MonitorTick(m)
  PROVE  Passive(m) /\ LaneOf(m)'
  <1> loc \in [Thread -> Locals] /\ ScopeOf(m) /\ m \in Thread
    BY Zenon DEF Thread, EngineInv, Types, Scope
  <1>1. Others(m) /\ UNCHANGED <<podState, monitors, containerStop>>
    BY DEF MonitorTick, Goto, Others, tables, locks, monv
  <1>2. loc[m].pc = "mn_tick" /\ ~loc[m].nested
    BY Zenon DEF MonitorTick, ScopeOf, NestedPcs
  <1>3. loc'[m].pc \in {"mn_log", "off"} /\ ~loc'[m].nested
    BY <1>2 DEF MonitorTick, Goto, AtRest, Locals
  <1> QED
    BY <1>1, <1>2, <1>3, Aside, Zenon DEF AsidePcs

LEMMA MonitorCleanupPassive ==
  ASSUME EngineInv, Lanes, NEW m \in Mon, MonitorCleanup(m)
  PROVE  Passive(m) /\ LaneOf(m)'
  <1> loc \in [Thread -> Locals] /\ ScopeOf(m) /\ LaneOf(m) /\ m \in Thread
    BY Zenon DEF Thread, EngineInv, Types, Scope, Lanes
  <1>1. Others(m) /\ UNCHANGED <<monitors, containerStop>>
    BY DEF MonitorCleanup, Goto, Others, locks, monv
  <1>2. m \notin cancelled => monitors[loc[m].own] = m
    BY Zenon DEF EngineInv, NoStrayMonitor, MonitorCleanup
  <1> QED
    BY <1>1, <1>2, EngineAssumption DEF MonitorCleanup, Goto, Passive, Calm, Past,
       InCleanup, tables, LaneOf, RemovePcs

LEMMA MonitorStopPodPassive ==
  ASSUME EngineInv, Lanes, NEW m \in Mon, MonitorStopPod(m)
  PROVE  Passive(m) /\ LaneOf(m)'
  <1> loc \in [Thread -> Locals] /\ ScopeOf(m) /\ LaneOf(m) /\ m \in Thread
    BY Zenon DEF Thread, EngineInv, Types, Scope, Lanes
  <1>1. Others(m) /\ UNCHANGED <<monitors, containerStop>>
    BY DEF MonitorStopPod, Goto, Others, locks, monv
  <1> QED
    BY <1>1, EngineAssumption DEF MonitorStopPod, Goto, Passive, Calm, Past, InCleanup,
       ScopeOf, NestedPcs, Locals, tables, LaneOf, RemovePcs

LEMMA MonitorAfterStopPassive ==
  ASSUME EngineInv, NEW m \in Mon, MonitorAfterStop(m)
  PROVE  Passive(m) /\ LaneOf(m)'
  <1> loc \in [Thread -> Locals] /\ ScopeOf(m) /\ m \in Thread
    BY Zenon DEF Thread, EngineInv, Types, Scope
  <1>1. Others(m) /\ UNCHANGED <<podState, monitors, containerStop>>
    BY DEF MonitorAfterStop, Others, tables, locks, monv
  <1>2. loc[m].pc = "mn_after" /\ ~loc[m].nested
    BY Zenon DEF MonitorAfterStop, ScopeOf, NestedPcs
  <1>3. loc'[m].pc \in {"mn_finish", "mn_tick"} /\ ~loc'[m].nested
    BY <1>2 DEF MonitorAfterStop, AtRest
  <1> QED
    BY <1>1, <1>2, <1>3, Aside, Zenon DEF AsidePcs

------------------------------------------------------------------------------
(* The other steps.                                                        *)

\* StopPod enters the cleanup of a pod that nobody removes.
LEMMA StopPodPassive ==
  ASSUME EngineInv, Lanes, NEW t \in Thread, NEW p \in Pod, StopPod(t, p)
  PROVE  Passive(t) /\ LaneOf(t)'
  <1> loc \in [Thread -> Locals] /\ ScopeOf(t) /\ LaneOf(t) /\ t \in Thread
    BY Zenon DEF EngineInv, Types, Scope, Lanes
  <1>1. /\ UNCHANGED <<monitors, containerStop, podState>>
        /\ loc[t].pc \in {"idle", "sp_enter"} /\ p \notin podCleanup
        /\ t \in Mon => loc[t].pc = "sp_enter" /\ loc[t].pod = p
    BY EngineAssumption DEF StopPod, Enter, NewCall, PodArg, ScopeOf, MonPcs, tables,
       monv
  <1>2. CASE Return(t, TRUE)
    <2>1. Others(t) /\ ~loc'[t].nested /\ loc'[t].pc \in {"idle", "mn_after"}
      BY <1>2 DEF Return, AtRest, Others
    <2> QED
      BY <1>1, <2>1 DEF Passive, Calm, LaneOf, Past, InCleanup, RemovePcs
  <1>3. CASE PodExists(p) /\ loc' = [loc EXCEPT ![t].pc = "sp_check",
                                  ![t].pod = p,
                                  ![t].ctr = podToContainer[p],
                                  ![t].kern = kernels[p],
                                  ![t].ip = podIP[p]]
    <2>1. /\ Others(t) /\ loc'[t].nested = loc[t].nested /\ loc'[t].pc = "sp_check"
          /\ loc'[t].own = loc[t].own /\ loc'[t].pod = p
      BY <1>3 DEF Others
    <2>2. ~BeingRemoved(p)
      BY <1>1, <1>3, Zenon DEF BeingRemoved, PodExists, EngineInv, Claimed, InCleanup
    <2>3. t \in Mon => p = CtrPod[loc[t].own]
      BY <1>1, Zenon DEF LaneOf, Past
    <2>4. LaneOf(t)'
      BY <2>1, <2>3, Zenon DEF LaneOf, RemovePcs
    <2> QED
      BY <1>1, <2>1, <2>2, <2>3, <2>4 DEF Passive, Calm, Past
  <1> QED
    BY <1>2, <1>3, Zenon DEF StopPod

\* StopContainer takes the registered monitor off the table and waits for it.
LEMMA StopContainerShield ==
  ASSUME EngineInv, Shield, Lanes, NEW t \in Thread, NEW c \in Ctr, StopContainer(t, c)
  PROVE  Shield' /\ Lanes'
  <1> loc \in [Thread -> Locals] /\ ScopeOf(t) /\ LaneOf(t) /\ t \in Thread
    BY Zenon DEF EngineInv, Types, Scope, Lanes
  <1>1. /\ podState' = podState /\ loc[t].pc \in {"idle", "sc_enter"}
        /\ t \in Mon => loc[t].nested
    BY EngineAssumption DEF StopContainer, Enter, NewCall, ScopeOf, MonPcs, tables
  <1>2. CASE StopReturn(t, containers[c] = "none") /\ UNCHANGED <<containerStop, monv>>
    <2>1. CASE loc[t].nested
      <3>1. /\ Others(t) /\ loc'[t].pc \in {"sp_kernel", "sp_end"}
            /\ loc'[t].own = loc[t].own /\ loc'[t].pod = loc[t].pod
        BY <1>2, <2>1 DEF StopReturn, Locals
      <3>2. LaneOf(t)'
        BY <1>1, <2>1, <3>1 DEF LaneOf, Past, InCleanup, RemovePcs
      <3>3. Passive(t)
        BY <1>1, <1>2, <2>1, <3>1 DEF Passive, Calm, Past, InCleanup, monv
      <3> QED
        BY <3>2, <3>3, PassiveKeeps, Zenon
    <2>2. CASE ~loc[t].nested
      <3>1. Others(t) /\ loc'[t].pc \in {"idle", "mn_after"} /\ t \notin Mon
        BY <1>1, <1>2, <2>2 DEF StopReturn, Return, AtRest, Others
      <3>2. LaneOf(t)'
        BY <3>1, Zenon DEF LaneOf, RemovePcs
      <3>3. Passive(t)
        BY <1>1, <1>2, <3>1, Zenon DEF Passive, Calm, monv
      <3> QED
        BY <3>2, <3>3, PassiveKeeps, Zenon
    <2> QED
      BY <2>1, <2>2, Zenon
  <1>3. CASE /\ containerStop' = containerStop \cup {c}
             /\ monitors' = [monitors EXCEPT ![c] = None]
             /\ loc' = [loc EXCEPT ![t].pc = "sc_wait",
                                  ![t].pod = CtrPod[c],
                                  ![t].ctr = c,
                                  ![t].mon = monitors[c],
                                  ![t].had = monitors[c] # None]
    <2>1. /\ Others(t) /\ loc'[t].pc = "sc_wait" /\ loc'[t].nested = loc[t].nested
          /\ loc'[t].own = loc[t].own /\ loc'[t].ctr = c /\ loc'[t].mon = monitors[c]
          /\ loc'[t].pod = CtrPod[c]
      BY <1>3 DEF Others
    <2>2. Calm(t)
      BY <1>1, <2>1 DEF Calm, Past, InCleanup
    <2>3. LaneOf(t)'
      <3>1. t \in Mon => c = loc[t].ctr /\ InCleanup(t) /\ c # None
        BY <1>1, EngineAssumption, Zenon DEF StopContainer, CtrArg, InCleanup, ScopeOf,
           MonPcs
      <3>2. t \in Mon => CtrPod[c] = CtrPod[loc[t].own]
        BY <1>1, <3>1 DEF ScopeOf, LaneOf, Past
      <3> QED
        BY <2>1, <3>2, Zenon DEF LaneOf, RemovePcs
    <2>4. ASSUME NEW m \in Mon, Past(m)' PROVE ShieldOf(m)'
      <3>1. Past(m)
        <4>1. CASE m = t
          BY <1>1, <4>1, Zenon DEF Past, InCleanup
        <4>2. CASE m # t
          BY <2>1, <2>4, <4>2, Zenon DEF Others, Past, InCleanup, Thread
        <4> QED
          BY <4>1, <4>2, Zenon
      <3>2. loc'[m].own = loc[m].own /\ loc[m].own \in Ctr
        BY <2>2, <2>4, <3>1, Waited, Zenon
      <3>3. CASE ~InCleanup(m)' /\ BeingRemoved(CtrPod[loc[m].own])'
        BY <3>3, Zenon DEF ShieldOf
      <3>4. ASSUME loc[m].own \notin containerStop,
                   NEW x, x = monitors[loc[m].own], Behind(m, x)'
            PROVE  ShieldOf(m)'
        <4>1. CASE loc[m].own = c
          <5>1. loc'[t].mon = x /\ loc'[t].ctr = loc'[m].own
            BY <2>1, <3>2, <3>4, <4>1, Zenon
          <5>2. Behind(m, loc[t].mon)'
            BY <3>4, <5>1, Zenon
          <5> QED
            BY <2>1, <5>1, <5>2, Zenon DEF ShieldOf
        <4>2. CASE loc[m].own # c
          <5>1. monitors'[loc'[m].own] = x
            BY <1>3, <3>2, <3>4, <4>2, ZenonT(60) DEF EngineInv, Types, TypeOK
          <5>2. Behind(m, monitors[loc[m].own])'
            BY <3>4, <5>1, SameMonitor, Zenon
          <5>3. loc'[m].own \notin containerStop'
            BY <1>3, <3>2, <3>4, <4>2
          <5> QED
            BY <5>2, <5>3, Zenon DEF ShieldOf
        <4> QED
          BY <4>1, <4>2, Zenon
      <3>5. ASSUME NEW u \in Thread \ {t}, loc[u].pc = "sc_wait",
                   loc[u].ctr = loc[m].own,
                   Behind(m, loc[u].mon)'
            PROVE  ShieldOf(m)'
        BY <2>1, <3>2, <3>5, StillWaited, Zenon
      <3> QED
        BY <2>2, <2>4, <3>1, <3>3, <3>4, <3>5, Waited, Zenon
    <2> QED
      BY <2>1, <2>3, <2>4, LanesFrame, Zenon DEF Shield
  <1> QED
    BY <1>2, <1>3, Zenon DEF StopContainer

\* It gives the container back; nobody waits less for a monitor.
LEMMA StopContainerEndShield ==
  ASSUME EngineInv, Shield, Lanes, NEW t \in Thread, StopContainerEnd(t)
  PROVE  Shield' /\ Lanes'
  <1> loc \in [Thread -> Locals] /\ ScopeOf(t) /\ LaneOf(t) /\ t \in Thread
    BY Zenon DEF EngineInv, Types, Scope, Lanes
  <1>1. /\ podState' = podState /\ monitors' = monitors /\ loc[t].pc = "sc_end"
        /\ containerStop' \subseteq containerStop
        /\ t \in Mon => loc[t].nested
    BY DEF StopContainerEnd, ScopeOf, StopPcs, tables, monv
  <1>2. /\ Others(t)
        /\ loc'[t].pc \in {"ms_swap", "sp_kernel", "sp_end", "idle", "mn_after"}
        /\ t \in Mon /\ Past(t)' => loc'[t].own = loc[t].own /\ loc'[t].pod = loc[t].pod
    BY <1>1, EngineAssumption DEF StopContainerEnd, StopReturn, Return, Goto, AtRest,
       Others, Locals
  <1>3. t \in Mon => InCleanup(t) /\ Past(t) /\ loc[t].pc # "mn_stop"
    BY <1>1 DEF InCleanup, Past
  <1>a. LaneOf(t)'
    <2>1. loc'[t].pc \notin RemovePcs
      BY <1>2 DEF RemovePcs
    <2>2. t \in Mon /\ Past(t)' => loc'[t].pod = CtrPod[loc'[t].own]
      BY <1>2, <1>3, Zenon DEF LaneOf
    <2> QED
      BY <2>1, <2>2, Zenon DEF LaneOf
  <1>4. Calm(t)
    <2>1. loc[t].pc \notin {"ready", "ms_wait", "sc_wait", "rm_kernel", "rm_final"}
      BY <1>1
    <2>2. loc'[t].pc # "ms_wait"
      BY <1>2
    <2> QED
      BY <1>1, <1>2, <1>3, <2>1, <2>2, Zenon DEF Calm
  <1>5. ASSUME NEW m \in Mon, Past(m)' PROVE ShieldOf(m)'
    <2>1. Past(m)
      <3>1. CASE m = t
        BY <1>3, <3>1, Zenon
      <3>2. CASE m # t
        BY <1>2, <1>5, <3>2, Zenon DEF Others, Past, InCleanup, Thread
      <3> QED
        BY <3>1, <3>2, Zenon
    <2>2. loc'[m].own = loc[m].own
      BY <1>4, <1>5, <2>1, Waited, Zenon
    <2>3. CASE ~InCleanup(m)' /\ BeingRemoved(CtrPod[loc[m].own])'
      BY <2>3, Zenon DEF ShieldOf
    <2>4. ASSUME loc[m].own \notin containerStop,
                 NEW x, x = monitors[loc[m].own], Behind(m, x)'
          PROVE  ShieldOf(m)'
      <3>1. monitors'[loc'[m].own] = x /\ loc'[m].own \notin containerStop'
        BY <1>1, <2>2, <2>4, SMT
      <3>2. Behind(m, monitors[loc[m].own])'
        BY <2>4, <3>1, SameMonitor, Zenon
      <3> QED
        BY <3>1, <3>2, Zenon DEF ShieldOf
    <2>5. ASSUME NEW u \in Thread \ {t}, loc[u].pc = "sc_wait", loc[u].ctr = loc[m].own,
                 Behind(m, loc[u].mon)'
          PROVE  ShieldOf(m)'
      BY <1>2, <2>2, <2>5, StillWaited, Zenon
    <2> QED
      BY <1>4, <1>5, <2>1, <2>3, <2>4, <2>5, Waited, Zenon
  <1> QED
    BY <1>2, <1>a, <1>5, LanesFrame, Zenon DEF Shield

\* RemovePod drops the monitor without waiting; the pod is its own by now.
LEMMA RemoveContainerFinalShield ==
  ASSUME EngineInv, Shield, Lanes, NEW t \in Thread, RemoveContainerFinal(t)
  PROVE  Shield' /\ Lanes'
  <1> loc \in [Thread -> Locals] /\ ScopeOf(t) /\ LaneOf(t) /\ t \in Thread
    BY Zenon DEF EngineInv, Types, Scope, Lanes
  <1>1. /\ podState' = podState /\ containerStop' = containerStop
        /\ loc[t].pc = "rc_final"
        /\ monitors' = [monitors EXCEPT ![loc[t].ctr] = None]
        /\ loc[t].nested /\ t \in Caller /\ t \notin Mon /\ loc[t].ctr \in Ctr
    BY EngineAssumption, Zenon DEF RemoveContainerFinal, ForgetContainer, LaneOf,
       RemovePcs, ScopeOf, CtrPcs, locks
  <1>2. /\ Others(t) /\ loc'[t].pc = "rm_kernel" /\ loc'[t].nested
        /\ loc'[t].pod = loc[t].pod
    BY <1>1 DEF RemoveContainerFinal, ForgetContainer, RemoveReturn, Goto, Others,
       Locals
  <1>3. LaneOf(t)'
    BY <1>1, <1>2, Zenon DEF LaneOf
  <1>4. Calm(t)
    BY <1>1, <1>2 DEF Calm
  <1>5. loc[t].pod = CtrPod[loc[t].ctr] /\ InCleanup(t)
    BY <1>1, EngineAssumption, Zenon DEF ScopeOf, InCleanup
  <1>6. ASSUME NEW m \in Mon, Past(m)' PROVE ShieldOf(m)'
    <2>1. Past(m) /\ loc'[m] = loc[m] /\ m \in Thread /\ m # t
      BY <1>1, <1>2, <1>6, Zenon DEF Others, Past, InCleanup, Thread
    <2>2. loc'[m].own = loc[m].own /\ loc[m].own \in Ctr
      BY <1>4, <1>6, <2>1, Waited, Zenon
    <2>3. CASE ~InCleanup(m)' /\ BeingRemoved(CtrPod[loc[m].own])'
      BY <2>3, Zenon DEF ShieldOf
    <2>4. ASSUME loc[m].own \notin containerStop,
                 NEW x, x = monitors[loc[m].own], Behind(m, x)'
          PROVE  ShieldOf(m)'
      <3>1. CASE loc[m].own = loc[t].ctr
        <4>1. ~InCleanup(m)
          <5>1. InCleanup(m) => loc[m].pod = CtrPod[loc[m].own]
            <6>1. LaneOf(m) /\ ScopeOf(m)
              BY <2>1, Zenon DEF Lanes, EngineInv, Scope
            <6>2. InCleanup(m) => loc[m].pc # "mn_stop"
              BY <6>1, Zenon DEF InCleanup, ScopeOf, NestedPcs
            <6> QED
              BY <2>1, <6>1, <6>2, Zenon DEF LaneOf
          <5> QED
            BY <1>5, <2>1, <3>1, <5>1, Zenon DEF EngineInv, CleanupExclusive
        <4>2. ~InCleanup(m)'
          BY <2>1, <4>1, Zenon DEF InCleanup
        <4>3. loc'[t].pod = CtrPod[loc'[m].own]
          BY <1>2, <1>5, <2>2, <3>1, Zenon
        <4>4. BeingRemoved(CtrPod[loc[m].own])'
          BY <1>2, <4>3, Zenon DEF BeingRemoved
        <4> QED
          BY <4>2, <4>4, Zenon DEF ShieldOf
      <3>2. CASE loc[m].own # loc[t].ctr
        <4>1. monitors'[loc'[m].own] = x
          BY <1>1, <2>2, <2>4, <3>2, ZenonT(60) DEF EngineInv, Types, TypeOK
        <4>2. Behind(m, monitors[loc[m].own])'
          BY <2>4, <4>1, SameMonitor, Zenon
        <4>3. loc'[m].own \notin containerStop'
          BY <1>1, <2>2, <2>4
        <4> QED
          BY <4>2, <4>3, Zenon DEF ShieldOf
      <3> QED
        BY <3>1, <3>2, Zenon
    <2>5. ASSUME NEW u \in Thread \ {t}, loc[u].pc = "sc_wait", loc[u].ctr = loc[m].own,
                 Behind(m, loc[u].mon)'
          PROVE  ShieldOf(m)'
      BY <1>2, <2>2, <2>5, StillWaited, Zenon
    <2> QED
      BY <1>4, <1>6, <2>1, <2>3, <2>4, <2>5, Waited, Zenon
  <1> QED
    BY <1>2, <1>3, <1>6, LanesFrame, Zenon DEF Shield

\* A monitor that ends takes only itself off the table.
LEMMA MonitorFinishShield ==
  ASSUME EngineInv, Shield, Lanes, NEW t \in Mon, MonitorFinish(t)
  PROVE  Shield' /\ Lanes'
  <1> loc \in [Thread -> Locals] /\ ScopeOf(t) /\ LaneOf(t) /\ t \in Thread
    BY Zenon DEF Thread, EngineInv, Types, Scope, Lanes
  <1>1. /\ podState' = podState /\ containerStop' = containerStop
        /\ loc[t].pc = "mn_finish"
        /\ \A c \in Ctr : monitors[c] # t => monitors'[c] = monitors[c]
    BY Zenon DEF MonitorFinish, EngineInv, Types, TypeOK, tables, locks
  <1>2. Others(t) /\ loc'[t].pc = "off" /\ ~loc'[t].nested
    BY DEF MonitorFinish, AtRest, Others
  <1>a. ~Past(t)'
    BY <1>2, Zenon DEF Past, InCleanup
  <1>3. LaneOf(t)'
    BY <1>2, <1>a, Zenon DEF LaneOf, RemovePcs
  <1>4. Calm(t)
    BY <1>1, <1>2, <1>a, Zenon DEF Calm
  <1>5. ASSUME NEW m \in Mon, Past(m)' PROVE ShieldOf(m)'
    <2>1. m # t
      BY <1>a, <1>5, Zenon
    <2>2. Past(m)
      BY <1>2, <1>5, <2>1, Zenon DEF Others, Past, InCleanup, Thread
    <2>3. loc'[m].own = loc[m].own /\ loc[m].own \in Ctr
      BY <1>4, <1>5, <2>2, Waited, Zenon
    <2>4. CASE ~InCleanup(m)' /\ BeingRemoved(CtrPod[loc[m].own])'
      BY <2>4, Zenon DEF ShieldOf
    <2>5. ASSUME loc[m].own \notin containerStop,
                 NEW x, x = monitors[loc[m].own], Behind(m, x), Behind(m, x)'
          PROVE  ShieldOf(m)'
      <3>1. x # t
        BY <1>1, <2>1, <2>5, Zenon DEF Behind
      <3>2. monitors'[loc'[m].own] = x /\ loc'[m].own \notin containerStop'
        BY <1>1, <2>3, <2>5, <3>1, SMT
      <3>3. Behind(m, monitors[loc[m].own])'
        BY <2>5, <3>2, SameMonitor, Zenon
      <3> QED
        BY <3>2, <3>3, Zenon DEF ShieldOf
    <2>6. ASSUME NEW u \in Thread \ {t}, loc[u].pc = "sc_wait", loc[u].ctr = loc[m].own,
                 Behind(m, loc[u].mon)'
          PROVE  ShieldOf(m)'
      BY <1>2, <2>3, <2>6, StillWaited, Zenon
    <2> QED
      BY <1>4, <1>5, <2>2, <2>4, <2>5, <2>6, Waited, Zenon
  <1> QED
    BY <1>2, <1>3, <1>5, LanesFrame, Zenon DEF Shield

\* Two threads move: t, and the monitor it registers or launches.
LEMMA PairKeeps ==
  ASSUME EngineInv, Shield, Lanes, NEW t \in Caller, NEW y \in Mon,
         \A u \in Thread \ {t, y} : loc'[u] = loc[u],
         UNCHANGED <<podState, containerStop>>,
         loc[t].pc \in {"ms_swap", "ms_wait"},
         loc'[t].pc \in {"idle", "ms_wait"},
         loc'[y].pc \in {"ready", "mn_log"}, ~loc'[y].nested,
         loc[y].pc \in {"off", "ready"},
         \A m \in Mon : \A x : Past(m) /\ Behind(m, x) => Behind(m, x)',
         \A m \in Mon : Past(m) /\ Behind(m, monitors[loc[m].own])
           => \/ monitors'[loc[m].own] = monitors[loc[m].own]
              \/ \E x : monitors'[loc[m].own] = x /\ Behind(m, x)'
  PROVE  Shield' /\ Lanes'
  <1>0. t \in Thread /\ y \in Thread /\ t \notin Mon /\ t # y /\ y \notin Caller
    BY EngineAssumption, Zenon DEF Thread
  <1>1. Lanes'
    <2>0. ~Past(y)'
      BY Zenon DEF Past, InCleanup
    <2>1. LaneOf(t)' /\ LaneOf(y)'
      BY <1>0, <2>0, Zenon DEF LaneOf, RemovePcs
    <2>2. ASSUME NEW u \in Thread \ {t, y} PROVE LaneOf(u)'
      <3>1. loc'[u] = loc[u] /\ LaneOf(u)
        BY Zenon DEF Lanes
      <3> QED
        BY <3>1, Zenon DEF LaneOf, Past, InCleanup
    <2> QED
      BY <2>1, <2>2, Zenon DEF Lanes
  <1>2. ASSUME NEW m \in Mon, Past(m)' PROVE ShieldOf(m)'
    <2>1. m # y
      BY <1>2 DEF Past, InCleanup
    <2>2. loc'[m] = loc[m] /\ m \in Thread
      BY <1>0, <2>1, Zenon DEF Thread
    <2>3. Past(m) /\ (InCleanup(m)' <=> InCleanup(m))
      BY <1>2, <2>2, Zenon DEF Past, InCleanup
    <2>4. CASE ~InCleanup(m) /\ BeingRemoved(CtrPod[loc[m].own])
      <3>1. PICK p : p = CtrPod[loc[m].own]
        BY Zenon
      <3>2. CASE podState[p] = "removed"
        BY <2>2, <2>3, <2>4, <3>1, <3>2, Zenon DEF ShieldOf, BeingRemoved
      <3>3. ASSUME NEW u \in Thread, loc[u].pod = p,
                   loc[u].pc \in {"rm_kernel", "rm_final"}
            PROVE  ShieldOf(m)'
        <4>1. loc'[u] = loc[u]
          BY <3>3
        <4>2. /\ loc'[u].pc \in {"rm_kernel", "rm_final"}
              /\ loc'[u].pod = CtrPod[loc'[m].own]
          BY <2>2, <3>1, <3>3, <4>1, Zenon
        <4> QED
          BY <2>3, <2>4, <4>2, Zenon DEF ShieldOf, BeingRemoved
      <3> QED
        BY <2>4, <3>1, <3>2, <3>3, Zenon DEF BeingRemoved
    <2>5. CASE loc[m].own \notin containerStop /\ Behind(m, monitors[loc[m].own])
      <3>1. PICK x : monitors'[loc[m].own] = x /\ Behind(m, x)'
        BY <2>3, <2>5, Zenon
      <3>2. Behind(m, monitors[loc[m].own])'
        BY <2>2, <3>1, SameMonitor, Zenon
      <3> QED
        BY <2>2, <2>5, <3>2, Zenon DEF ShieldOf
    <2>6. ASSUME NEW u \in Thread, loc[u].pc = "sc_wait", loc[u].ctr = loc[m].own,
                 Behind(m, loc[u].mon)
          PROVE  ShieldOf(m)'
      <3>1. loc'[u] = loc[u]
        BY <2>6
      <3>2. PICK x : x = loc[u].mon
        BY Zenon
      <3>3. Behind(m, x)'
        BY <2>3, <2>6, <3>2, Zenon
      <3>4. loc'[u].pc = "sc_wait" /\ loc'[u].ctr = loc'[m].own /\ loc'[u].mon = x
        BY <2>2, <2>6, <3>1, <3>2, Zenon
      <3>5. Behind(m, loc[u].mon)'
        BY <3>3, <3>4, Zenon
      <3> QED
        BY <3>4, <3>5, Zenon DEF ShieldOf
    <2> QED
      BY <2>3, <2>4, <2>5, <2>6, Zenon DEF Shield, ShieldOf
  <1> QED
    BY <1>1, <1>2, Zenon DEF Shield

\* A new monitor is registered, to be launched when the old one has ended.
LEMMA SwapMonitorShield ==
  ASSUME EngineInv, Shield, Lanes, NEW t \in Thread, SwapMonitor(t)
  PROVE  Shield' /\ Lanes'
  <1> loc \in [Thread -> Locals] /\ ScopeOf(t) /\ t \in Thread
    BY Zenon DEF EngineInv, Types, Scope
  <1>1. loc[t].pc = "ms_swap" /\ t \in Caller /\ t \notin Mon /\ loc[t].ctr \in Ctr
    BY EngineAssumption DEF SwapMonitor, ScopeOf, MonPcs, CtrPcs, Thread
  <1>2. PICK y \in Mon :
          /\ loc[y].pc = "off"
          /\ monitors' = [monitors EXCEPT ![loc[t].ctr] = y]
          /\ loc' = [loc EXCEPT ![t].pc = "ms_wait", ![t].mon = monitors[loc[t].ctr],
                                ![t].new = y, ![y] = AtRest("ready", loc[t].ctr)]
    BY Zenon DEF SwapMonitor, Unused
  <1>3. /\ t # y /\ y \in Thread
        /\ loc'[t].pc = "ms_wait" /\ loc'[t].new = y
        /\ loc'[t].mon = monitors[loc[t].ctr]
        /\ loc'[y].pc = "ready" /\ ~loc'[y].nested
        /\ \A u \in Thread \ {t, y} : loc'[u] = loc[u]
    BY <1>1, <1>2 DEF AtRest, Locals, Thread
  <1>4. ASSUME NEW m \in Mon, NEW B \in SUBSET Mon,
               \A b \in B :
                 /\ loc[b].pc = "ready"
                 /\ \A u \in Thread : loc[u].pc = "ms_wait" /\ loc[u].new = b
                                        => loc[u].mon \in B \cup {m}
        PROVE  /\ \A b \in B :
                    /\ loc'[b].pc = "ready"
                    /\ \A u \in Thread : loc'[u].pc = "ms_wait" /\ loc'[u].new = b
                                        => loc'[u].mon \in B \cup {m}
               /\ \A u \in Thread : loc'[u].pc = "ms_wait" /\ loc'[u].new = y => u = t
    <2>1. y \notin B /\ t \notin B
      BY <1>1, <1>2, <1>4
    <2>2. \A b \in B : loc'[b] = loc[b]
      BY <1>3, <2>1, Zenon DEF Thread
    <2>3. \A u \in Thread : loc'[u].pc = "ms_wait" /\ u # t => loc'[u] = loc[u]
      BY <1>3
    <2>4. \A u \in Thread : loc[u].pc = "ms_wait" => loc[u].new # y
      BY <1>2 DEF EngineInv, Fresh
    <2>5. ASSUME NEW u \in Thread, loc'[u].pc = "ms_wait", loc'[u].new = y PROVE u = t
      BY <2>3, <2>4, <2>5
    <2>6. ASSUME NEW b \in B, NEW u \in Thread, loc'[u].pc = "ms_wait", loc'[u].new = b
          PROVE  loc'[u].mon \in B \cup {m}
      <3>1. u # t
        BY <1>3, <2>1, <2>6
      <3>2. loc'[u] = loc[u]
        BY <2>3, <2>6, <3>1, Zenon
      <3>3. loc[u].pc = "ms_wait" /\ loc[u].new = b
        BY <2>6, <3>2, SMT
      <3> QED
        BY <1>4, <3>2, <3>3, SMT
    <2>7. \A b \in B : loc'[b].pc = "ready"
      BY <1>4, <2>2, SMT
    <2> QED
      BY <2>5, <2>6, <2>7, Zenon
  <1>5. ASSUME NEW m \in Mon, NEW x, Behind(m, x) PROVE Behind(m, x)'
    <2>1. PICK B \in SUBSET Mon :
            /\ x \in B \cup {m}
            /\ \A b \in B :
                 /\ loc[b].pc = "ready"
                 /\ \A u \in Thread : loc[u].pc = "ms_wait" /\ loc[u].new = b
                                        => loc[u].mon \in B \cup {m}
      BY <1>5, Zenon DEF Behind
    <2> QED
      BY <1>4, <2>1, Zenon DEF Behind
  <1>6. ASSUME NEW m \in Mon, Past(m), Behind(m, monitors[loc[m].own])
        PROVE  \/ monitors'[loc[m].own] = monitors[loc[m].own]
               \/ \E x : monitors'[loc[m].own] = x /\ Behind(m, x)'
    <2>0. loc[m].own \in Ctr /\ monitors \in [Ctr -> Mon \cup {None}]
      <3>1. ScopeOf(m)
        BY Zenon DEF EngineInv, Scope, Thread
      <3> QED
        BY <1>6, <3>1, Zenon DEF EngineInv, Types, TypeOK, Past, InCleanup, ScopeOf,
           NestedPcs
    <2>1. CASE loc[m].own # loc[t].ctr
      BY <1>1, <1>2, <2>0, <2>1, Zenon
    <2>2. CASE loc[m].own = loc[t].ctr
      <3>1. PICK B \in SUBSET Mon :
              /\ monitors[loc[m].own] \in B \cup {m}
              /\ \A b \in B :
                   /\ loc[b].pc = "ready"
                   /\ \A u \in Thread : loc[u].pc = "ms_wait" /\ loc[u].new = b
                                          => loc[u].mon \in B \cup {m}
        BY <1>6, Zenon DEF Behind
      <3> DEFINE C == B \cup {y}
      <3>2. C \in SUBSET Mon /\ y \in C \cup {m}
        BY Zenon
      <3>3. \A b \in C :
              /\ loc'[b].pc = "ready"
              /\ \A u \in Thread : loc'[u].pc = "ms_wait" /\ loc'[u].new = b
                                     => loc'[u].mon \in C \cup {m}
        <4>1. loc'[t].mon \in B \cup {m}
          BY <1>3, <2>2, <3>1, Zenon
        <4>2. \A b \in B :
                /\ loc'[b].pc = "ready"
                /\ \A u \in Thread : loc'[u].pc = "ms_wait" /\ loc'[u].new = b
                                       => loc'[u].mon \in B \cup {m}
          BY <1>4, <3>1, Zenon
        <4>3. \A u \in Thread : loc'[u].pc = "ms_wait" /\ loc'[u].new = y => u = t
          BY <1>4, <3>1, Zenon
        <4> QED
          BY <1>3, <4>1, <4>2, <4>3, Zenon
      <3>4. Behind(m, y)'
        BY <3>2, <3>3, Zenon DEF Behind
      <3>5. monitors'[loc[m].own] = y
        BY <1>1, <1>2, <2>0, <2>2, Zenon
      <3> QED
        BY <3>4, <3>5, Zenon
    <2> QED
      BY <2>1, <2>2, Zenon
  <1>7. UNCHANGED <<podState, containerStop>>
    BY Zenon DEF SwapMonitor, tables, locks
  <1> QED
    BY <1>1, <1>2, <1>3, <1>5, <1>6, <1>7, PairKeeps, Zenon

\* A launched monitor has nobody before it.
LEMMA LaunchMonitorShield ==
  ASSUME EngineInv, Shield, Lanes, NEW t \in Thread, LaunchMonitor(t)
  PROVE  Shield' /\ Lanes'
  <1> loc \in [Thread -> Locals] /\ ScopeOf(t) /\ t \in Thread
    BY Zenon DEF EngineInv, Types, Scope
  <1>1. /\ loc[t].pc = "ms_wait" /\ t \in Caller /\ t \notin Mon /\ Done(loc[t].mon)
        /\ monitors' = monitors /\ UNCHANGED <<podState, containerStop>>
    BY EngineAssumption DEF LaunchMonitor, ScopeOf, MonPcs, Thread, tables, locks, monv
  <1>2. PICK y \in Mon : y = loc[t].new /\ loc[y].pc = "ready"
    BY <1>1, Zenon DEF EngineInv, Fresh
  <1>3. /\ y \in Thread /\ t # y /\ ~loc[y].nested
        /\ loc' = [loc EXCEPT ![t] = AtRest("idle", None), ![y].pc = "mn_log"]
    <2>1. ScopeOf(y) /\ y \in Thread
      BY Zenon DEF EngineInv, Scope, Thread
    <2>2. ~loc[y].nested
      BY <1>2, <2>1, Zenon DEF ScopeOf, NestedPcs
    <2> QED
      BY <1>1, <1>2, <2>1, <2>2, Zenon DEF LaunchMonitor
  <1>4. /\ loc'[t].pc = "idle" /\ loc'[y].pc = "mn_log" /\ ~loc'[y].nested
        /\ \A u \in Thread \ {t, y} : loc'[u] = loc[u]
    BY <1>3 DEF AtRest
  <1>5. ASSUME NEW m \in Mon, NEW x, Past(m), Behind(m, x) PROVE Behind(m, x)'
    <2>1. PICK B \in SUBSET Mon :
            /\ x \in B \cup {m}
            /\ \A b \in B :
                 /\ loc[b].pc = "ready"
                 /\ \A u \in Thread : loc[u].pc = "ms_wait" /\ loc[u].new = b
                                        => loc[u].mon \in B \cup {m}
      BY <1>5, Zenon DEF Behind
    <2>2. y \notin B
      <3> SUFFICES ASSUME y \in B PROVE FALSE
        BY Zenon
      <3>1. loc[t].mon \in B \cup {m}
        BY <1>1, <1>2, <2>1, Zenon
      <3>2. Behind(m, loc[t].mon)
        BY <2>1, <3>1, Zenon DEF Behind
      <3>3. ScopeOf(m)
        BY Zenon DEF EngineInv, Scope, Thread
      <3> QED
        BY <1>1, <1>5, <3>2, <3>3, NotDone, Zenon
    <2>3. \A b \in B : loc'[b] = loc[b]
      BY <1>1, <1>4, <2>2, Zenon DEF Thread
    <2>4. \A u \in Thread : loc'[u].pc = "ms_wait" => loc'[u] = loc[u]
      BY <1>4
    <2>5. \A b \in B :
            /\ loc'[b].pc = "ready"
            /\ \A u \in Thread : loc'[u].pc = "ms_wait" /\ loc'[u].new = b
                                   => loc'[u].mon \in B \cup {m}
      BY <2>1, <2>3, <2>4, SMT
    <2> QED
      BY <2>1, <2>5, Zenon DEF Behind
  <1> QED
    BY <1>1, <1>2, <1>3, <1>4, <1>5, PairKeeps, Zenon

\* Nothing of the shield moves.
LEMMA ShieldStill ==
  ASSUME Shield, Lanes, UNCHANGED <<loc, podState, monitors, containerStop>>
  PROVE  Shield' /\ Lanes'
  <1>1. ASSUME NEW m \in Mon, NEW x, Behind(m, x) PROVE Behind(m, x)'
    BY <1>1, Zenon DEF Behind
  <1>2. \A t \in Thread : (Past(t)' <=> Past(t)) /\ (InCleanup(t)' <=> InCleanup(t))
    BY Zenon DEF Past, InCleanup
  <1>3. Lanes'
    BY <1>2, Zenon DEF Lanes, LaneOf
  <1>4. ASSUME NEW m \in Mon, Past(m)' PROVE ShieldOf(m)'
    <2>1. m \in Thread /\ Past(m) /\ ShieldOf(m)
      BY <1>2, <1>4, Zenon DEF Shield, Thread
    <2>2. CASE ~InCleanup(m) /\ BeingRemoved(CtrPod[loc[m].own])
      BY <1>2, <2>1, <2>2, Zenon DEF ShieldOf, BeingRemoved
    <2>3. CASE loc[m].own \notin containerStop /\ Behind(m, monitors[loc[m].own])
      <3>1. PICK x : monitors[loc[m].own] = x /\ Behind(m, x)'
        BY <1>1, <2>3, Zenon
      <3>2. Behind(m, monitors[loc[m].own])'
        BY <3>1, SameMonitor, Zenon
      <3> QED
        BY <2>3, <3>2, Zenon DEF ShieldOf
    <2>4. ASSUME NEW u \in Thread, loc[u].pc = "sc_wait", loc[u].ctr = loc[m].own,
                 Behind(m, loc[u].mon)
          PROVE  ShieldOf(m)'
      <3>1. PICK x : loc[u].mon = x /\ Behind(m, x)'
        BY <1>1, <2>4, Zenon
      <3>2. Behind(m, loc[u].mon)'
        BY <3>1, Zenon
      <3> QED
        BY <2>4, <3>2, Zenon DEF ShieldOf
    <2> QED
      BY <2>1, <2>2, <2>3, <2>4, Zenon DEF ShieldOf
  <1> QED
    BY <1>3, <1>4, Zenon DEF Shield

\* Every step keeps the shield, as long as RemoveContainer is called by
\* RemovePod only.
LEMMA NextShield ==
  ASSUME "RemoveContainer" \notin Ops, EngineInv, Shield, Lanes, [Next]_vars
  PROVE  Shield' /\ Lanes'
  <1>1. CASE UNCHANGED vars
    BY <1>1, ShieldStill, Zenon DEF vars, tables, locks, monv
  <1>2. ASSUME NEW t \in Thread, NEW p \in Pod, PodCall(t, p) PROVE Shield' /\ Lanes'
    BY <1>2, RunPodPassive, StopPodPassive, RemovePodPassive, PassiveKeeps, Zenon
       DEF PodCall
  <1>3. ASSUME NEW t \in Thread, NEW c \in Ctr, ContainerCall(t, c)
        PROVE  Shield' /\ Lanes'
    BY <1>3, CreateContainerPassive, StartContainerPassive, StopContainerShield,
       RemoveContainerPassive, RefreshContainerStatusPassive, PassiveKeeps, Zenon
       DEF ContainerCall
  <1>4. ASSUME NEW t \in Thread, PodStep(t) PROVE Shield' /\ Lanes'
    BY <1>4, RunPodStartPassive, RunPodReadyPassive, RunPodRegisterPassive,
       StopPodCheckPassive, StopPodKernelPassive, StopPodFinalPassive, ReleaseIPPassive,
       EndPodCleanupPassive, RemovePodKernelPassive, RemovePodFinalPassive,
       PassiveKeeps, Zenon DEF PodStep
  <1>5. ASSUME NEW t \in Thread, ContainerStep(t) PROVE Shield' /\ Lanes'
    BY <1>5, CreateContainerRemotePassive, CreateContainerRegisterPassive,
       StartContainerRemotePassive, StartContainerApplyPassive, SwapMonitorShield,
       LaunchMonitorShield, StopContainerWaitPassive, StopContainerRemotePassive,
       StopContainerApplyPassive, StopContainerEndShield, RemoveContainerRemotePassive,
       RemoveContainerFinalShield, RemoveContainerOrphanPassive, RefreshRemotePassive,
       RefreshApplyPassive, PassiveKeeps, ZenonT(60) DEF ContainerStep
  <1>6. ASSUME NEW m \in Mon, MonitorStep(m) PROVE Shield' /\ Lanes'
    <2>1. m \in Thread
      BY Zenon DEF Thread
    <2> QED
      BY <1>6, <2>1, MonitorLogPassive, MonitorLogApplyPassive, MonitorDecidePassive,
         MonitorTickPassive, MonitorCleanupPassive, MonitorStopPodPassive,
         MonitorAfterStopPassive, MonitorFinishShield, PassiveKeeps, Zenon
         DEF MonitorStep
  <1>7. ASSUME NEW c \in Ctr, GuestExit(c) PROVE Shield' /\ Lanes'
    BY <1>7, ShieldStill, Zenon DEF GuestExit, tables, locks, monv
  <1> QED
    BY <1>1, <1>2, <1>3, <1>4, <1>5, <1>6, <1>7, Zenon DEF Next

\* No monitor is past its test at the start.
LEMMA InitShield == Init => Shield /\ Lanes
  <1> SUFFICES ASSUME Init PROVE Shield /\ Lanes
    BY Zenon
  <1>1. \A t \in Thread : loc[t].pc \in {"idle", "off"} /\ ~loc[t].nested
    BY Zenon DEF Init, AtRest
  <1>2. \A t \in Thread : ~Past(t) /\ loc[t].pc \notin RemovePcs
    BY <1>1 DEF Past, InCleanup, RemovePcs
  <1> QED
    BY <1>2, Zenon DEF Shield, Lanes, LaneOf, Thread

\* While StopContainer talks to the guest, no monitor of the container is
\* inside StopPod: StopContainer has waited for the registered monitor, and
\* with it for every one before it (stopContainerMonitorLocked, monitor.done),
\* and cleanupExitedContainer turns back while a stop is in progress.  Callers
\* do not call RemoveContainer, which cancels a monitor without waiting for it;
\* RemovePod does, and its pod then admits no StopPod.
THEOREM EngineStopShielded ==
  ASSUME "RemoveContainer" \notin Ops
  PROVE  Spec => []StopShielded
  <1>1. Init => EngineInv /\ Shield /\ Lanes
    BY InitEngine, InitShield, Zenon
  <1>2. EngineInv /\ Shield /\ Lanes /\ [Next]_vars => (EngineInv /\ Shield /\ Lanes)'
    BY NextEngine, NextShield, Zenon
  <1>3. EngineInv /\ Shield /\ Lanes => StopShielded
    <2> SUFFICES ASSUME EngineInv, Shield, NEW t \in Caller, NEW m \in Mon,
                        loc[t].pc \in {"sc_rpc", "sc_apply"}, loc[m].own = loc[t].ctr,
                        InCleanup(m)
                 PROVE  FALSE
      BY Zenon DEF StopShielded
    <2>1. t \in Thread /\ ShieldOf(m)
      BY Zenon DEF Thread, Shield, Past
    <2>2. InStop(t) /\ loc[t].ctr \in containerStop
      BY <2>1, Zenon DEF InStop, EngineInv, Claimed
    <2>3. PICK u \in Thread : loc[u].pc = "sc_wait" /\ loc[u].ctr = loc[t].ctr
      BY <2>1, <2>2, Zenon DEF ShieldOf
    <2>4. u = t
      BY <2>1, <2>2, <2>3, Zenon DEF EngineInv, CleanupExclusive, InStop
    <2> QED
      BY <2>3, <2>4, Zenon
  <1> QED
    BY <1>1, <1>2, <1>3, PTL DEF Spec
==============================================================================
