----------------------------- MODULE EngineProofs -----------------------------
(***************************************************************************)
(* Proofs about Engine, for any number of pods, containers, callers,       *)
(* monitors, addresses and peer ids: the steps that take down a pod and    *)
(* the ones that take or give up a container or a monitor keep the         *)
(* invariant, and the theorems.                                            *)
(***************************************************************************)
EXTENDS EngineInvariant

------------------------------------------------------------------------------
(* StopPod and RemovePod.                                                  *)

\* beginPodCleanupLocked claims a pod that no thread is cleaning up.
LEMMA CleanupTaken ==
  ASSUME Claimed, CleanupExclusive, Born, Known, NEW t \in Thread, Others(t),
         NEW p \in Pod \ podCleanup, podCleanup' = podCleanup \cup {p},
         UNCHANGED <<containerStop, podState, podIP, kernels>>,
         loc'[t].pod = p, loc'[t].ip = podIP[p], podState[p] # "none",
         ~InStop(t)', loc'[t].pc \notin RunPcs
  PROVE  Claimed' /\ CleanupExclusive' /\ Born' /\ Known'
  <1>1. \A u \in Thread \ {t} :
          loc'[u] = loc[u] /\ (InCleanup(u)' <=> InCleanup(u))
              /\ (InStop(u)' <=> InStop(u))
    BY Zenon DEF Others, InCleanup, InStop
  <1>2. \A u \in Thread : InCleanup(u) => loc[u].pod # p
    BY Zenon DEF Claimed
  <1>3. Claimed'
    BY <1>1, ZenonT(60) DEF Claimed
  <1>4. CleanupExclusive'
    BY <1>1, <1>2, SMTT(60) DEF CleanupExclusive
  <1>5. Born'
    BY <1>1 DEF Born
  <1>6. Known'
    BY <1>1, ZenonT(60) DEF Known
  <1> QED
    BY <1>3, <1>4, <1>5, <1>6, Zenon

\* What StopPod and RemovePod read under the lock.
LEMMA CleanupLocals ==
  /\ \A l \in Locals, p \in Pod, c \in Ctr \cup {None} : [l EXCEPT !.pod = p,
        !.ctr = c] \in Locals
  /\ \A l \in Locals, k \in PeerId \cup {None}, i \in Ip \cup {None} :
       [l EXCEPT !.kern = k, !.ip = i] \in Locals
  <1>1. \A l \in Locals, p \in Pod, c \in Ctr \cup {None} : [l EXCEPT !.pod = p,
            !.ctr = c] \in Locals
    BY ZenonT(60) DEF Locals
  <1>2. \A l \in Locals, k \in PeerId \cup {None}, i \in Ip \cup {None} :
          [l EXCEPT !.kern = k, !.ip = i] \in Locals
    BY ZenonT(60) DEF Locals
  <1> QED
    BY <1>1, <1>2, Zenon

LEMMA StopPodBegins ==
  ASSUME EngineInv, NEW t \in Thread, NEW p \in Pod, StopPod(t, p), p \notin podCleanup,
         PodExists(p),
         podCleanup' = podCleanup \cup {p},
         loc' = [loc EXCEPT ![t].pc = "sp_check", ![t].pod = p,
             ![t].ctr = podToContainer[p], ![t].kern = kernels[p], ![t].ip = podIP[p]]
  PROVE  EngineInv'
  <1> t \in Thread /\ loc \in [Thread -> Locals] /\ TypeOK /\ ScopeOf(t) /\ Scope
    BY Zenon DEF Thread, EngineInv, Types, Scope
  <1>1. loc' \in [Thread -> Locals] /\ Others(t)
    <2>1. CASE loc' = [loc EXCEPT ![t].pc = "sp_check", ![t].pod = p,
                   ![t].ctr = podToContainer[p], ![t].kern = kernels[p],
                   ![t].ip = podIP[p]]
      <3>0. podToContainer[p] \in Ctr \cup {None}
                /\ kernels[p] \in PeerId \cup {None} /\ podIP[p] \in Ip \cup {None}
                /\ loc[t] \in Locals
        BY Zenon DEF TypeOK
      <3>1. [loc[t] EXCEPT !.pc = "sp_check", !.pod = p, !.ctr = podToContainer[p],
                !.kern = kernels[p], !.ip = podIP[p]] \in Locals
        BY <3>0, PcMembers, ZenonT(60) DEF Locals
      <3>2. loc' = [loc EXCEPT ![t] = [loc[t] EXCEPT !.pc = "sp_check", !.pod = p,
                !.ctr = podToContainer[p], !.kern = kernels[p], !.ip = podIP[p]]]
        BY <2>1, ZenonT(60)
      <3> QED
        BY <3>1, <3>2, UpdateLocals, ZenonT(60)
    <2> QED
      BY <2>1, ZenonT(60) DEF StopPod
  <1>2. TypeOK'
    <2>1. calls' \in 0 .. MaxCalls
      BY EngineAssumption DEF StopPod, Enter, NewCall, TypeOK
    <2> QED
      BY <2>1, ZenonT(60) DEF StopPod, TypeOK, tables, monv, res, ext
  <1>3. /\ loc[t].pc \in {"idle", "sp_enter"} /\ loc'[t].pc = "sp_check"
        /\ loc'[t].own = loc[t].own /\ loc'[t].pod = p
        /\ loc'[t].ctr = podToContainer[p] /\ loc'[t].ip = podIP[p]
        /\ ~loc[t].nested /\ ~loc'[t].nested
        /\ podState[p] # "none" /\ podToContainer[p] \in Ctr \cup {None}
        /\ (podToContainer[p] # None => CtrPod[podToContainer[p]] = p)
        /\ UNCHANGED <<podState, podIP, kernels, podToContainer, containerStop,
                        monitors, cancelled, idsFree, ipsFree>>
    <2>1. /\ loc'[t].pc = "sp_check" /\ loc'[t].own = loc[t].own /\ loc'[t].pod = p
          /\ loc'[t].ctr = podToContainer[p] /\ loc'[t].ip = podIP[p]
          /\ loc'[t].nested = loc[t].nested
      BY DEF Locals
    <2>2. loc[t].pc \in {"idle", "sp_enter"} /\ ~loc[t].nested
      BY Zenon DEF StopPod, Enter, NewCall, ScopeOf, NestedPcs
    <2>3. podState[p] # "none"
      BY Zenon DEF PodExists
    <2>4. podToContainer[p] \in Ctr \cup {None} /\ (podToContainer[p] # None
              => CtrPod[podToContainer[p]] = p)
      BY Zenon DEF TypeOK, EngineInv, Linked
    <2> QED
      BY <2>1, <2>2, <2>3, <2>4, ZenonT(60) DEF StopPod, TypeOK, tables, locks, monv,
         res
  <1>4. Scope'
    <2>1. ScopeOf(t)'
      BY <1>3, EngineAssumption, ZenonT(60) DEF ScopeOf, InCleanup, StopPcs, Pcs,
         MonPcs, RunPcs, CtrPcs, NestedPcs, Thread
    <2> QED
      BY <1>1, <2>1, ScopeFrame, ZenonT(60)
  <1>5. Linked'
    BY <1>3, Zenon DEF EngineInv, Linked
  <1>6. Claimed' /\ CleanupExclusive'
    <2>1. ~InStop(t)' /\ loc'[t].pc \notin RunPcs
      BY <1>3, ZenonT(60) DEF InStop, RunPcs
    <2>2. /\ loc'[t].pod = p /\ loc'[t].ip = podIP[p] /\ podState[p] # "none"
          /\ UNCHANGED <<containerStop, podState, podIP, kernels>>
      BY <1>3, ZenonT(60)
    <2>3. Claimed /\ CleanupExclusive /\ Born /\ Known
      BY ZenonT(60) DEF EngineInv
    <2> QED
      BY <1>1, <2>1, <2>2, <2>3, CleanupTaken, ZenonT(60)
  <1>7. Fresh'
    BY <1>1, <1>3, FreshFrame, ZenonT(60) DEF EngineInv, InCleanup, InStop, ScopeOf,
       StopPcs, MonPcs, RunPcs, CtrPcs, NestedPcs
  <1>8. Born'
    <2>1. ~InStop(t)' /\ loc'[t].pc \notin RunPcs
      BY <1>3, Zenon DEF InStop, RunPcs
    <2>2. /\ loc'[t].pod = p /\ loc'[t].ip = podIP[p] /\ podState[p] # "none"
          /\ UNCHANGED <<containerStop, podState, podIP, kernels>>
      BY <1>3, Zenon
    <2>3. Claimed /\ CleanupExclusive /\ Born /\ Known
      BY Zenon DEF EngineInv
    <2> QED
      BY <1>1, <2>1, <2>2, <2>3, CleanupTaken, ZenonT(60)
  <1>9. Known'
    <2>1. ~InStop(t)' /\ loc'[t].pc \notin RunPcs
      BY <1>3, Zenon DEF InStop, RunPcs
    <2>2. /\ loc'[t].pod = p /\ loc'[t].ip = podIP[p] /\ podState[p] # "none"
          /\ UNCHANGED <<containerStop, podState, podIP, kernels>>
      BY <1>3, Zenon
    <2>3. Claimed /\ CleanupExclusive /\ Born /\ Known
      BY Zenon DEF EngineInv
    <2> QED
      BY <1>1, <2>1, <2>2, <2>3, CleanupTaken, ZenonT(60)
  <1>10. IpApart' /\ IpSomewhere'
    BY <1>1, <1>3, IpFrame, ZenonT(60) DEF EngineInv, HoldsIp, InCleanup, InStop,
       ScopeOf, StopPcs, MonPcs, RunPcs, CtrPcs, NestedPcs
  <1>11. IdApart' /\ IdSomewhere'
    BY <1>1, <1>3, IdFrame, ZenonT(60) DEF EngineInv, HoldsId, InCleanup, InStop,
       ScopeOf, StopPcs, MonPcs, RunPcs, CtrPcs, NestedPcs
  <1>12. NoStrayMonitor'
    BY <1>1, <1>3, StrayFrame, ZenonT(60) DEF EngineInv, InCleanup, InStop, ScopeOf,
       StopPcs, MonPcs, RunPcs, CtrPcs, NestedPcs
  <1> QED
    BY <1>1, <1>2, <1>4, <1>5, <1>6, <1>7, <1>8, <1>9, <1>10, <1>11, <1>12, Zenon
       DEF EngineInv, Types

LEMMA RemovePodBegins ==
  ASSUME EngineInv, NEW t \in Thread, NEW p \in Pod, RemovePod(t, p),
         p \notin podCleanup, PodExists(p),
         podCleanup' = podCleanup \cup {p},
         podToContainer[p] = None,
         loc' = [loc EXCEPT ![t].pc = "rm_kernel", ![t].nested = TRUE, ![t].pod = p,
             ![t].ctr = podToContainer[p], ![t].kern = kernels[p], ![t].ip = podIP[p]]
  PROVE  EngineInv'
  <1> t \in Thread /\ loc \in [Thread -> Locals] /\ TypeOK /\ ScopeOf(t) /\ Scope
    BY Zenon DEF Thread, EngineInv, Types, Scope
  <1>1. loc' \in [Thread -> Locals] /\ Others(t)
    <2>1. CASE loc' = [loc EXCEPT ![t].pc = "rm_kernel", ![t].nested = TRUE,
                   ![t].pod = p, ![t].ctr = podToContainer[p], ![t].kern = kernels[p],
                   ![t].ip = podIP[p]]
      <3>0. podToContainer[p] \in Ctr \cup {None}
                /\ kernels[p] \in PeerId \cup {None} /\ podIP[p] \in Ip \cup {None}
                /\ loc[t] \in Locals
        BY Zenon DEF TypeOK
      <3>1. [loc[t] EXCEPT !.pc = "rm_kernel", !.nested = TRUE, !.pod = p,
                !.ctr = podToContainer[p], !.kern = kernels[p],
                !.ip = podIP[p]] \in Locals
        <4>1. "rm_kernel" \in Pcs
          BY PcMembers, ZenonT(60)
        <4>2. [loc[t] EXCEPT !.pc = "rm_kernel", !.nested = TRUE] \in Locals
          BY <3>0, <4>1, ZenonT(60) DEF Locals
        <4>3. [loc[t] EXCEPT !.pc = "rm_kernel", !.nested = TRUE, !.pod = p,
                  !.ctr = podToContainer[p]] \in Locals
          BY <3>0, <4>2, CleanupLocals, Zenon
        <4> QED
          BY <3>0, <4>3, CleanupLocals, ZenonT(60)
      <3>2. loc' = [loc EXCEPT ![t] = [loc[t] EXCEPT !.pc = "rm_kernel",
                !.nested = TRUE, !.pod = p, !.ctr = podToContainer[p],
                !.kern = kernels[p], !.ip = podIP[p]]]
        BY <2>1, ZenonT(60)
      <3> QED
        BY <3>1, <3>2, UpdateLocals, ZenonT(60)
    <2> QED
      BY <2>1, ZenonT(60) DEF RemovePod
  <1>2. TypeOK'
    <2>1. calls' \in 0 .. MaxCalls
      <3>1. calls < MaxCalls /\ calls' = calls + 1
        BY Zenon DEF RemovePod, NewCall
      <3>2. calls \in 0 .. MaxCalls /\ MaxCalls \in Nat
        BY EngineAssumption, Zenon DEF TypeOK
      <3> QED
        BY <3>1, <3>2
    <2> QED
      BY <2>1, Zenon DEF RemovePod, TypeOK, tables, monv, res, ext
  <1>3. /\ loc[t].pc = "idle" /\ loc'[t].pc = "rm_kernel"
        /\ loc'[t].own = loc[t].own /\ loc'[t].pod = p
        /\ loc'[t].ctr = podToContainer[p] /\ loc'[t].ip = podIP[p]
        /\ ~loc[t].nested /\ loc'[t].nested
        /\ podState[p] # "none" /\ podToContainer[p] \in Ctr \cup {None}
        /\ (podToContainer[p] # None => CtrPod[podToContainer[p]] = p)
        /\ UNCHANGED <<podState, podIP, kernels, podToContainer, containerStop,
                        monitors, cancelled, idsFree, ipsFree>>
    <2>1. /\ loc'[t].pc = "rm_kernel" /\ loc'[t].own = loc[t].own /\ loc'[t].pod = p
          /\ loc'[t].ctr = podToContainer[p] /\ loc'[t].ip = podIP[p]
          /\ loc'[t].nested = TRUE
      BY DEF Locals
    <2>2. loc[t].pc = "idle" /\ ~loc[t].nested
      BY Zenon DEF RemovePod, NewCall, ScopeOf, NestedPcs
    <2>3. podState[p] # "none"
      BY Zenon DEF PodExists
    <2>4. podToContainer[p] \in Ctr \cup {None} /\ (podToContainer[p] # None
              => CtrPod[podToContainer[p]] = p)
      BY Zenon DEF TypeOK, EngineInv, Linked
    <2> QED
      BY <2>1, <2>2, <2>3, <2>4, ZenonT(60) DEF RemovePod, TypeOK, tables, locks, monv,
         res
  <1>4. Scope'
    <2>1. ScopeOf(t)'
      BY <1>3, EngineAssumption, ZenonT(60) DEF ScopeOf, InCleanup, StopPcs, Pcs,
         MonPcs, RunPcs, CtrPcs, NestedPcs, Thread
    <2> QED
      BY <1>1, <2>1, ScopeFrame, ZenonT(60)
  <1>5. Linked'
    BY <1>3, Zenon DEF EngineInv, Linked
  <1>6. Claimed' /\ CleanupExclusive'
    <2>1. ~InStop(t)' /\ loc'[t].pc \notin RunPcs
      BY <1>3, Zenon DEF InStop, RunPcs
    <2>2. /\ loc'[t].pod = p /\ loc'[t].ip = podIP[p] /\ podState[p] # "none"
          /\ UNCHANGED <<containerStop, podState, podIP, kernels>>
      BY <1>3, Zenon
    <2>3. Claimed /\ CleanupExclusive /\ Born /\ Known
      BY Zenon DEF EngineInv
    <2> QED
      BY <1>1, <2>1, <2>2, <2>3, CleanupTaken, Zenon
  <1>7. Fresh'
    BY <1>1, <1>3, FreshFrame, ZenonT(60) DEF EngineInv, InCleanup, InStop, ScopeOf,
       StopPcs, MonPcs, RunPcs, CtrPcs, NestedPcs
  <1>8. Born'
    <2>1. ~InStop(t)' /\ loc'[t].pc \notin RunPcs
      BY <1>3, Zenon DEF InStop, RunPcs
    <2>2. /\ loc'[t].pod = p /\ loc'[t].ip = podIP[p] /\ podState[p] # "none"
          /\ UNCHANGED <<containerStop, podState, podIP, kernels>>
      BY <1>3, Zenon
    <2>3. Claimed /\ CleanupExclusive /\ Born /\ Known
      BY Zenon DEF EngineInv
    <2> QED
      BY <1>1, <2>1, <2>2, <2>3, CleanupTaken, ZenonT(60)
  <1>9. Known'
    <2>1. ~InStop(t)' /\ loc'[t].pc \notin RunPcs
      BY <1>3, Zenon DEF InStop, RunPcs
    <2>2. /\ loc'[t].pod = p /\ loc'[t].ip = podIP[p] /\ podState[p] # "none"
          /\ UNCHANGED <<containerStop, podState, podIP, kernels>>
      BY <1>3, Zenon
    <2>3. Claimed /\ CleanupExclusive /\ Born /\ Known
      BY Zenon DEF EngineInv
    <2> QED
      BY <1>1, <2>1, <2>2, <2>3, CleanupTaken, ZenonT(60)
  <1>10. IpApart' /\ IpSomewhere'
    BY <1>1, <1>3, IpFrame, ZenonT(60) DEF EngineInv, HoldsIp, InCleanup, InStop,
       ScopeOf, StopPcs, MonPcs, RunPcs, CtrPcs, NestedPcs
  <1>11. IdApart' /\ IdSomewhere'
    BY <1>1, <1>3, IdFrame, ZenonT(60) DEF EngineInv, HoldsId, InCleanup, InStop,
       ScopeOf, StopPcs, MonPcs, RunPcs, CtrPcs, NestedPcs
  <1>12. NoStrayMonitor'
    BY <1>1, <1>3, StrayFrame, ZenonT(60) DEF EngineInv, InCleanup, InStop, ScopeOf,
       StopPcs, MonPcs, RunPcs, CtrPcs, NestedPcs
  <1> QED
    BY <1>1, <1>2, <1>4, <1>5, <1>6, <1>7, <1>8, <1>9, <1>10, <1>11, <1>12, ZenonT(60)
       DEF EngineInv, Types

LEMMA RemovePodRemoves ==
  ASSUME EngineInv, NEW t \in Thread, NEW p \in Pod, RemovePod(t, p),
         p \notin podCleanup, PodExists(p),
         podCleanup' = podCleanup \cup {p},
         podToContainer[p] # None,
         loc' = [loc EXCEPT ![t].pc = "rc_enter", ![t].nested = TRUE, ![t].pod = p,
             ![t].ctr = podToContainer[p], ![t].kern = kernels[p], ![t].ip = podIP[p]]
  PROVE  EngineInv'
  <1> t \in Thread /\ loc \in [Thread -> Locals] /\ TypeOK /\ ScopeOf(t) /\ Scope
    BY ZenonT(60) DEF Thread, EngineInv, Types, Scope
  <1>1. loc' \in [Thread -> Locals] /\ Others(t)
    <2>1. CASE loc' = [loc EXCEPT ![t].pc = "rc_enter", ![t].nested = TRUE,
                   ![t].pod = p, ![t].ctr = podToContainer[p], ![t].kern = kernels[p],
                   ![t].ip = podIP[p]]
      <3>0. podToContainer[p] \in Ctr \cup {None}
                /\ kernels[p] \in PeerId \cup {None} /\ podIP[p] \in Ip \cup {None}
                /\ loc[t] \in Locals
        BY Zenon DEF TypeOK
      <3>1. [loc[t] EXCEPT !.pc = "rc_enter", !.nested = TRUE, !.pod = p,
                !.ctr = podToContainer[p], !.kern = kernels[p],
                !.ip = podIP[p]] \in Locals
        <4>1. "rc_enter" \in Pcs
          BY PcMembers, ZenonT(60)
        <4>2. [loc[t] EXCEPT !.pc = "rc_enter", !.nested = TRUE] \in Locals
          BY <3>0, <4>1, ZenonT(60) DEF Locals
        <4>3. [loc[t] EXCEPT !.pc = "rc_enter", !.nested = TRUE, !.pod = p,
                  !.ctr = podToContainer[p]] \in Locals
          BY <3>0, <4>2, CleanupLocals, Zenon
        <4> QED
          BY <3>0, <4>3, CleanupLocals, ZenonT(60)
      <3>2. loc' = [loc EXCEPT ![t] = [loc[t] EXCEPT !.pc = "rc_enter", !.nested = TRUE,
                !.pod = p, !.ctr = podToContainer[p], !.kern = kernels[p],
                !.ip = podIP[p]]]
        BY <2>1, ZenonT(60)
      <3> QED
        BY <3>1, <3>2, UpdateLocals, ZenonT(60)
    <2> QED
      BY <2>1, ZenonT(60) DEF RemovePod
  <1>2. TypeOK'
    <2>1. calls' \in 0 .. MaxCalls
      <3>1. calls < MaxCalls /\ calls' = calls + 1
        BY Zenon DEF RemovePod, NewCall
      <3>2. calls \in 0 .. MaxCalls /\ MaxCalls \in Nat
        BY EngineAssumption, Zenon DEF TypeOK
      <3> QED
        BY <3>1, <3>2
    <2> QED
      BY <2>1, Zenon DEF RemovePod, TypeOK, tables, monv, res, ext
  <1>3. /\ loc[t].pc = "idle" /\ loc'[t].pc = "rc_enter"
        /\ loc'[t].own = loc[t].own /\ loc'[t].pod = p
        /\ loc'[t].ctr = podToContainer[p] /\ loc'[t].ip = podIP[p]
        /\ ~loc[t].nested /\ loc'[t].nested
        /\ podState[p] # "none" /\ podToContainer[p] \in Ctr \cup {None}
        /\ (podToContainer[p] # None => CtrPod[podToContainer[p]] = p)
        /\ UNCHANGED <<podState, podIP, kernels, podToContainer, containerStop,
                        monitors, cancelled, idsFree, ipsFree>>
    <2>1. /\ loc'[t].pc = "rc_enter" /\ loc'[t].own = loc[t].own /\ loc'[t].pod = p
          /\ loc'[t].ctr = podToContainer[p] /\ loc'[t].ip = podIP[p]
          /\ loc'[t].nested = TRUE
      BY DEF Locals
    <2>2. loc[t].pc = "idle" /\ ~loc[t].nested
      BY Zenon DEF RemovePod, NewCall, ScopeOf, NestedPcs
    <2>3. podState[p] # "none"
      BY Zenon DEF PodExists
    <2>4. podToContainer[p] \in Ctr \cup {None} /\ (podToContainer[p] # None
              => CtrPod[podToContainer[p]] = p)
      BY Zenon DEF TypeOK, EngineInv, Linked
    <2> QED
      BY <2>1, <2>2, <2>3, <2>4, ZenonT(60) DEF RemovePod, TypeOK, tables, locks, monv,
         res
  <1>4. Scope'
    <2>1. ScopeOf(t)'
      BY <1>3, EngineAssumption, ZenonT(60) DEF ScopeOf, InCleanup, StopPcs, Pcs,
         MonPcs, RunPcs, CtrPcs, NestedPcs, Thread
    <2> QED
      BY <1>1, <2>1, ScopeFrame, ZenonT(60)
  <1>5. Linked'
    BY <1>3, Zenon DEF EngineInv, Linked
  <1>6. Claimed' /\ CleanupExclusive'
    <2>1. ~InStop(t)' /\ loc'[t].pc \notin RunPcs
      BY <1>3, Zenon DEF InStop, RunPcs
    <2>2. /\ loc'[t].pod = p /\ loc'[t].ip = podIP[p] /\ podState[p] # "none"
          /\ UNCHANGED <<containerStop, podState, podIP, kernels>>
      BY <1>3, Zenon
    <2>3. Claimed /\ CleanupExclusive /\ Born /\ Known
      BY Zenon DEF EngineInv
    <2> QED
      BY <1>1, <2>1, <2>2, <2>3, CleanupTaken, ZenonT(60)
  <1>7. Fresh'
    BY <1>1, <1>3, FreshFrame, ZenonT(60) DEF EngineInv, InCleanup, InStop, ScopeOf,
       StopPcs, MonPcs, RunPcs, CtrPcs, NestedPcs
  <1>8. Born'
    <2>1. ~InStop(t)' /\ loc'[t].pc \notin RunPcs
      BY <1>3, Zenon DEF InStop, RunPcs
    <2>2. /\ loc'[t].pod = p /\ loc'[t].ip = podIP[p] /\ podState[p] # "none"
          /\ UNCHANGED <<containerStop, podState, podIP, kernels>>
      BY <1>3, Zenon
    <2>3. Claimed /\ CleanupExclusive /\ Born /\ Known
      BY Zenon DEF EngineInv
    <2> QED
      BY <1>1, <2>1, <2>2, <2>3, CleanupTaken, ZenonT(60)
  <1>9. Known'
    <2>1. ~InStop(t)' /\ loc'[t].pc \notin RunPcs
      BY <1>3, Zenon DEF InStop, RunPcs
    <2>2. /\ loc'[t].pod = p /\ loc'[t].ip = podIP[p] /\ podState[p] # "none"
          /\ UNCHANGED <<containerStop, podState, podIP, kernels>>
      BY <1>3, Zenon
    <2>3. Claimed /\ CleanupExclusive /\ Born /\ Known
      BY Zenon DEF EngineInv
    <2> QED
      BY <1>1, <2>1, <2>2, <2>3, CleanupTaken, ZenonT(60)
  <1>10. IpApart' /\ IpSomewhere'
    BY <1>1, <1>3, IpFrame, ZenonT(60) DEF EngineInv, HoldsIp, InCleanup, InStop,
       ScopeOf, StopPcs, MonPcs, RunPcs, CtrPcs, NestedPcs
  <1>11. IdApart' /\ IdSomewhere'
    BY <1>1, <1>3, IdFrame, ZenonT(60) DEF EngineInv, HoldsId, InCleanup, InStop,
       ScopeOf, StopPcs, MonPcs, RunPcs, CtrPcs, NestedPcs
  <1>12. NoStrayMonitor'
    BY <1>1, <1>3, StrayFrame, ZenonT(60) DEF EngineInv, InCleanup, InStop, ScopeOf,
       StopPcs, MonPcs, RunPcs, CtrPcs, NestedPcs
  <1> QED
    BY <1>1, <1>2, <1>4, <1>5, <1>6, <1>7, <1>8, <1>9, <1>10, <1>11, <1>12, ZenonT(60)
       DEF EngineInv, Types

LEMMA StopPodKeeps ==
  ASSUME EngineInv, NEW t \in Thread, NEW p \in Pod, StopPod(t, p)
  PROVE  EngineInv'
  <1> loc \in [Thread -> Locals] /\ TypeOK /\ ScopeOf(t)
    BY Zenon DEF EngineInv, Types, Scope
  <1>1. CASE Return(t, TRUE) /\ UNCHANGED podCleanup
    <2>1. loc' \in [Thread -> Locals] /\ Others(t)
      BY <1>1, ReturnLocals, ZenonT(60)
    <2>2. TypeOK'
      <3>1. calls' \in 0 .. MaxCalls
        BY EngineAssumption, SMTT(60) DEF StopPod, Enter, NewCall, TypeOK
      <3> QED
        BY <1>1, <3>1, ZenonT(60) DEF StopPod, TypeOK, tables, locks, monv, res, ext
    <2>3. /\ loc[t].pc \in {"idle", "sp_enter"} /\ ~loc[t].nested
          /\ loc'[t].pc = (IF t \in Caller THEN "idle" ELSE "mn_after")
          /\ loc'[t].own = (IF t \in Caller THEN None ELSE loc[t].own)
          /\ ~loc'[t].nested
      BY <1>1, ReturnLocals, ZenonT(60) DEF StopPod, Enter, NewCall, ScopeOf, NestedPcs
    <2>4. ScopeOf(t)'
      BY <2>3, EngineAssumption, ZenonT(60) DEF ScopeOf, InCleanup, StopPcs, Pcs,
         MonPcs, RunPcs, CtrPcs, NestedPcs, Thread
    <2>5. Quiet(t)
      BY <1>1, <2>1, <2>3, EngineAssumption, ZenonT(60) DEF Quiet, StopPod, ScopeOf,
         InCleanup, InStop, Pcs, MonPcs, RunPcs, CtrPcs, NestedPcs, StopPcs, tables,
         locks, monv, res, Thread
    <2>6. Linked'
      BY Zenon DEF EngineInv, Linked, StopPod, tables
    <2> QED
      BY <2>1, <2>2, <2>4, <2>5, <2>6, QuietKeeps, Zenon DEF Types
  <1>2. CASE /\ PodExists(p)
             /\ podCleanup' = podCleanup \cup {p}
             /\ loc' = [loc EXCEPT ![t].pc = "sp_check", ![t].pod = p,
                                   ![t].ctr = podToContainer[p],
                                   ![t].kern = kernels[p], ![t].ip = podIP[p]]
    BY <1>2, StopPodBegins, ZenonT(60) DEF StopPod
  <1> QED
    BY <1>1, <1>2, ZenonT(60) DEF StopPod

LEMMA RemovePodKeeps ==
  ASSUME EngineInv, NEW t \in Thread, NEW p \in Pod, RemovePod(t, p)
  PROVE  EngineInv'
  <1>1. CASE podToContainer[p] = None
    BY <1>1, RemovePodBegins, ZenonT(60) DEF RemovePod
  <1>2. CASE podToContainer[p] # None
    BY <1>2, RemovePodRemoves, Zenon DEF RemovePod
  <1> QED
    BY <1>1, <1>2, ZenonT(60)

\* The address of a pod that is taken down passes to the thread that releases it.
LEMMA AddressPassed ==
  ASSUME IpApart, IpSomewhere, None \notin ipsFree, None \notin Ip, ipsFree' = ipsFree,
         NEW t \in Thread, NEW p \in Pod, ~HoldsIp(t),
         HoldsIp(t)' <=> podIP[p] # None, loc'[t].ip = podIP[p],
         \A u \in Thread \ {t} : (HoldsIp(u)' <=> HoldsIp(u)) /\ loc'[u].ip = loc[u].ip,
         \A q \in Pod : podIP'[q] = IF q = p THEN None ELSE podIP[q],
         \A u \in Thread : HoldsIp(u) => loc[u].ip # None
  PROVE  IpApart' /\ IpSomewhere'
  <1>1. \A q \in Pod : podIP'[q] \notin ipsFree'
    BY Zenon DEF IpApart
  <1>2. \A q, r \in Pod : podIP'[q] = podIP'[r] /\ podIP'[q] # None => q = r
    BY DEF IpApart
  <1>3. ASSUME NEW u \in Thread, HoldsIp(u)'
        PROVE  loc'[u].ip \notin ipsFree' /\ \A q \in Pod : podIP'[q] # loc'[u].ip
    <2>1. CASE u = t
      BY <1>3, <2>1 DEF IpApart
    <2>2. CASE u # t
      BY <1>3, <2>2 DEF IpApart
    <2> QED
      BY <2>1, <2>2
  <1>4. ASSUME NEW u \in Thread, NEW v \in Thread, HoldsIp(u)', HoldsIp(v)',
               loc'[u].ip = loc'[v].ip
        PROVE  u = v
    BY <1>4 DEF IpApart
  <1>5. ASSUME NEW i \in Ip \ ipsFree'
        PROVE  \/ \E q \in Pod : podIP'[q] = i
               \/ \E u \in Thread : HoldsIp(u)' /\ loc'[u].ip = i
    <2>1. CASE podIP[p] = i
      BY <1>5, <2>1
    <2>2. CASE podIP[p] # i
      BY <1>5, <2>2 DEF IpSomewhere
    <2> QED
      BY <2>1, <2>2
  <1> QED
    BY <1>1, <1>2, <1>3, <1>4, <1>5, Zenon DEF IpApart, IpSomewhere

\* DropKernel returns the peer id of a pod to the pool.
LEMMA IdReturned ==
  ASSUME IdApart, IdSomewhere, None \notin idsFree, NEW p \in Pod,
         idsFree' = idsFree \cup ({kernels[p]} \ {None}),
         \A u \in Thread : HoldsId(u)' <=> HoldsId(u),
         \A u \in Thread : HoldsId(u) => loc'[u].kern = loc[u].kern,
         \A u \in Thread : HoldsId(u) => loc[u].kern # None,
         \A q \in Pod : kernels'[q] = IF q = p THEN None ELSE kernels[q]
  PROVE  IdApart' /\ IdSomewhere'
  <1>1. \A q \in Pod : kernels'[q] \notin idsFree'
    BY DEF IdApart
  <1>2. \A q, r \in Pod : kernels'[q] = kernels'[r] /\ kernels'[q] # None => q = r
    BY DEF IdApart
  <1>3. ASSUME NEW u \in Thread, HoldsId(u)'
        PROVE  loc'[u].kern \notin idsFree' /\ \A q \in Pod : kernels'[q] # loc'[u].kern
    BY <1>3 DEF IdApart
  <1>4. ASSUME NEW u \in Thread, NEW v \in Thread, HoldsId(u)', HoldsId(v)',
               loc'[u].kern = loc'[v].kern
        PROVE  u = v
    BY <1>4 DEF IdApart
  <1>5. ASSUME NEW i \in PeerId \ idsFree'
        PROVE  \/ \E q \in Pod : kernels'[q] = i
               \/ \E u \in Thread : HoldsId(u)' /\ loc'[u].kern = i
    BY <1>5 DEF IdSomewhere
  <1> QED
    BY <1>1, <1>2, <1>3, <1>4, <1>5, Zenon DEF IdApart, IdSomewhere

\* StopPod and RemovePod take the address and the kernel off the pod they
\* have claimed; the address is theirs until ReleaseIP.
LEMMA PodTakenDown ==
  ASSUME EngineInv, NEW t \in Thread, loc[t].pc \in {"sp_final", "rm_final"}, Goto(t,
         "sp_ip"),
         NEW s \in {"notready", "removed"},
             podState' = [podState EXCEPT ![loc[t].pod] = s],
         podIP' = [podIP EXCEPT ![loc[t].pod] = None], DropKernel(loc[t].pod),
         Linked', TypeOK', UNCHANGED <<podCleanup, containerStop, monitors, cancelled,
             ipsFree>>
  PROVE  EngineInv'
  <1> t \in Thread /\ loc \in [Thread -> Locals] /\ TypeOK /\ ScopeOf(t) /\ Scope
    BY ZenonT(60) DEF Thread, EngineInv, Types, Scope
  <1>1. loc' \in [Thread -> Locals] /\ Others(t)
    BY GotoLocals, PcMembers, ZenonT(60)
  <1>2. TypeOK'
    BY ZenonT(60)
  <1>3. /\ loc'[t].pc = "sp_ip" /\ loc'[t].own = loc[t].own
        /\ loc'[t].pod = loc[t].pod /\ loc'[t].ctr = loc[t].ctr
        /\ loc'[t].nested = loc[t].nested /\ loc'[t].ip = loc[t].ip
        /\ InCleanup(t) /\ loc[t].pod \in Pod /\ loc[t].ip = podIP[loc[t].pod]
    <2>1. loc'[t] = [loc[t] EXCEPT !.pc = "sp_ip"]
      BY GotoLocals, PcMembers, ZenonT(60)
    <2>2. InCleanup(t) /\ loc[t].pod \in Pod /\ loc[t].ip = podIP[loc[t].pod]
      BY ZenonT(60) DEF InCleanup, ScopeOf, EngineInv, Known
    <2> QED
      BY <2>1, <2>2, SMTT(60) DEF Locals
  <1>4. Scope'
    <2>1. ScopeOf(t)'
      BY <1>3, EngineAssumption, ZenonT(60) DEF ScopeOf, InCleanup, StopPcs, Pcs,
         MonPcs, RunPcs, CtrPcs, NestedPcs, Thread
    <2> QED
      BY <1>1, <2>1, ScopeFrame, ZenonT(60)
  <1>5. Linked'
    BY Zenon
  <1>6. Claimed' /\ CleanupExclusive'
    BY <1>1, <1>3, ClaimFrame, ZenonT(60) DEF EngineInv, InCleanup, InStop, ScopeOf,
       StopPcs, MonPcs, RunPcs, CtrPcs, NestedPcs
  <1>7. Fresh'
    BY <1>1, <1>3, FreshFrame, ZenonT(60) DEF EngineInv, InCleanup, InStop, ScopeOf,
       StopPcs, MonPcs, RunPcs, CtrPcs, NestedPcs
  <1>8. Born'
    <2>1. loc'[t].pc \notin RunPcs
      BY <1>3, ZenonT(60) DEF RunPcs
    <2>2. \A q \in Pod : podState'[q] = IF q = loc[t].pod THEN s ELSE podState[q]
      BY ZenonT(60) DEF TypeOK
    <2>3. \A q \in Pod : podState'[q] = "none" => kernels'[q] = None /\ podIP'[q] = None
      BY SMTT(60) DEF EngineInv, Born, DropKernel
    <2>4. \A u \in Thread : loc[u].pc \in RunPcs => loc[u].pod # loc[t].pod
      BY <1>3, ZenonT(60) DEF EngineInv, Born
    <2>5. \A u \in Thread : (InCleanup(u)' => InCleanup(u)) /\ loc'[u].pod = loc[u].pod
      BY <1>1, <1>3, ZenonT(60) DEF Others, InCleanup
    <2>6. \A u \in Thread : loc'[u].pc \in RunPcs => loc[u].pc \in RunPcs
      BY <1>1, <2>1, ZenonT(60) DEF Others
    <2>7. \A u \in Thread : /\ loc[u].pc \in RunPcs => loc[u].pod \in Pod
                            /\ InCleanup(u) => loc[u].pod \in Pod
      BY ZenonT(60) DEF Scope, ScopeOf
    <2>8. Born
      BY Zenon DEF EngineInv
    <2>9. \A u \in Thread : loc'[u].pc \in RunPcs => podState'[loc'[u].pod] = "none"
      <3> SUFFICES ASSUME NEW u \in Thread, loc'[u].pc \in RunPcs
                   PROVE  podState'[loc'[u].pod] = "none"
        BY Zenon
      <3>1. loc'[u].pod = loc[u].pod /\ loc[u].pod \in Pod /\ loc[u].pod # loc[t].pod
        BY <2>4, <2>5, <2>6, <2>7, Zenon
      <3>2. podState[loc[u].pod] = "none"
        BY <2>6, <2>8, Zenon DEF Born
      <3> QED
        BY <2>2, <3>1, <3>2, Zenon
    <2>10. \A u, v \in Thread :
             loc'[u].pc \in RunPcs /\ loc'[v].pc \in RunPcs /\ loc'[u].pod = loc'[v].pod
               => u = v
      BY <2>5, <2>6, <2>8, ZenonT(60) DEF Born
    <2>11. \A u \in Thread : InCleanup(u)' => podState'[loc'[u].pod] # "none"
      <3> SUFFICES ASSUME NEW u \in Thread, InCleanup(u)'
                   PROVE  podState'[loc'[u].pod] # "none"
        BY Zenon
      <3>1. InCleanup(u) /\ loc'[u].pod = loc[u].pod /\ loc[u].pod \in Pod
        BY <2>5, <2>7, Zenon
      <3>2. podState[loc[u].pod] # "none"
        BY <2>8, <3>1, Zenon DEF Born
      <3>3. s # "none"
        BY Zenon
      <3> QED
        BY <2>2, <3>1, <3>2, <3>3, Zenon
    <2> QED
      BY <2>3, <2>9, <2>10, <2>11, Zenon DEF Born
  <1>9. Known'
    <2>1. \A u \in Thread \ {t} : InCleanup(u) => loc[u].pod # loc[t].pod
              /\ loc[u].pod \in Pod
      BY <1>3, ZenonT(60) DEF EngineInv, CleanupExclusive, Scope, ScopeOf
    <2>2. Known
      BY Zenon DEF EngineInv
    <2>3. \A u \in Thread \ {t} : (InCleanup(u)' <=> InCleanup(u)) /\ loc'[u] = loc[u]
      BY <1>1, Zenon DEF Others, InCleanup
    <2>4. \A q \in Pod : podIP'[q] = IF q = loc[t].pod THEN None ELSE podIP[q]
      BY Zenon DEF TypeOK
    <2> SUFFICES ASSUME NEW u \in Thread, InCleanup(u)',
                        loc'[u].pc \notin {"sp_ip", "sp_end"}
                 PROVE  loc'[u].ip = podIP'[loc'[u].pod]
      BY Zenon DEF Known
    <2>5. u # t /\ InCleanup(u) /\ loc'[u] = loc[u]
      BY <1>3, <2>3, Zenon
    <2>6. podIP'[loc[u].pod] = podIP[loc[u].pod]
      BY <2>1, <2>4, <2>5, Zenon
    <2> QED
      BY <2>2, <2>5, <2>6, Zenon DEF Known
  <1>10. IpApart' /\ IpSomewhere'
    <2>1. ~HoldsIp(t) /\ (HoldsIp(t)' <=> loc[t].ip # None) /\ loc'[t].ip = loc[t].ip
      BY <1>3, ZenonT(60) DEF HoldsIp
    <2>2. \A u \in Thread \ {t} : (HoldsIp(u)' <=> HoldsIp(u)) /\ loc'[u].ip = loc[u].ip
      BY <1>1, ZenonT(60) DEF Others, HoldsIp
    <2>3. \A q \in Pod : podIP'[q] = IF q = loc[t].pod THEN None ELSE podIP[q]
      BY <1>3, ZenonT(60) DEF TypeOK
    <2>4. None \notin ipsFree /\ None \notin Ip /\ IpApart /\ IpSomewhere
      BY EngineAssumption, Zenon DEF TypeOK, EngineInv
    <2>5. \A u \in Thread : HoldsIp(u) => loc[u].ip # None
      BY Zenon DEF HoldsIp
    <2>6. (HoldsIp(t)' <=> podIP[loc[t].pod] # None) /\ loc'[t].ip = podIP[loc[t].pod]
      BY <1>3, <2>1, Zenon
    <2> QED
      BY <1>3, <2>1, <2>2, <2>3, <2>4, <2>5, <2>6, AddressPassed, ZenonT(60)
  <1>11. IdApart' /\ IdSomewhere'
    <2>1. \A u \in Thread : (HoldsId(u)' <=> HoldsId(u)) /\ (HoldsId(u)
              => loc'[u].kern = loc[u].kern)
      BY <1>1, <1>3, ZenonT(60) DEF Others, HoldsId, RunPcs
    <2>2. \A q \in Pod : kernels'[q] = IF q = loc[t].pod THEN None ELSE kernels[q]
      BY ZenonT(60) DEF TypeOK, DropKernel
    <2>3. None \notin PeerId /\ None \notin idsFree /\ IdApart /\ IdSomewhere
      BY EngineAssumption, Zenon DEF TypeOK, EngineInv
    <2>4. idsFree' = idsFree \cup ({kernels[loc[t].pod]} \ {None})
      BY Zenon DEF DropKernel
    <2>5. \A u \in Thread : HoldsId(u) => loc[u].kern # None
      BY <2>3, ZenonT(60) DEF Scope, ScopeOf, HoldsId
    <2> QED
      BY <1>3, <2>1, <2>2, <2>3, <2>4, <2>5, IdReturned, ZenonT(60)
  <1>12. NoStrayMonitor'
    BY <1>1, <1>3, StrayFrame, ZenonT(60) DEF EngineInv, InCleanup, InStop, ScopeOf,
       StopPcs, MonPcs, RunPcs, CtrPcs, NestedPcs
  <1> QED
    BY <1>1, <1>2, <1>4, <1>5, <1>6, <1>7, <1>8, <1>9, <1>10, <1>11, <1>12, ZenonT(60)
       DEF EngineInv, Types

LEMMA StopPodFinalKeeps ==
  ASSUME EngineInv, NEW t \in Thread, StopPodFinal(t)
  PROVE  EngineInv'
  <1> DEFINE p == loc[t].pod
             s == IF PodExists(p) THEN "notready" ELSE podState[p]
  <1> TypeOK /\ ScopeOf(t) /\ loc[t] \in Locals
    BY ZenonT(60) DEF EngineInv, Types, Scope
  <1>1. loc[t].pc = "sp_final" /\ InCleanup(t) /\ p \in Pod
    BY ZenonT(60) DEF StopPodFinal, InCleanup, ScopeOf
  <1>2. s \in {"notready", "removed"}
    BY <1>1, SMTT(60) DEF EngineInv, Born, TypeOK, PodExists
  <1>3. podState' = [podState EXCEPT ![p] = s]
    BY <1>1, Zenon DEF StopPodFinal, TypeOK
  <1>4. TypeOK'
    <2>1. kernels' \in [Pod -> PeerId \cup {None}] /\ idsFree' \subseteq PeerId
      BY <1>1, ZenonT(60) DEF StopPodFinal, DropKernel, TypeOK
    <2>2. podState' \in [Pod -> {"none", "ready", "notready", "removed"}]
      BY <1>2, <1>3, Zenon DEF TypeOK
    <2> QED
      BY <1>1, <2>1, <2>2, Zenon DEF StopPodFinal, TypeOK, locks, monv, ext
  <1>5. Linked'
    BY ZenonT(60) DEF EngineInv, Linked, StopPodFinal
  <1> HIDE DEF s
  <1> QED
    BY <1>1, <1>2, <1>3, <1>4, <1>5, PodTakenDown, ZenonT(60) DEF StopPodFinal, locks,
       monv

LEMMA RemovePodFinalKeeps ==
  ASSUME EngineInv, NEW t \in Thread, RemovePodFinal(t)
  PROVE  EngineInv'
  <1> DEFINE p == loc[t].pod
  <1> TypeOK /\ ScopeOf(t) /\ loc[t] \in Locals
    BY Zenon DEF EngineInv, Types, Scope
  <1>1. loc[t].pc = "rm_final" /\ p \in Pod
    BY ZenonT(60) DEF RemovePodFinal, InCleanup, ScopeOf
  <1>2. TypeOK'
    <2>1. kernels' \in [Pod -> PeerId \cup {None}] /\ idsFree' \subseteq PeerId
      BY <1>1, ZenonT(60) DEF RemovePodFinal, DropKernel, TypeOK
    <2> QED
      BY <1>1, <2>1, ZenonT(60) DEF RemovePodFinal, TypeOK, locks, monv, ext
  <1>3. Linked'
    BY <1>1, ZenonT(60) DEF EngineInv, Linked, RemovePodFinal, TypeOK
  <1> QED
    BY <1>1, <1>2, <1>3, PodTakenDown, ZenonT(60) DEF RemovePodFinal, locks, monv

\* ReleaseIP returns the address the thread holds to the pool.
LEMMA AddressReleased ==
  ASSUME IpApart, IpSomewhere, None \notin ipsFree, None \notin Ip, podIP' = podIP,
         NEW t \in Thread, HoldsIp(t) <=> loc[t].ip # None, ~HoldsIp(t)',
         ipsFree' = ipsFree \cup ({loc[t].ip} \ {None}),
         \A u \in Thread \ {t} : (HoldsIp(u)' <=> HoldsIp(u)) /\ loc'[u].ip = loc[u].ip
  PROVE  IpApart' /\ IpSomewhere'
  <1>1. \A q \in Pod : podIP'[q] \notin ipsFree'
    BY DEF IpApart
  <1>2. \A q, r \in Pod : podIP'[q] = podIP'[r] /\ podIP'[q] # None => q = r
    BY Zenon DEF IpApart
  <1>3. ASSUME NEW u \in Thread, HoldsIp(u)'
        PROVE  loc'[u].ip \notin ipsFree' /\ \A q \in Pod : podIP'[q] # loc'[u].ip
    BY <1>3 DEF IpApart
  <1>4. ASSUME NEW u \in Thread, NEW v \in Thread, HoldsIp(u)', HoldsIp(v)',
               loc'[u].ip = loc'[v].ip
        PROVE  u = v
    BY <1>4 DEF IpApart
  <1>5. ASSUME NEW i \in Ip \ ipsFree'
        PROVE  \/ \E q \in Pod : podIP'[q] = i
               \/ \E u \in Thread : HoldsIp(u)' /\ loc'[u].ip = i
    BY <1>5 DEF IpSomewhere
  <1> QED
    BY <1>1, <1>2, <1>3, <1>4, <1>5, Zenon DEF IpApart, IpSomewhere

LEMMA ReleaseIPKeeps ==
  ASSUME EngineInv, NEW t \in Thread, ReleaseIP(t)
  PROVE  EngineInv'
  <1> t \in Thread /\ loc \in [Thread -> Locals] /\ TypeOK /\ ScopeOf(t) /\ Scope
    BY Zenon DEF Thread, EngineInv, Types, Scope
  <1>1. loc' \in [Thread -> Locals] /\ Others(t)
    <2>1. CASE loc' = [loc EXCEPT ![t].pc = "sp_end", ![t].ip = None]
      <3>1. [loc[t] EXCEPT !.pc = "sp_end", !.ip = None] \in Locals
        BY PcMembers, ZenonT(60) DEF Locals
      <3>2. loc' = [loc EXCEPT ![t] = [loc[t] EXCEPT !.pc = "sp_end", !.ip = None]]
        BY <2>1, Zenon
      <3> QED
        BY <3>1, <3>2, UpdateLocals, ZenonT(60)
    <2> QED
      BY <2>1, ZenonT(60) DEF ReleaseIP
  <1>2. TypeOK'
    <2>1. loc[t].ip \in Ip \cup {None}
      BY Zenon DEF Locals
    <2> QED
      BY <2>1, ZenonT(60) DEF ReleaseIP, TypeOK, tables, locks, monv, ext
  <1>3. /\ loc[t].pc = "sp_ip" /\ loc'[t].pc = "sp_end" /\ loc'[t].own = loc[t].own
        /\ loc'[t].pod = loc[t].pod /\ loc'[t].ctr = loc[t].ctr
        /\ loc'[t].nested = loc[t].nested /\ loc'[t].ip = None
        /\ ipsFree' = ipsFree \cup ({loc[t].ip} \ {None})
        /\ UNCHANGED <<podState, podIP, kernels, podToContainer, podCleanup,
                        containerStop, monitors, cancelled, idsFree>>
    <2>1. /\ loc[t].pc = "sp_ip"
          /\ loc' = [loc EXCEPT ![t].pc = "sp_end", ![t].ip = None]
          /\ ipsFree' = ipsFree \cup ({loc[t].ip} \ {None})
          /\ UNCHANGED <<podState, podIP, kernels, podToContainer, podCleanup,
                          containerStop, monitors, cancelled, idsFree>>
      BY Zenon DEF ReleaseIP, tables, locks, monv
    <2>2. loc[t] \in Locals /\ loc'[t] = [loc[t] EXCEPT !.pc = "sp_end", !.ip = None]
      BY <2>1, Zenon
    <2> QED
      BY <2>1, <2>2, SMTT(60) DEF Locals
  <1>4. Scope'
    <2>1. ScopeOf(t)'
      BY <1>3, EngineAssumption, ZenonT(60) DEF ScopeOf, InCleanup, StopPcs, Pcs,
         MonPcs, RunPcs, CtrPcs, NestedPcs, Thread
    <2> QED
      BY <1>1, <2>1, ScopeFrame, Zenon
  <1>5. Linked'
    BY <1>3, ZenonT(60) DEF EngineInv, Linked
  <1>6. Claimed' /\ CleanupExclusive'
    BY <1>1, <1>3, ClaimFrame, ZenonT(60) DEF EngineInv, InCleanup, InStop, ScopeOf,
       StopPcs, MonPcs, RunPcs, CtrPcs, NestedPcs
  <1>7. Fresh'
    BY <1>1, <1>3, FreshFrame, ZenonT(60) DEF EngineInv, InCleanup, InStop, ScopeOf,
       StopPcs, MonPcs, RunPcs, CtrPcs, NestedPcs
  <1>8. Born'
    BY <1>1, <1>3, BornFrame, ZenonT(60) DEF EngineInv, InCleanup, InStop, ScopeOf,
       StopPcs, MonPcs, RunPcs, CtrPcs, NestedPcs
  <1>9. Known'
    BY <1>1, <1>3, KnownFrame, ZenonT(60) DEF EngineInv, InCleanup, InStop, ScopeOf,
       StopPcs, MonPcs, RunPcs, CtrPcs, NestedPcs
  <1>10. IpApart' /\ IpSomewhere'
    <2>1. (HoldsIp(t) <=> loc[t].ip # None) /\ ~HoldsIp(t)'
      BY <1>3, ZenonT(60) DEF HoldsIp
    <2>2. \A u \in Thread \ {t} : (HoldsIp(u)' <=> HoldsIp(u)) /\ loc'[u].ip = loc[u].ip
      BY <1>1, Zenon DEF Others, HoldsIp
    <2>3. None \notin ipsFree
      BY EngineAssumption, ZenonT(60) DEF TypeOK
    <2>4. None \notin Ip /\ IpApart /\ IpSomewhere
      BY EngineAssumption, Zenon DEF EngineInv
    <2> QED
      BY <1>3, <2>1, <2>2, <2>3, <2>4, AddressReleased, ZenonT(60)
  <1>11. IdApart' /\ IdSomewhere'
    BY <1>1, <1>3, IdFrame, ZenonT(60) DEF EngineInv, HoldsId, InCleanup, InStop,
       ScopeOf, StopPcs, MonPcs, RunPcs, CtrPcs, NestedPcs
  <1>12. NoStrayMonitor'
    BY <1>1, <1>3, StrayFrame, ZenonT(60) DEF EngineInv, InCleanup, InStop, ScopeOf,
       StopPcs, MonPcs, RunPcs, CtrPcs, NestedPcs
  <1> QED
    BY <1>1, <1>2, <1>4, <1>5, <1>6, <1>7, <1>8, <1>9, <1>10, <1>11, <1>12, Zenon
       DEF EngineInv, Types

LEMMA EndPodCleanupKeeps ==
  ASSUME EngineInv, NEW t \in Thread, EndPodCleanup(t)
  PROVE  EngineInv'
  <1> t \in Thread /\ loc \in [Thread -> Locals] /\ TypeOK /\ ScopeOf(t) /\ Scope
    BY Zenon DEF Thread, EngineInv, Types, Scope
  <1>1. loc' \in [Thread -> Locals] /\ Others(t)
    BY ReturnLocals, ZenonT(60) DEF EndPodCleanup, Locals
  <1>2. TypeOK'
    BY Zenon DEF EndPodCleanup, TypeOK, tables, monv, res, ext
  <1>3. /\ loc[t].pc = "sp_end"
        /\ loc'[t].pc = (IF t \in Caller THEN "idle" ELSE "mn_after")
        /\ loc'[t].own = (IF t \in Caller THEN None ELSE loc[t].own)
        /\ ~loc'[t].nested
        /\ podCleanup' = podCleanup \ {loc[t].pod}
        /\ UNCHANGED <<podState, podIP, kernels, podToContainer, containerStop,
                        monitors, cancelled, idsFree, ipsFree>>
    <2>1. loc[t].ok \in BOOLEAN
      BY ZenonT(60) DEF Locals
    <2> QED
      BY <2>1, ReturnLocals, ZenonT(60) DEF EndPodCleanup, tables, monv, res
  <1>4. Scope'
    <2>1. ScopeOf(t)'
      BY <1>3, EngineAssumption, ZenonT(60) DEF ScopeOf, InCleanup, StopPcs, Pcs,
         MonPcs, RunPcs, CtrPcs, NestedPcs, Thread
    <2> QED
      BY <1>1, <2>1, ScopeFrame, Zenon
  <1>5. Linked'
    BY <1>3, ZenonT(60) DEF EngineInv, Linked
  <1>6. Claimed' /\ CleanupExclusive'
    <2>1. InCleanup(t) /\ ~InCleanup(t)' /\ ~InStop(t)'
      BY <1>3, ZenonT(60) DEF InCleanup, InStop
    <2>2. \A u \in Thread \ {t} : InCleanup(u) => loc[u].pod # loc[t].pod
      BY <2>1, ZenonT(60) DEF EngineInv, CleanupExclusive
    <2>3. \A u \in Thread \ {t} :
            /\ loc'[u] = loc[u]
            /\ (InCleanup(u)' <=> InCleanup(u)) /\ (InStop(u)' <=> InStop(u))
      BY <1>1, Zenon DEF Others, InCleanup, InStop
    <2>4. Claimed /\ CleanupExclusive
      BY Zenon DEF EngineInv
    <2>5. Claimed'
      BY <1>3, <2>1, <2>2, <2>3, <2>4, SMTT(60) DEF Claimed
    <2>6. CleanupExclusive'
      BY <2>1, <2>3, <2>4, SMTT(60) DEF CleanupExclusive
    <2> QED
      BY <2>5, <2>6, Zenon
  <1>7. Fresh'
    BY <1>1, <1>3, FreshFrame, ZenonT(60) DEF EngineInv, InCleanup, InStop, ScopeOf,
       StopPcs, MonPcs, RunPcs, CtrPcs, NestedPcs
  <1>8. Born'
    BY <1>1, <1>3, BornFrame, ZenonT(60) DEF EngineInv, InCleanup, InStop, ScopeOf,
       StopPcs, MonPcs, RunPcs, CtrPcs, NestedPcs
  <1>9. Known'
    BY <1>1, <1>3, KnownFrame, ZenonT(60) DEF EngineInv, InCleanup, InStop, ScopeOf,
       StopPcs, MonPcs, RunPcs, CtrPcs, NestedPcs
  <1>10. IpApart' /\ IpSomewhere'
    BY <1>1, <1>3, IpFrame, ZenonT(60) DEF EngineInv, HoldsIp, InCleanup, InStop,
       ScopeOf, StopPcs, MonPcs, RunPcs, CtrPcs, NestedPcs
  <1>11. IdApart' /\ IdSomewhere'
    BY <1>1, <1>3, IdFrame, ZenonT(60) DEF EngineInv, HoldsId, InCleanup, InStop,
       ScopeOf, StopPcs, MonPcs, RunPcs, CtrPcs, NestedPcs
  <1>12. NoStrayMonitor'
    BY <1>1, <1>3, EngineAssumption, StrayFrame, ZenonT(60) DEF EngineInv
  <1> QED
    BY <1>1, <1>2, <1>4, <1>5, <1>6, <1>7, <1>8, <1>9, <1>10, <1>11, <1>12, Zenon
       DEF EngineInv, Types

------------------------------------------------------------------------------
(* StopContainer and RemoveContainer.                                      *)

\* Cancelling the registered monitor of a container leaves no stray one.
LEMMA StraySilenced ==
  ASSUME TypeOK, Scope, NoStrayMonitor, NEW t \in Thread, Others(t), NEW c \in Ctr,
         CancelMonitor(c), monitors' = [monitors EXCEPT ![c] = None],
         t \in Mon => loc[t].pc # "off" /\ loc'[t].own = loc[t].own
  PROVE  NoStrayMonitor'
  <1> SUFFICES ASSUME NEW m \in Mon, loc'[m].pc # "off", m \notin cancelled'
               PROVE  monitors'[loc'[m].own] = m
    BY Zenon DEF NoStrayMonitor
  <1>1. m \in Thread /\ m # None
    BY EngineAssumption, Zenon DEF Thread
  <1>2. loc[m].pc # "off" /\ loc'[m].own = loc[m].own
    BY <1>1, Zenon DEF Others
  <1>3. m \notin cancelled /\ m # monitors[c]
    BY <1>1, Zenon DEF CancelMonitor
  <1>4. monitors[loc[m].own] = m /\ loc[m].own \in Ctr
    BY <1>1, <1>2, <1>3, Zenon DEF NoStrayMonitor, Scope, ScopeOf
  <1> QED
    BY <1>2, <1>3, <1>4, Zenon DEF TypeOK

\* StopContainer returns to StopPod or to the RPC layer.
LEMMA StopReturnLocals ==
  ASSUME loc \in [Thread -> Locals], NEW t \in Thread, NEW ok \in BOOLEAN, StopReturn(t,
         ok)
  PROVE  /\ loc' \in [Thread -> Locals] /\ Others(t)
         /\ ~loc'[t].nested
         /\ loc[t].nested =>
              /\ loc'[t].pc = (IF ok THEN "sp_kernel" ELSE "sp_end")
              /\ loc'[t].own = loc[t].own /\ loc'[t].pod = loc[t].pod
              /\ loc'[t].ctr = loc[t].ctr /\ loc'[t].ip = loc[t].ip
         /\ ~loc[t].nested =>
              /\ loc'[t].pc = (IF t \in Caller THEN "idle" ELSE "mn_after")
              /\ loc'[t].own = (IF t \in Caller THEN None ELSE loc[t].own)
  <1>1. CASE loc[t].nested
    <2> DEFINE pc == IF ok THEN "sp_kernel" ELSE "sp_end"
    <2>1. pc \in Pcs
      BY PcMembers, Zenon
    <2> HIDE DEF pc
    <2> DEFINE l == [loc[t] EXCEPT !.pc = pc, !.nested = FALSE, !.ok = ok, !.mon = None,
            !.had = FALSE]
    <2>2. l \in Locals
      BY <2>1, ZenonT(100) DEF Locals
    <2>3. loc' = [loc EXCEPT ![t] = l]
      BY <1>1, Zenon DEF StopReturn, pc
    <2>4. /\ l.pc = pc /\ ~l.nested /\ l.own = loc[t].own /\ l.pod = loc[t].pod
          /\ l.ctr = loc[t].ctr /\ l.ip = loc[t].ip
      BY DEF Locals
    <2> HIDE DEF l
    <2>5. loc' \in [Thread -> Locals] /\ Others(t) /\ loc'[t] = l
      BY <2>2, <2>3, UpdateLocals, Zenon
    <2> QED
      BY <1>1, <2>4, <2>5, Zenon DEF pc
  <1>2. CASE ~loc[t].nested
    BY <1>2, ReturnLocals, Zenon DEF StopReturn
  <1> QED
    BY <1>1, <1>2, Zenon

\* beginContainerStopLocked claims a container that no thread is stopping.
LEMMA StopContainerClaims ==
  ASSUME EngineInv, NEW t \in Thread, NEW c \in Ctr, StopContainer(t, c),
         containerStop' = containerStop \cup {c}, CancelMonitor(c),
         monitors' = [monitors EXCEPT ![c] = None],
         loc' = [loc EXCEPT ![t].pc = "sc_wait", ![t].pod = CtrPod[c], ![t].ctr = c,
                            ![t].mon = monitors[c], ![t].had = monitors[c] # None]
  PROVE  EngineInv'
  <1> t \in Thread /\ loc \in [Thread -> Locals] /\ TypeOK /\ ScopeOf(t) /\ Scope
    BY Zenon DEF Thread, EngineInv, Types, Scope
  <1>1. loc' \in [Thread -> Locals] /\ Others(t)
    <2> DEFINE l == [loc[t] EXCEPT !.pc = "sc_wait", !.pod = CtrPod[c], !.ctr = c,
                                   !.mon = monitors[c], !.had = monitors[c] # None]
    <2>1. CtrPod[c] \in Pod /\ monitors[c] \in Mon \cup {None}
              /\ (monitors[c] # None) \in BOOLEAN
      BY EngineAssumption, SMTT(60) DEF TypeOK
    <2>2. l \in Locals
      BY <2>1, PcMembers, ZenonT(100) DEF Locals
    <2>3. loc' = [loc EXCEPT ![t] = l]
      BY Zenon
    <2> QED
      BY <2>2, <2>3, UpdateLocals, Zenon
  <1>2. TypeOK'
    <2>1. calls' \in 0 .. MaxCalls
      <3>1. UNCHANGED calls \/ (calls < MaxCalls /\ calls' = calls + 1)
        BY Zenon DEF StopContainer, Enter, NewCall
      <3>2. calls \in 0 .. MaxCalls /\ MaxCalls \in Nat
        BY EngineAssumption, ZenonT(60) DEF TypeOK
      <3> QED
        BY <3>1, <3>2
    <2>2. cancelled' \subseteq Mon
      BY ZenonT(60) DEF TypeOK, CancelMonitor
    <2> QED
      BY <2>1, <2>2, ZenonT(60) DEF StopContainer, TypeOK, tables, res, ext
  <1>3. /\ loc[t].pc \in {"idle", "sc_enter"} /\ loc'[t].pc = "sc_wait"
        /\ loc'[t].own = loc[t].own /\ loc'[t].ip = loc[t].ip
        /\ loc'[t].nested = loc[t].nested
        /\ loc'[t].pod = CtrPod[c] /\ loc'[t].ctr = c /\ CtrPod[c] \in Pod
        /\ (loc[t].nested => loc[t].pod = CtrPod[c])
        /\ (t \in Mon => loc[t].nested)
        /\ c \notin containerStop
        /\ UNCHANGED <<podState, podIP, kernels, podToContainer, podCleanup,
                        idsFree, ipsFree>>
    <2>1. /\ loc'[t].pc = "sc_wait" /\ loc'[t].own = loc[t].own
                /\ loc'[t].ip = loc[t].ip
          /\ loc'[t].nested = loc[t].nested /\ loc'[t].pod = CtrPod[c]
                /\ loc'[t].ctr = c
      BY DEF Locals
    <2>2. loc[t].pc = "idle" \/ (loc[t].pc = "sc_enter" /\ loc[t].ctr = c)
      BY ZenonT(60) DEF StopContainer, Enter, NewCall, CtrArg
    <2>3. loc[t].nested => loc[t].pod = CtrPod[c]
      BY <2>2, EngineAssumption, SMTT(60) DEF ScopeOf, NestedPcs, InCleanup
    <2>4. t \in Mon => loc[t].nested
      BY <2>2, ZenonT(60) DEF ScopeOf, MonPcs
    <2> QED
      BY <2>1, <2>2, <2>3, <2>4, EngineAssumption, SMTT(60) DEF StopContainer, tables,
         res
  <1>4. Scope'
    <2>1. ScopeOf(t)'
      BY <1>3, EngineAssumption, ZenonT(60) DEF ScopeOf, InCleanup, StopPcs, Pcs,
         MonPcs, RunPcs, CtrPcs, NestedPcs, Thread
    <2> QED
      BY <1>1, <2>1, ScopeFrame, ZenonT(60)
  <1>5. Linked'
    BY <1>3, ZenonT(60) DEF EngineInv, Linked
  <1>6. Claimed' /\ CleanupExclusive'
    <2>1. \A u \in Thread \ {t} :
            loc'[u] = loc[u] /\ (InCleanup(u)' <=> InCleanup(u))
                /\ (InStop(u)' <=> InStop(u))
      BY <1>1, ZenonT(60) DEF Others, InCleanup, InStop
    <2>2. InCleanup(t)' => InCleanup(t) /\ loc'[t].pod = loc[t].pod
      BY <1>3, ZenonT(60) DEF InCleanup
    <2>3. \A u \in Thread : InStop(u) => loc[u].ctr # c
      BY <1>3, SMTT(60) DEF EngineInv, Claimed
    <2>4. /\ InStop(t)' /\ loc'[t].ctr \in containerStop'
          /\ containerStop \subseteq containerStop' /\ loc'[t].ctr = c
          /\ podCleanup' = podCleanup
      BY <1>3 DEF InStop
    <2>5. Claimed'
      <3>1. ASSUME NEW u \in Thread, InCleanup(u)' PROVE loc'[u].pod \in podCleanup'
        <4>1. InCleanup(u) /\ loc'[u].pod = loc[u].pod
          BY <2>1, <2>2, <3>1, Zenon
        <4>2. loc[u].pod \in podCleanup
          BY <4>1, Zenon DEF EngineInv, Claimed
        <4> QED
          BY <2>4, <4>1, <4>2
      <3>2. ASSUME NEW u \in Thread, InStop(u)' PROVE loc'[u].ctr \in containerStop'
        <4>1. CASE u # t
          BY <2>1, <2>4, <3>2, <4>1, Zenon DEF EngineInv, Claimed
        <4> QED
          BY <2>4, <4>1, Zenon
      <3> QED
        BY <3>1, <3>2, Zenon DEF Claimed
    <2>6. CleanupExclusive'
      <3>1. ASSUME NEW u \in Thread, NEW v \in Thread, InCleanup(u)', InCleanup(v)',
                   loc'[u].pod = loc'[v].pod
            PROVE  u = v
        <4>1. /\ InCleanup(u) /\ loc'[u].pod = loc[u].pod
              /\ InCleanup(v) /\ loc'[v].pod = loc[v].pod
          BY <2>1, <2>2, <3>1, Zenon
        <4> QED
          BY <3>1, <4>1, Zenon DEF EngineInv, CleanupExclusive
      <3>2. ASSUME NEW u \in Thread, NEW v \in Thread, InStop(u)', InStop(v)',
                   loc'[u].ctr = loc'[v].ctr
            PROVE  u = v
        <4>1. CASE u # t /\ v # t
          BY <2>1, <3>2, <4>1, Zenon DEF EngineInv, CleanupExclusive
        <4>2. \A w \in Thread \ {t} : InStop(w)' => loc'[w].ctr # loc'[t].ctr
          BY <2>1, <2>3, <2>4, Zenon
        <4> QED
          BY <3>2, <4>1, <4>2, Zenon
      <3> QED
        BY <3>1, <3>2, Zenon DEF CleanupExclusive
    <2> QED
      BY <2>5, <2>6, Zenon
  <1>7. Fresh'
    BY <1>1, <1>3, FreshFrame, ZenonT(60) DEF EngineInv, InCleanup, InStop, ScopeOf,
       StopPcs, MonPcs, RunPcs, CtrPcs, NestedPcs
  <1>8. Born'
    <2>1. loc[t].pc \notin RunPcs /\ loc'[t].pc \notin RunPcs
      BY <1>3, ZenonT(60) DEF RunPcs
    <2>2. InCleanup(t)' => /\ InCleanup(t) /\ loc'[t].pod = loc[t].pod
              /\ loc'[t].ip = loc[t].ip
                          /\ loc[t].pc \notin {"sp_ip", "sp_end"}
      BY <1>3, ZenonT(60) DEF InCleanup
    <2>3. Born /\ Known /\ UNCHANGED <<podState, podIP, kernels>>
      BY <1>3, ZenonT(60) DEF EngineInv
    <2> QED
      BY <1>1, <2>1, <2>2, <2>3, BornFrame, ZenonT(60)
  <1>9. Known'
    <2>1. loc[t].pc \notin RunPcs /\ loc'[t].pc \notin RunPcs
      BY <1>3, Zenon DEF RunPcs
    <2>2. InCleanup(t)' => /\ InCleanup(t) /\ loc'[t].pod = loc[t].pod
              /\ loc'[t].ip = loc[t].ip
                          /\ loc[t].pc \notin {"sp_ip", "sp_end"}
      BY <1>3, Zenon DEF InCleanup
    <2>3. Born /\ Known /\ UNCHANGED <<podState, podIP, kernels>>
      BY <1>3, Zenon DEF EngineInv
    <2> QED
      BY <1>1, <2>1, <2>2, <2>3, KnownFrame, SMTT(60)
  <1>10. IpApart' /\ IpSomewhere'
    BY <1>1, <1>3, IpFrame, ZenonT(60) DEF EngineInv, HoldsIp, InCleanup, InStop,
       ScopeOf, StopPcs, MonPcs, RunPcs, CtrPcs, NestedPcs
  <1>11. IdApart' /\ IdSomewhere'
    BY <1>1, <1>3, IdFrame, ZenonT(60) DEF EngineInv, HoldsId, InCleanup, InStop,
       ScopeOf, StopPcs, MonPcs, RunPcs, CtrPcs, NestedPcs
  <1>12. NoStrayMonitor'
    BY <1>1, <1>3, StraySilenced, ZenonT(60) DEF EngineInv
  <1> QED
    BY <1>1, <1>2, <1>4, <1>5, <1>6, <1>7, <1>8, <1>9, <1>10, <1>11, <1>12
       DEF EngineInv, Types

LEMMA StopContainerKeeps ==
  ASSUME EngineInv, NEW t \in Thread, NEW c \in Ctr, StopContainer(t, c)
  PROVE  EngineInv'
  <1> loc \in [Thread -> Locals] /\ TypeOK /\ ScopeOf(t)
    BY Zenon DEF EngineInv, Types, Scope
  <1>1. CASE /\ StopReturn(t, containers[c] = "none")
             /\ UNCHANGED <<containerStop, monv>>
    <2> DEFINE ok == containers[c] = "none"
    <2>1. ok \in BOOLEAN /\ StopReturn(t, ok)
      BY <1>1, ZenonT(60)
    <2> HIDE DEF ok
    <2>2. /\ loc' \in [Thread -> Locals] /\ Others(t)
          /\ ~loc'[t].nested
          /\ loc[t].nested =>
               /\ loc'[t].pc \in {"sp_kernel", "sp_end"}
               /\ loc'[t].own = loc[t].own /\ loc'[t].pod = loc[t].pod
               /\ loc'[t].ctr = loc[t].ctr /\ loc'[t].ip = loc[t].ip
          /\ ~loc[t].nested =>
               /\ loc'[t].pc = (IF t \in Caller THEN "idle" ELSE "mn_after")
               /\ loc'[t].own = (IF t \in Caller THEN None ELSE loc[t].own)
      BY <2>1, StopReturnLocals, ZenonT(60)
    <2>3. TypeOK'
      <3>1. calls' \in 0 .. MaxCalls
        BY EngineAssumption, SMTT(60) DEF StopContainer, Enter, NewCall, TypeOK
      <3> QED
        BY <1>1, <3>1, ZenonT(60) DEF StopContainer, TypeOK, tables, monv, res, ext
    <2>4. /\ loc[t].pc \in {"idle", "sc_enter"}
          /\ UNCHANGED <<podState, podIP, kernels, podToContainer, locks, monv, res>>
      BY <1>1, ZenonT(60) DEF StopContainer, Enter, NewCall, tables, locks
    <2>5. ScopeOf(t)'
      BY <2>2, <2>4, EngineAssumption, ZenonT(60) DEF ScopeOf, InCleanup, StopPcs, Pcs,
         MonPcs, RunPcs, CtrPcs, NestedPcs, Thread
    <2>6. Quiet(t)
      BY <2>2, <2>4, EngineAssumption, ZenonT(60) DEF Quiet, ScopeOf, InCleanup, InStop,
         Pcs, MonPcs, RunPcs, CtrPcs, NestedPcs, StopPcs, Thread
    <2>7. Linked'
      BY <2>4, ZenonT(60) DEF EngineInv, Linked
    <2> QED
      BY <2>2, <2>3, <2>5, <2>6, <2>7, QuietKeeps, ZenonT(60) DEF Types
  <1>2. CASE /\ containerStop' = containerStop \cup {c}
             /\ CancelMonitor(c)
             /\ monitors' = [monitors EXCEPT ![c] = None]
             /\ loc' = [loc EXCEPT ![t].pc = "sc_wait", ![t].pod = CtrPod[c],
                   ![t].ctr = c,
                                   ![t].mon = monitors[c],
                                       ![t].had = monitors[c] # None]
    BY <1>2, StopContainerClaims, ZenonT(60)
  <1> QED
    BY <1>1, <1>2, ZenonT(60) DEF StopContainer

LEMMA StopContainerEndKeeps ==
  ASSUME EngineInv, NEW t \in Thread, StopContainerEnd(t)
  PROVE  EngineInv'
  <1> t \in Thread /\ loc \in [Thread -> Locals] /\ TypeOK /\ ScopeOf(t) /\ Scope
    BY Zenon DEF Thread, EngineInv, Types, Scope
  <1>1. loc' \in [Thread -> Locals] /\ Others(t)
    <2>1. CASE Goto(t, "ms_swap")
      BY <2>1, GotoLocals, PcMembers, ZenonT(60)
    <2>2. CASE StopReturn(t, loc[t].ok)
      <3>1. loc[t].ok \in BOOLEAN
        BY Zenon DEF Locals
      <3> QED
        BY <2>2, <3>1, StopReturnLocals, ZenonT(60)
    <2> QED
      BY <2>1, <2>2, ZenonT(60) DEF StopContainerEnd
  <1>2. TypeOK'
    BY Zenon DEF StopContainerEnd, TypeOK, tables, monv, res, ext
  <1>3. /\ loc[t].pc = "sc_end" /\ ~loc'[t].nested
        /\ (loc[t].nested =>
              /\ loc'[t].pc \in {"sp_kernel", "sp_end"}
              /\ loc'[t].own = loc[t].own /\ loc'[t].pod = loc[t].pod
              /\ loc'[t].ctr = loc[t].ctr /\ loc'[t].ip = loc[t].ip)
        /\ (~loc[t].nested =>
              /\ t \in Caller /\ loc'[t].pc \in {"idle", "ms_swap"}
              /\ (loc'[t].pc = "ms_swap" => loc'[t].ctr \in Ctr))
        /\ (t \in Mon => loc[t].nested)
        /\ containerStop' = containerStop \ {loc[t].ctr}
        /\ UNCHANGED <<podState, podIP, kernels, podToContainer, podCleanup,
                        monitors, cancelled, idsFree, ipsFree>>
    <2>1. /\ loc[t].pc = "sc_end" /\ loc[t].ctr \in Ctr /\ loc[t].ok \in BOOLEAN
          /\ containerStop' = containerStop \ {loc[t].ctr}
          /\ UNCHANGED <<podState, podIP, kernels, podToContainer, podCleanup,
                          monitors, cancelled, idsFree, ipsFree>>
      BY Zenon DEF StopContainerEnd, ScopeOf, CtrPcs, Locals, tables, monv, res
    <2>2. t \in Mon => loc[t].nested
      BY <2>1, ZenonT(60) DEF ScopeOf, StopPcs
    <2>3. ~loc[t].nested => t \in Caller
      BY <2>2, ZenonT(60) DEF Thread
    <2>4. CASE Goto(t, "ms_swap") /\ CtrPod[loc[t].ctr] \notin podCleanup
      <3>1. ~loc[t].nested
        <4>1. loc[t].nested => InCleanup(t) /\ loc[t].ctr # None
          BY <2>1, EngineAssumption, ZenonT(60) DEF InCleanup
        <4> QED
          BY <2>4, <4>1, ZenonT(60) DEF ScopeOf, EngineInv, Claimed
      <3>2. loc'[t] = [loc[t] EXCEPT !.pc = "ms_swap"]
        BY <2>4, GotoLocals, PcMembers, ZenonT(60)
      <3> QED
        BY <2>1, <2>2, <2>3, <3>1, <3>2, SMTT(60) DEF Locals
    <2>5. CASE StopReturn(t, loc[t].ok)
      BY <2>1, <2>2, <2>3, <2>5, StopReturnLocals, SMTT(60)
    <2> QED
      BY <2>4, <2>5, ZenonT(60) DEF StopContainerEnd
  <1>4. Scope'
    <2>1. ScopeOf(t)'
      BY <1>3, EngineAssumption, ZenonT(60) DEF ScopeOf, InCleanup, StopPcs, Pcs,
         MonPcs, RunPcs, CtrPcs, NestedPcs, Thread
    <2> QED
      BY <1>1, <2>1, ScopeFrame, ZenonT(60)
  <1>5. Linked'
    BY <1>3, ZenonT(60) DEF EngineInv, Linked
  <1>6. Claimed' /\ CleanupExclusive'
    <2>1. \A u \in Thread \ {t} :
            loc'[u] = loc[u] /\ (InCleanup(u)' <=> InCleanup(u))
                /\ (InStop(u)' <=> InStop(u))
      BY <1>1, ZenonT(60) DEF Others, InCleanup, InStop
    <2>2. /\ InCleanup(t)' => InCleanup(t) /\ loc'[t].pod = loc[t].pod
          /\ InStop(t) /\ ~InStop(t)'
      BY <1>3, ZenonT(60) DEF InCleanup, InStop
    <2>3. \A u \in Thread \ {t} : InStop(u) => loc[u].ctr # loc[t].ctr
      BY <2>2, ZenonT(60) DEF EngineInv, CleanupExclusive
    <2>4. Claimed'
      BY <1>3, <2>1, <2>2, <2>3, SMTT(60) DEF EngineInv, Claimed
    <2>5. CleanupExclusive'
      BY <2>1, <2>2, SMTT(60) DEF EngineInv, CleanupExclusive
    <2> QED
      BY <2>4, <2>5, ZenonT(60)
  <1>7. Fresh'
    BY <1>1, <1>3, FreshFrame, ZenonT(60) DEF EngineInv, InCleanup, InStop, ScopeOf,
       StopPcs, MonPcs, RunPcs, CtrPcs, NestedPcs
  <1>8. Born'
    BY <1>1, <1>3, BornFrame, ZenonT(60) DEF EngineInv, InCleanup, InStop, ScopeOf,
       StopPcs, MonPcs, RunPcs, CtrPcs, NestedPcs
  <1>9. Known'
    BY <1>1, <1>3, KnownFrame, ZenonT(60) DEF EngineInv, InCleanup, InStop, ScopeOf,
       StopPcs, MonPcs, RunPcs, CtrPcs, NestedPcs
  <1>10. IpApart' /\ IpSomewhere'
    BY <1>1, <1>3, IpFrame, ZenonT(60) DEF EngineInv, HoldsIp, InCleanup, InStop,
       ScopeOf, StopPcs, MonPcs, RunPcs, CtrPcs, NestedPcs
  <1>11. IdApart' /\ IdSomewhere'
    BY <1>1, <1>3, IdFrame, ZenonT(60) DEF EngineInv, HoldsId, InCleanup, InStop,
       ScopeOf, StopPcs, MonPcs, RunPcs, CtrPcs, NestedPcs
  <1>12. NoStrayMonitor'
    BY <1>1, <1>3, StrayFrame, SMTT(60) DEF EngineInv, InCleanup, InStop, ScopeOf,
       StopPcs, MonPcs, RunPcs, CtrPcs, NestedPcs
  <1> QED
    BY <1>1, <1>2, <1>4, <1>5, <1>6, <1>7, <1>8, <1>9, <1>10, <1>11, <1>12, ZenonT(60)
       DEF EngineInv, Types

LEMMA RemoveContainerFinalKeeps ==
  ASSUME EngineInv, NEW t \in Thread, RemoveContainerFinal(t)
  PROVE  EngineInv'
  <1> t \in Thread /\ loc \in [Thread -> Locals] /\ TypeOK /\ ScopeOf(t) /\ Scope
    BY Zenon DEF Thread, EngineInv, Types, Scope
  <1>1. loc' \in [Thread -> Locals] /\ Others(t)
    <2>1. CASE Goto(t, "rm_kernel")
      BY <2>1, GotoLocals, PcMembers, ZenonT(60)
    <2>2. CASE Return(t, TRUE)
      BY <2>2, ReturnLocals, ZenonT(60)
    <2> QED
      BY <2>1, <2>2, ZenonT(60) DEF RemoveContainerFinal, ForgetContainer, RemoveReturn
  <1>2. TypeOK'
    <2>1. loc[t].ctr \in Ctr
      BY Zenon DEF RemoveContainerFinal, ScopeOf, CtrPcs
    <2>2. monitors[loc[t].ctr] \in Mon \cup {None} /\ cancelled \subseteq Mon
      BY <2>1, ZenonT(60) DEF TypeOK
    <2>3. cancelled' \subseteq Mon
      BY <2>2, ZenonT(60) DEF RemoveContainerFinal, CancelMonitor
    <2> QED
      BY <2>3, ZenonT(60) DEF RemoveContainerFinal, ForgetContainer, TypeOK, locks, res,
         ext
  <1>3. /\ loc[t].pc = "rc_final" /\ t \notin Mon /\ loc[t].ctr \in Ctr
        /\ (loc[t].nested =>
              /\ loc'[t].pc = "rm_kernel" /\ loc'[t].nested
              /\ loc'[t].own = loc[t].own /\ loc'[t].pod = loc[t].pod
              /\ loc'[t].ctr = loc[t].ctr /\ loc'[t].ip = loc[t].ip)
        /\ (~loc[t].nested => loc'[t].pc = "idle" /\ ~loc'[t].nested)
        /\ CancelMonitor(loc[t].ctr)
        /\ monitors' = [monitors EXCEPT ![loc[t].ctr] = None]
        /\ podToContainer' = [podToContainer EXCEPT ![loc[t].pod] = None]
        /\ UNCHANGED <<podState, podIP, kernels, podCleanup, containerStop,
                        idsFree, ipsFree>>
    <2>1. loc[t].pc = "rc_final" /\ t \notin Mon /\ loc[t].ctr \in Ctr
      BY ZenonT(60) DEF RemoveContainerFinal, ScopeOf, CtrPcs, MonPcs
    <2>2. CASE loc[t].nested /\ Goto(t, "rm_kernel")
      <3>1. loc'[t] = [loc[t] EXCEPT !.pc = "rm_kernel"]
        BY <2>2, GotoLocals, PcMembers, ZenonT(60)
      <3>2. /\ loc'[t].pc = "rm_kernel" /\ loc'[t].nested = loc[t].nested
            /\ loc'[t].own = loc[t].own /\ loc'[t].pod = loc[t].pod
            /\ loc'[t].ctr = loc[t].ctr /\ loc'[t].ip = loc[t].ip
        BY <3>1 DEF Locals
      <3> QED
        BY <2>1, <2>2, <3>2, ZenonT(60) DEF RemoveContainerFinal, ForgetContainer,
           locks, res
    <2>3. CASE ~loc[t].nested /\ Return(t, TRUE)
      <3>1. loc'[t].pc = "idle" /\ ~loc'[t].nested
        BY <2>1, <2>3, ReturnLocals, ZenonT(60) DEF Thread
      <3> QED
        BY <2>1, <2>3, <3>1, ZenonT(60) DEF RemoveContainerFinal, ForgetContainer,
           locks, res
    <2> QED
      BY <2>2, <2>3, ZenonT(60) DEF RemoveContainerFinal, ForgetContainer, RemoveReturn
  <1>4. Scope'
    <2>1. ScopeOf(t)'
      BY <1>3, EngineAssumption, ZenonT(60) DEF ScopeOf, InCleanup, StopPcs, Pcs,
         MonPcs, RunPcs, CtrPcs, NestedPcs, Thread
    <2> QED
      BY <1>1, <2>1, ScopeFrame, Zenon
  <1>5. Linked'
    BY <1>3, ZenonT(60) DEF EngineInv, Linked, TypeOK
  <1>6. Claimed' /\ CleanupExclusive'
    BY <1>1, <1>3, ClaimFrame, ZenonT(60) DEF EngineInv, InCleanup, InStop
  <1>7. Fresh'
    BY <1>1, <1>3, FreshFrame, ZenonT(60) DEF EngineInv
  <1>8. Born'
    BY <1>1, <1>3, BornFrame, ZenonT(60) DEF EngineInv, InCleanup, RunPcs
  <1>9. Known'
    BY <1>1, <1>3, KnownFrame, ZenonT(60) DEF EngineInv, InCleanup
  <1>10. IpApart' /\ IpSomewhere'
    BY <1>1, <1>3, IpFrame, ZenonT(60) DEF EngineInv, HoldsIp
  <1>11. IdApart' /\ IdSomewhere'
    BY <1>1, <1>3, IdFrame, ZenonT(60) DEF EngineInv, HoldsId, RunPcs
  <1>12. NoStrayMonitor'
    BY <1>1, <1>3, StraySilenced, ZenonT(60) DEF EngineInv
  <1> QED
    BY <1>1, <1>2, <1>4, <1>5, <1>6, <1>7, <1>8, <1>9, <1>10, <1>11, <1>12, Zenon
       DEF EngineInv, Types

------------------------------------------------------------------------------
(* The monitors.                                                           *)

LEMMA MonitorFinishKeeps ==
  ASSUME EngineInv, NEW m \in Mon, MonitorFinish(m)
  PROVE  EngineInv'
  <1> m \in Thread /\ loc \in [Thread -> Locals] /\ TypeOK /\ ScopeOf(m) /\ Scope
    BY Zenon DEF Thread, EngineInv, Types, Scope
  <1>1. loc' \in [Thread -> Locals] /\ Others(m)
    <2>1. AtRest("off", None) \in Locals
      BY RestLocals, PcMembers, ZenonT(60)
    <2> QED
      BY <2>1, UpdateLocals, ZenonT(60) DEF MonitorFinish
  <1>2. TypeOK'
    <2>1. loc[m].own \in Ctr
      BY ZenonT(60) DEF MonitorFinish, ScopeOf
    <2>2. monitors' \in [Ctr -> Mon \cup {None}]
      BY <2>1, ZenonT(60) DEF MonitorFinish, TypeOK
    <2> QED
      BY <2>2, ZenonT(60) DEF MonitorFinish, TypeOK, tables, locks, res, ext
  <1>3. /\ loc[m].pc = "mn_finish" /\ loc[m].own \in Ctr
        /\ loc'[m].pc = "off" /\ ~loc'[m].nested /\ ~loc[m].nested
        /\ monitors' = [monitors EXCEPT ![loc[m].own] =
                          IF monitors[loc[m].own] = m THEN None ELSE monitors[loc[m].own]]
        /\ UNCHANGED <<podState, podIP, kernels, podToContainer, podCleanup,
                        containerStop, cancelled, idsFree, ipsFree>>
    <2>1. loc'[m] = AtRest("off", None)
      BY ZenonT(60) DEF MonitorFinish
    <2>2. loc[m].pc = "mn_finish" /\ loc[m].own \in Ctr /\ ~loc[m].nested
      BY ZenonT(60) DEF MonitorFinish, ScopeOf, NestedPcs
    <2> QED
      BY <2>1, <2>2, SMTT(60) DEF MonitorFinish, AtRest, TypeOK, tables, locks, res
  <1>4. Scope'
    <2>1. ScopeOf(m)'
      BY <1>3, EngineAssumption, ZenonT(60) DEF ScopeOf, InCleanup, StopPcs, Pcs,
         MonPcs, RunPcs, CtrPcs, NestedPcs, Thread
    <2> QED
      BY <1>1, <2>1, ScopeFrame, ZenonT(60)
  <1>5. Linked'
    BY <1>3, ZenonT(60) DEF EngineInv, Linked
  <1>6. Claimed' /\ CleanupExclusive'
    BY <1>1, <1>3, ClaimFrame, ZenonT(60) DEF EngineInv, InCleanup, InStop, ScopeOf,
       StopPcs, MonPcs, RunPcs, CtrPcs, NestedPcs
  <1>7. Fresh'
    BY <1>1, <1>3, FreshFrame, ZenonT(60) DEF EngineInv
  <1>8. Born'
    BY <1>1, <1>3, BornFrame, ZenonT(60) DEF EngineInv, InCleanup, RunPcs
  <1>9. Known'
    BY <1>1, <1>3, KnownFrame, ZenonT(60) DEF EngineInv, InCleanup
  <1>10. IpApart' /\ IpSomewhere'
    BY <1>1, <1>3, IpFrame, ZenonT(60) DEF EngineInv, HoldsIp, InCleanup, InStop,
       ScopeOf, StopPcs, MonPcs, RunPcs, CtrPcs, NestedPcs
  <1>11. IdApart' /\ IdSomewhere'
    BY <1>1, <1>3, IdFrame, ZenonT(60) DEF EngineInv, HoldsId, InCleanup, InStop,
       ScopeOf, StopPcs, MonPcs, RunPcs, CtrPcs, NestedPcs
  <1>12. NoStrayMonitor'
    <2> SUFFICES ASSUME NEW x \in Mon, loc'[x].pc # "off", x \notin cancelled'
                 PROVE  monitors'[loc'[x].own] = x
      BY Zenon DEF NoStrayMonitor
    <2>1. x # m /\ x \in Thread /\ loc'[x] = loc[x]
      BY <1>1, <1>3, ZenonT(60) DEF Others, Thread
    <2>2. monitors[loc[x].own] = x /\ loc[x].own \in Ctr
      BY <1>3, <2>1, ZenonT(60) DEF EngineInv, NoStrayMonitor, Scope, ScopeOf
    <2> QED
      BY <1>3, <2>1, <2>2, ZenonT(60) DEF TypeOK
  <1> QED
    BY <1>1, <1>2, <1>4, <1>5, <1>6, <1>7, <1>8, <1>9, <1>10, <1>11, <1>12, SMTT(60)
       DEF EngineInv, Types

\* Thread t has no claim, no address and no peer id.
NoRole(t) ==
  loc[t].pc \notin RunPcs \cup {"sp_ip"} /\ ~InCleanup(t) /\ ~InStop(t)

\* A step that changes no thread's part in a cleanup, a stop or a RunPod keeps
\* what the invariant says of claims, pods, addresses and peer ids.
LEMMA RolesKept ==
  ASSUME UNCHANGED <<podState, podIP, kernels, podCleanup, containerStop, idsFree,
                     ipsFree>>,
         \A u \in Thread : /\ InCleanup(u)' <=> InCleanup(u)
                           /\ InStop(u)' <=> InStop(u)
                           /\ loc'[u].pc \in RunPcs <=> loc[u].pc \in RunPcs
                           /\ HoldsIp(u)' <=> HoldsIp(u)
                           /\ HoldsId(u)' <=> HoldsId(u),
         \A u \in Thread : InCleanup(u) \/ InStop(u) \/ loc[u].pc \in RunPcs
                             \/ HoldsIp(u) \/ HoldsId(u)
                           => loc'[u] = loc[u],
         Claimed, CleanupExclusive, Born, Known, IpApart, IpSomewhere, IdApart,
         IdSomewhere
  PROVE  /\ Claimed' /\ CleanupExclusive' /\ Born' /\ Known'
         /\ IpApart' /\ IpSomewhere' /\ IdApart' /\ IdSomewhere'
  <1>1. Claimed'
    BY Zenon DEF Claimed
  <1>2. CleanupExclusive'
    BY SMTT(60) DEF CleanupExclusive
  <1>3. Born'
    BY SMTT(60) DEF Born
  <1>4. Known'
    BY Zenon DEF Known
  <1>5. IpApart'
    BY ZenonT(60) DEF IpApart
  <1>6. IpSomewhere'
    BY ZenonT(60) DEF IpSomewhere
  <1>7. IdApart'
    BY SMTT(60) DEF IdApart
  <1>8. IdSomewhere'
    BY ZenonT(60) DEF IdSomewhere
  <1> QED
    BY <1>1, <1>2, <1>3, <1>4, <1>5, <1>6, <1>7, <1>8, Zenon

\* Two threads move and neither has anything the others could want.
LEMMA TwoMove ==
  ASSUME EngineInv, NEW t \in Thread, NEW m \in Thread,
         \A u \in Thread \ {t, m} : loc'[u] = loc[u],
         UNCHANGED <<podState, podIP, kernels, podToContainer, podCleanup,
                     containerStop, idsFree, ipsFree>>,
         NoRole(t), NoRole(t)', NoRole(m), NoRole(m)',
         Types', ScopeOf(t)', ScopeOf(m)', Fresh', NoStrayMonitor'
  PROVE  EngineInv'
  <1>1. \A u \in Thread : /\ InCleanup(u)' <=> InCleanup(u)
                          /\ InStop(u)' <=> InStop(u)
                          /\ loc'[u].pc \in RunPcs <=> loc[u].pc \in RunPcs
                          /\ HoldsIp(u)' <=> HoldsIp(u)
                          /\ HoldsId(u)' <=> HoldsId(u)
    BY DEF NoRole, InCleanup, InStop, HoldsIp, HoldsId, RunPcs
  <1>2. \A u \in Thread : InCleanup(u) \/ InStop(u) \/ loc[u].pc \in RunPcs
            \/ HoldsIp(u) \/ HoldsId(u)
                          => loc'[u] = loc[u]
    BY Zenon DEF NoRole, HoldsIp, HoldsId, RunPcs
  <1>3. Scope'
    <2>1. ASSUME NEW u \in Thread \ {t, m} PROVE ScopeOf(u)'
      <3>1. loc'[u] = loc[u] /\ ScopeOf(u)
        BY Zenon DEF EngineInv, Scope
      <3>2. InCleanup(u)' <=> InCleanup(u)
        BY <3>1, Zenon DEF InCleanup
      <3> QED
        BY <3>1, <3>2, ZenonT(60) DEF ScopeOf
    <2> QED
      BY <2>1, ZenonT(60) DEF Scope
  <1>4. Linked'
    BY ZenonT(60) DEF EngineInv, Linked
  <1>5. /\ Claimed' /\ CleanupExclusive' /\ Born' /\ Known'
        /\ IpApart' /\ IpSomewhere' /\ IdApart' /\ IdSomewhere'
    <2>1. /\ Claimed /\ CleanupExclusive /\ Born /\ Known
          /\ IpApart /\ IpSomewhere /\ IdApart /\ IdSomewhere
      BY Zenon DEF EngineInv
    <2> QED
      BY <1>1, <1>2, <2>1, RolesKept, ZenonT(60)
  <1> QED
    BY <1>3, <1>4, <1>5, Zenon DEF EngineInv

LEMMA SwapMonitorKeeps ==
  ASSUME EngineInv, NEW t \in Thread, SwapMonitor(t)
  PROVE  EngineInv'
  <1> DEFINE c == loc[t].ctr
  <1> loc \in [Thread -> Locals] /\ TypeOK /\ ScopeOf(t) /\ Scope
    BY ZenonT(60) DEF EngineInv, Types, Scope
  <1>1. PICK m \in Mon :
          /\ Unused(m)
          /\ monitors' = [monitors EXCEPT ![c] = m]
          /\ cancelled' = (cancelled \cup ({monitors[c]} \ {None})) \ {m}
          /\ loc' = [loc EXCEPT ![t].pc = "ms_wait", ![t].mon = monitors[c],
                                ![t].new = m, ![m] = AtRest("ready", c)]
    BY ZenonT(60) DEF SwapMonitor
  <1>2. /\ loc[t].pc = "ms_swap" /\ t \notin Mon /\ m # t /\ m \in Thread /\ m # None
        /\ loc[m].pc = "off" /\ c \in Ctr /\ monitors[c] \in Mon \cup {None}
        /\ ~loc[t].nested /\ ~loc[m].nested
    <2>1. loc[t].pc = "ms_swap" /\ loc[m].pc = "off" /\ m \in Thread
      BY <1>1, ZenonT(60) DEF SwapMonitor, Unused, Thread
    <2>2. t \notin Mon /\ c \in Ctr /\ ~loc[t].nested
      BY <2>1, ZenonT(60) DEF ScopeOf, MonPcs, CtrPcs, NestedPcs
    <2>3. ~loc[m].nested
      BY <2>1, ZenonT(60) DEF Scope, ScopeOf, NestedPcs
    <2> QED
      BY <2>1, <2>2, <2>3, EngineAssumption, SMTT(60) DEF TypeOK
  <1> DEFINE l == [loc[t] EXCEPT !.pc = "ms_wait", !.mon = monitors[c], !.new = m]
  <1>3. l \in Locals /\ AtRest("ready", c) \in Locals
    <2>1. AtRest("ready", c) \in Locals
      BY <1>2, RestLocals, PcMembers, ZenonT(60)
    <2>2. loc[t] \in Locals /\ monitors[c] \in Mon \cup {None} /\ m \in Mon \cup {None}
      BY <1>2, ZenonT(60)
    <2>3. l \in Locals
      BY <2>2, PcMembers, ZenonT(60) DEF Locals
    <2> QED
      BY <2>1, <2>3, SMTT(60)
  <1>4. l.pc = "ms_wait" /\ l.new = m /\ l.ctr = c /\ l.nested = loc[t].nested
    BY DEF Locals
  <1>5. loc' = [loc EXCEPT ![t] = l, ![m] = AtRest("ready", c)]
    BY <1>1, Zenon
  <1> HIDE DEF l
  <1>6. /\ loc' \in [Thread -> Locals] /\ loc'[t] = l /\ loc'[m] = AtRest("ready", c)
        /\ \A u \in Thread \ {t, m} : loc'[u] = loc[u]
    BY <1>2, <1>3, <1>5, Zenon
  <1>7. /\ loc'[t].pc = "ms_wait" /\ loc'[t].new = m /\ loc'[t].ctr = c
              /\ ~loc'[t].nested
        /\ loc'[m].pc = "ready" /\ loc'[m].own = c /\ ~loc'[m].nested
    BY <1>2, <1>4, <1>6, SMTT(60) DEF AtRest
  <1>8. TypeOK'
    BY <1>1, <1>2, SMTT(60) DEF SwapMonitor, TypeOK, tables, locks, res, ext
  <1>9. ScopeOf(t)' /\ ScopeOf(m)'
    BY <1>2, <1>7, ZenonT(60) DEF ScopeOf, InCleanup, StopPcs, MonPcs, RunPcs, CtrPcs
  <1>10. NoRole(t) /\ NoRole(t)' /\ NoRole(m) /\ NoRole(m)'
    BY <1>2, <1>7, SMTT(60) DEF NoRole, InCleanup, InStop, RunPcs
  <1>11. Fresh'
    <2>1. \A u \in Thread \ {t, m} : loc[u].pc = "ms_wait" =>
            /\ loc[u].new \in Mon /\ loc[loc[u].new].pc = "ready"
            /\ loc[u].new \notin {t, m} /\ loc[u].new \in Thread
      BY <1>2, ZenonT(60) DEF EngineInv, Fresh, Thread
    <2>2. \A u \in Thread : loc'[u].pc = "ms_wait" => u = t \/ u \in Thread \ {t, m}
      BY <1>7, SMTT(60)
    <2>3. \A u \in Thread : loc'[u].pc = "ms_wait" =>
            loc'[u].new \in Mon /\ loc'[loc'[u].new].pc = "ready"
      BY <1>6, <1>7, <2>1, <2>2, SMTT(60)
    <2>4. \A u, x \in Thread :
            loc'[u].pc = "ms_wait" /\ loc'[x].pc = "ms_wait"
                /\ loc'[u].new = loc'[x].new => u = x
      BY <1>6, <1>7, <2>1, SMTT(60) DEF EngineInv, Fresh
    <2> QED
      BY <2>3, <2>4, SMTT(60) DEF Fresh
  <1>12. NoStrayMonitor'
    <2> SUFFICES ASSUME NEW x \in Mon, loc'[x].pc # "off", x \notin cancelled'
                 PROVE  monitors'[loc'[x].own] = x
      BY ZenonT(60) DEF NoStrayMonitor
    <2>1. CASE x = m
      BY <1>1, <1>2, <1>7, <2>1, ZenonT(60) DEF TypeOK
    <2>2. CASE x # m
      <3>1. x \in Thread \ {t, m} /\ x # None /\ loc'[x] = loc[x]
        BY <1>2, <1>6, <2>2, EngineAssumption, SMTT(60) DEF Thread
      <3>2. x \notin cancelled /\ x # monitors[c]
        BY <1>1, <2>2, <3>1, SMTT(60)
      <3>3. monitors[loc[x].own] = x /\ loc[x].own \in Ctr
        BY <3>1, <3>2, ZenonT(60) DEF EngineInv, NoStrayMonitor, Scope, ScopeOf
      <3> QED
        BY <1>1, <3>1, <3>2, <3>3, SMTT(60) DEF TypeOK
    <2> QED
      BY <2>1, <2>2, ZenonT(60)
  <1>13. UNCHANGED <<podState, podIP, kernels, podToContainer, podCleanup,
             containerStop,
                     idsFree, ipsFree>>
    BY ZenonT(60) DEF SwapMonitor, tables, locks, res
  <1> QED
    BY <1>6, <1>8, <1>9, <1>10, <1>11, <1>12, <1>13, TwoMove, ZenonT(60) DEF Types

LEMMA LaunchMonitorKeeps ==
  ASSUME EngineInv, NEW t \in Thread, LaunchMonitor(t)
  PROVE  EngineInv'
  <1> loc \in [Thread -> Locals] /\ TypeOK /\ ScopeOf(t) /\ Scope
    BY Zenon DEF EngineInv, Types, Scope
  <1>0. PICK m : m = loc[t].new
    BY ZenonT(60)
  <1>1. /\ loc[t].pc = "ms_wait" /\ m \in Mon /\ m \in Thread /\ loc[m].pc = "ready"
        /\ loc' = [loc EXCEPT ![t] = AtRest("idle", None), ![m].pc = "mn_log"]
    BY <1>0, ZenonT(60) DEF LaunchMonitor, EngineInv, Fresh, Thread
  <1>2. /\ t \notin Mon /\ m # t /\ loc[m].own \in Ctr /\ ~loc[t].nested
              /\ ~loc[m].nested
    <2>1. t \notin Mon /\ ~loc[t].nested
      BY <1>1, ZenonT(60) DEF ScopeOf, MonPcs, NestedPcs
    <2>2. loc[m].own \in Ctr /\ ~loc[m].nested
      BY <1>1, ZenonT(60) DEF Scope, ScopeOf, NestedPcs
    <2> QED
      BY <1>1, <2>1, <2>2, SMTT(60)
  <1> DEFINE l == [loc[m] EXCEPT !.pc = "mn_log"]
  <1>3. loc[m] \in Locals
    BY <1>1, SMTT(60)
  <1>4. l \in Locals /\ AtRest("idle", None) \in Locals
    BY <1>3, RestLocals, PcMembers, SMTT(60) DEF Locals
  <1>5. l.pc = "mn_log" /\ l.own = loc[m].own /\ l.nested = loc[m].nested
    BY <1>3, ZenonT(60) DEF Locals
  <1>6. loc' = [loc EXCEPT ![t] = AtRest("idle", None), ![m] = l]
    BY <1>1, <1>2, ZenonT(60)
  <1> HIDE DEF l
  <1>7. /\ loc' \in [Thread -> Locals] /\ loc'[m] = l /\ loc'[t] = AtRest("idle", None)
        /\ \A u \in Thread \ {t, m} : loc'[u] = loc[u]
    BY <1>1, <1>2, <1>4, <1>6, SMTT(60)
  <1>8. /\ loc'[t].pc = "idle" /\ ~loc'[t].nested
        /\ loc'[m].pc = "mn_log" /\ loc'[m].own = loc[m].own /\ ~loc'[m].nested
    BY <1>2, <1>5, <1>7, SMTT(60) DEF AtRest
  <1>9. TypeOK'
    BY ZenonT(60) DEF LaunchMonitor, TypeOK, tables, locks, monv, res, ext
  <1>10. ScopeOf(t)' /\ ScopeOf(m)'
    BY <1>2, <1>8, ZenonT(60) DEF ScopeOf, InCleanup, StopPcs, MonPcs, RunPcs, CtrPcs,
       NestedPcs
  <1>11. NoRole(t) /\ NoRole(t)' /\ NoRole(m) /\ NoRole(m)'
    BY <1>1, <1>2, <1>8, SMTT(60) DEF NoRole, InCleanup, InStop, RunPcs
  <1>12. Fresh'
    <2>1. \A u \in Thread \ {t, m} : loc[u].pc = "ms_wait" =>
            /\ loc[u].new \in Mon /\ loc[loc[u].new].pc = "ready"
            /\ loc[u].new \notin {t, m} /\ loc[u].new \in Thread
      BY <1>0, <1>1, ZenonT(60) DEF EngineInv, Fresh, Thread
    <2>2. \A u \in Thread : loc'[u].pc = "ms_wait" => u \in Thread \ {t, m}
      BY <1>8, ZenonT(60)
    <2>3. \A u \in Thread : loc'[u].pc = "ms_wait" =>
            loc'[u].new \in Mon /\ loc'[loc'[u].new].pc = "ready"
      BY <1>7, <2>1, <2>2, SMTT(60)
    <2>4. \A u, x \in Thread :
            loc'[u].pc = "ms_wait" /\ loc'[x].pc = "ms_wait"
                /\ loc'[u].new = loc'[x].new => u = x
      BY <1>7, <2>2, SMTT(60) DEF EngineInv, Fresh
    <2> QED
      BY <2>3, <2>4, SMTT(60) DEF Fresh
  <1>13. NoStrayMonitor'
    <2> SUFFICES ASSUME NEW x \in Mon, loc'[x].pc # "off", x \notin cancelled'
                 PROVE  monitors'[loc'[x].own] = x
      BY ZenonT(60) DEF NoStrayMonitor
    <2>1. x \in Thread /\ x # t /\ loc'[x].own = loc[x].own /\ loc[x].pc # "off"
      BY <1>1, <1>2, <1>7, <1>8, SMTT(60) DEF Thread
    <2> QED
      BY <2>1, SMTT(60) DEF EngineInv, NoStrayMonitor, LaunchMonitor, monv
  <1>14. UNCHANGED <<podState, podIP, kernels, podToContainer, podCleanup,
             containerStop,
                     idsFree, ipsFree>>
    BY ZenonT(60) DEF LaunchMonitor, tables, locks, res
  <1> QED
    BY <1>1, <1>7, <1>9, <1>10, <1>11, <1>12, <1>13, <1>14, TwoMove, SMTT(60) DEF Types

\* The guests change, or nothing does.
LEMMA NothingMoves ==
  ASSUME EngineInv, TypeOK', UNCHANGED <<podState, podIP, kernels, podToContainer,
         locks, monv, res, loc>>
  PROVE  EngineInv'
  <1>1. Types' /\ Scope' /\ Linked'
    BY ZenonT(60) DEF EngineInv, Types, Scope, ScopeOf, InCleanup, Linked
  <1>2. Fresh' /\ Claimed' /\ CleanupExclusive'
    BY ZenonT(60) DEF EngineInv, Fresh, Claimed, CleanupExclusive, InCleanup, InStop,
       locks
  <1>3. Born' /\ Known'
    BY ZenonT(60) DEF EngineInv, Born, Known, InCleanup
  <1>4. IpApart' /\ IpSomewhere'
    BY ZenonT(60) DEF EngineInv, IpApart, IpSomewhere, HoldsIp, res
  <1>5. IdApart' /\ IdSomewhere'
    BY ZenonT(60) DEF EngineInv, IdApart, IdSomewhere, HoldsId, res
  <1>6. NoStrayMonitor'
    BY ZenonT(60) DEF EngineInv, NoStrayMonitor, monv
  <1> QED
    BY <1>1, <1>2, <1>3, <1>4, <1>5, <1>6, SMTT(60) DEF EngineInv

LEMMA GuestExitKeeps ==
  ASSUME EngineInv, NEW c \in Ctr, GuestExit(c)
  PROVE  EngineInv'
  <1>1. TypeOK'
    BY ZenonT(60) DEF EngineInv, Types, TypeOK, GuestExit, tables, locks, monv, res
  <1> QED
    BY <1>1, NothingMoves, ZenonT(60) DEF GuestExit, tables

------------------------------------------------------------------------------
(* The theorems.                                                           *)

LEMMA PodStepKeeps ==
  ASSUME EngineInv, NEW t \in Thread, PodStep(t)
  PROVE  EngineInv'
  BY RunPodStartKeeps, RunPodReadyKeeps, RunPodRegisterKeeps, StopPodCheckKeeps,
     StopPodKernelKeeps, StopPodFinalKeeps, ReleaseIPKeeps, EndPodCleanupKeeps,
     RemovePodKernelKeeps, RemovePodFinalKeeps, SMTT(60) DEF PodStep

LEMMA ContainerStepKeeps ==
  ASSUME EngineInv, NEW t \in Thread, ContainerStep(t)
  PROVE  EngineInv'
  BY CreateContainerRemoteKeeps, CreateContainerRegisterKeeps,
     StartContainerRemoteKeeps, StartContainerApplyKeeps, SwapMonitorKeeps,
     LaunchMonitorKeeps, StopContainerWaitKeeps, StopContainerRemoteKeeps,
     StopContainerApplyKeeps, StopContainerEndKeeps, RemoveContainerRemoteKeeps,
     RemoveContainerFinalKeeps, RemoveContainerOrphanKeeps, RefreshRemoteKeeps,
     RefreshApplyKeeps, SMTT(60) DEF ContainerStep

LEMMA MonitorStepKeeps ==
  ASSUME EngineInv, NEW m \in Mon, MonitorStep(m)
  PROVE  EngineInv'
  BY MonitorLogKeeps, MonitorLogApplyKeeps, MonitorDecideKeeps, MonitorTickKeeps,
     MonitorCleanupKeeps, MonitorStopPodKeeps, MonitorAfterStopKeeps,
     MonitorFinishKeeps, SMTT(60) DEF MonitorStep

\* The invariant holds at the start.
LEMMA InitEngine == Init => EngineInv
  <1> SUFFICES ASSUME Init PROVE EngineInv
    BY ZenonT(60)
  <1>1. \A t \in Thread : /\ loc[t].pc \in {"idle", "off"} /\ ~loc[t].nested
                          /\ t \in Mon => loc[t].pc = "off"
    BY EngineAssumption, ZenonT(60) DEF Init, AtRest, Thread
  <1>2. loc \in [Thread -> Locals]
    <2>1. AtRest("idle", None) \in Locals /\ AtRest("off", None) \in Locals
      BY RestLocals, PcMembers, SMTT(60)
    <2> QED
      BY <2>1, ZenonT(60) DEF Init
  <1>3. TypeOK
    BY EngineAssumption, SMTT(60) DEF Init, TypeOK
  <1>4. Scope
    BY <1>1, SMTT(60) DEF Scope, ScopeOf, InCleanup, MonPcs, StopPcs, CtrPcs, RunPcs
  <1>5. Linked /\ Fresh
    BY <1>1, SMTT(60) DEF Init, Linked, Fresh
  <1>6. \A t \in Thread : ~InCleanup(t) /\ ~InStop(t) /\ loc[t].pc \notin RunPcs
                          /\ ~HoldsIp(t) /\ ~HoldsId(t)
    BY <1>1, SMTT(60) DEF InCleanup, InStop, RunPcs, HoldsIp, HoldsId
  <1>7. Claimed /\ CleanupExclusive /\ Born /\ Known
    BY <1>6, SMTT(60) DEF Init, Claimed, CleanupExclusive, Born, Known
  <1>8. IpApart /\ IpSomewhere /\ IdApart /\ IdSomewhere
    BY <1>6, EngineAssumption, ZenonT(60) DEF Init, IpApart, IpSomewhere, IdApart,
       IdSomewhere
  <1>9. NoStrayMonitor
    BY <1>1, ZenonT(60) DEF NoStrayMonitor, Thread
  <1> QED
    BY <1>2, <1>3, <1>4, <1>5, <1>7, <1>8, <1>9, SMTT(60) DEF EngineInv, Types

\* Every step keeps it.
LEMMA NextEngine == EngineInv /\ [Next]_vars => EngineInv'
  <1> SUFFICES ASSUME EngineInv, [Next]_vars PROVE EngineInv'
    BY Zenon
  <1>1. CASE UNCHANGED vars
    <2>1. TypeOK'
      BY <1>1, ZenonT(60) DEF EngineInv, Types, TypeOK, vars, tables, locks, monv, res,
         ext
    <2> QED
      BY <1>1, <2>1, NothingMoves, SMTT(60) DEF vars, tables
  <1>2. ASSUME NEW t \in Thread, NEW p \in Pod, PodCall(t, p)
        PROVE  EngineInv'
    BY <1>2, RunPodKeeps, StopPodKeeps, RemovePodKeeps, SMTT(60) DEF PodCall
  <1>3. ASSUME NEW t \in Thread, NEW c \in Ctr, ContainerCall(t, c)
        PROVE  EngineInv'
    BY <1>3, CreateContainerKeeps, StartContainerKeeps, StopContainerKeeps,
       RemoveContainerKeeps, RefreshContainerStatusKeeps, SMTT(60) DEF ContainerCall
  <1> QED
    BY <1>1, <1>2, <1>3, PodStepKeeps, ContainerStepKeeps, MonitorStepKeeps,
       GuestExitKeeps, SMTT(60) DEF Next

\* What the locks of the Engine keep true in every reachable state: the claim
\* sets cover the threads inside, a pod belongs to one RunPod until it is
\* registered, a cleanup holds the address of its pod, and an address, a peer
\* id and a registered monitor have one owner.
THEOREM EngineInvariance == Spec => []EngineInv
  BY InitEngine, NextEngine, PTL DEF Spec

\* The tables, the claim sets, the allocators and the guests keep their types
\* through every handler and every monitor.
THEOREM EngineTypes == Spec => []TypeOK
  <1>1. EngineInv => TypeOK
    BY SMTT(60) DEF EngineInv, Types
  <1> QED
    BY <1>1, EngineInvariance, PTL

\* beginPodCleanupLocked and beginContainerStopLocked let one thread at a time
\* clean up a pod and stop a container, whether an RPC or a monitor asks.
THEOREM EngineExclusive == Spec => []CleanupExclusive
  <1>1. EngineInv => CleanupExclusive
    BY SMTT(60) DEF EngineInv
  <1> QED
    BY <1>1, EngineInvariance, PTL

\* Two sets that are not both empty nor both inhabited, with at most one member.
LEMMA OneOf ==
  ASSUME NEW P, NEW T, \A p, q \in P : p = q, \A t, u \in T : t = u,
         P = {} \/ T = {}, P # {} \/ T # {}
  PROVE  \E x \in P \cup T : P \cup T = {x}
  <1>1. CASE P = {}
    <2>1. PICK x \in T : TRUE
      BY <1>1, Zenon
    <2>2. P \cup T = {x}
      BY <1>1, <2>1, Zenon
    <2> QED
      BY <2>2, Zenon
  <1>2. CASE T = {}
    <2>1. PICK x \in P : TRUE
      BY <1>2, Zenon
    <2>2. P \cup T = {x}
      BY <1>2, <2>1, Zenon
    <2> QED
      BY <2>2, Zenon
  <1> QED
    BY <1>1, <1>2, Zenon

\* No interleaving or failure of RunPod, StopPod and RemovePod loses a pod IP
\* or gives one to two pods.
THEOREM EngineAddresses == Spec => []IpConserved
  <1>1. EngineInv => IpConserved
    <2> SUFFICES ASSUME EngineInv, NEW i \in Ip PROVE IpConserved!(i)
      BY Zenon DEF IpConserved
    <2> DEFINE P == {p \in Pod : podIP[p] = i}
               T == {t \in Thread : /\ loc[t].pc \in {"rp_register", "sp_ip"}
                                    /\ loc[t].ip = i}
    <2>1. \A t \in Thread : t \in T <=> HoldsIp(t) /\ loc[t].ip = i
      BY EngineAssumption, ZenonT(60) DEF HoldsIp
    <2>2. CASE i \in ipsFree
      <3>1. P \cup T = {}
        BY <2>1, <2>2 DEF EngineInv, IpApart
      <3> QED
        BY <2>2, <3>1, Zenon
    <2>3. CASE i \notin ipsFree
      <3>1. \A p, q \in P : p = q
        BY EngineAssumption, Zenon DEF EngineInv, IpApart
      <3>2. \A t, u \in T : t = u
        BY <2>1, ZenonT(60) DEF EngineInv, IpApart
      <3>3. P = {} \/ T = {}
        BY <2>1, SMTT(60) DEF EngineInv, IpApart
      <3>4. P # {} \/ T # {}
        BY <2>1, <2>3, ZenonT(60) DEF EngineInv, IpSomewhere
      <3>5. \E x \in P \cup T : P \cup T = {x}
        BY <3>1, <3>2, <3>3, <3>4, OneOf, Zenon
      <3>6. \E x \in Pod \cup Thread : P \cup T = {x}
        BY <3>5, Zenon
      <3> QED
        BY <2>3, <3>6, Zenon
    <2> QED
      BY <2>2, <2>3, Zenon
  <1> QED
    BY <1>1, EngineInvariance, PTL

\* The same for the peer kernel ids: every id is free, or of one kernel object,
\* in the table or in the hands of the RunPod that creates it.
THEOREM EnginePeerIds == Spec => []PeerIdConserved
  <1>1. EngineInv => PeerIdConserved
    <2> SUFFICES ASSUME EngineInv, NEW i \in PeerId PROVE PeerIdConserved!(i)
      BY Zenon DEF PeerIdConserved
    <2> DEFINE P == {p \in Pod : kernels[p] = i}
               T == {t \in Thread : /\ loc[t].pc \in {"rp_start", "rp_ready", "rp_register"}
                                    /\ loc[t].kern = i}
    <2>1. \A t \in Thread : t \in T <=> HoldsId(t) /\ loc[t].kern = i
      BY DEF HoldsId, RunPcs
    <2>2. CASE i \in idsFree
      <3>1. P \cup T = {}
        BY <2>1, <2>2, SMTT(60) DEF EngineInv, IdApart
      <3> QED
        BY <2>2, <3>1, Zenon
    <2>3. CASE i \notin idsFree
      <3>1. \A p, q \in P : p = q
        BY EngineAssumption, Zenon DEF EngineInv, IdApart
      <3>2. \A t, u \in T : t = u
        BY <2>1, ZenonT(60) DEF EngineInv, IdApart
      <3>3. P = {} \/ T = {}
        BY <2>1, SMTT(60) DEF EngineInv, IdApart
      <3>4. P # {} \/ T # {}
        BY <2>1, <2>3, ZenonT(60) DEF EngineInv, IdSomewhere
      <3>5. \E x \in P \cup T : P \cup T = {x}
        BY <3>1, <3>2, <3>3, <3>4, OneOf, Zenon
      <3>6. \E x \in Pod \cup Thread : P \cup T = {x}
        BY <3>5, Zenon
      <3> QED
        BY <2>3, <3>6, Zenon
    <2> QED
      BY <2>2, <2>3, Zenon
  <1> QED
    BY <1>1, EngineInvariance, PTL

\* A monitor that StopContainer, RemoveContainer or a newer monitor has not
\* cancelled is the registered one of its container, so that cancelling the
\* registered monitor silences them all.
THEOREM EngineMonitors == Spec => []NoStrayMonitor
  <1>1. EngineInv => NoStrayMonitor
    BY Zenon DEF EngineInv
  <1> QED
    BY <1>1, EngineInvariance, PTL
==============================================================================
