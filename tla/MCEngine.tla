------------------------------- MODULE MCEngine -------------------------------
(***************************************************************************)
(* TLC instances of Engine.                                                *)
(***************************************************************************)
EXTENDS Engine, TLC

CONSTANTS p1, p2, c1, c2, a, b, m1, m2, k1, k2, i1, i2

\* Every container belongs to the first pod.
AllOnFirstPod == [c \in Ctr |-> p1]

\* Callers and monitors are interchangeable, and so are addresses and ids.
Interchangeable ==
  Permutations(Caller) \cup Permutations(Mon) \cup Permutations(PeerId)
    \cup Permutations(Ip)

PodOps == {"RunPod", "StopPod", "RemovePod", "CreateContainer",
           "RemoveContainer"}
MonitorOps == {"RunPod", "CreateContainer", "StartContainer", "StopContainer",
               "StopPod", "RefreshContainerStatus"}
CleanupOps == {"RunPod", "CreateContainer", "StartContainer", "StopContainer"}
==============================================================================
