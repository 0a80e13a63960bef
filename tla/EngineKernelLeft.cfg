SPECIFICATION Spec
CONSTANTS
  p1 = p1
  p2 = p2
  c1 = c1
  c2 = c2
  a = a
  b = b
  m1 = m1
  m2 = m2
  k1 = k1
  k2 = k2
  i1 = i1
  i2 = i2
  Pod = {p1}
  Ctr = {c1}
  CtrPod <- AllOnFirstPod
  Caller = {a}
  Mon = {m1, m2}
  PeerId = {k1}
  Ip = {i1}
  Ops <- CleanupOps
  StartViaRun = TRUE
  Faults = FALSE
  MaxCalls = 4
  None = None
INVARIANTS
  StoppedPodHasNoKernel
CHECK_DEADLOCK FALSE
