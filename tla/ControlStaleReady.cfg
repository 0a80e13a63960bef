SPECIFICATION Spec
CONSTANTS
  c1 = c1
  c2 = c2
  Call = {c1, c2}
  Cap = 1
  MaxArgv = 1
  MaxFaults = 1
  Rc = {"0", "EEXIST"}
  None = None
INVARIANT
  WaitReadyMeansReady
CHECK_DEADLOCK FALSE
