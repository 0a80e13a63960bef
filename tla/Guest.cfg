SPECIFICATION MCSpec
CONSTANTS
  MaxLives = 2
  MaxOut = 1
  None = None
  Session = {"s1", "s2"}
  Fds = 2
  MaxStarts = 2
  ThreadFaults = 1
  LineBuf = 2
  OutLen = 5
  ErrLen = 1
INVARIANTS
  StopMeansStopped
  RemoveIsComplete
  NoFalseExit
  EofMeansAll
  TerminalsHeld
  OwnTerminal
  LogFaithful
PROPERTIES
  ExitReported
  ClosedStays
  ExitAnnounced
CHECK_DEADLOCK FALSE
