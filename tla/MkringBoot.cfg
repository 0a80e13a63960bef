SPECIFICATION Spec
CONSTANTS
  Word = 1048576
  Kernel = {0, 1, 2}
  Lines <- MCLines
  Stale <- MCStale
  MaxSends = 2
  MaxStops = 1
  NoHeader = NoHeader
  None = None
INVARIANTS
  TypeOK
  ConfigsAgree
  CompatibleBootSucceeds
  NoGhostPeer
  BacklogWithinRing
  QueuesApart
PROPERTIES
  NoReinit
CHECK_DEADLOCK FALSE
