SPECIFICATION FairSpec
CONSTANTS
  N = 2
  W = 4
  MaxSends = 5
  NotifyMayFail = TRUE
INVARIANTS
  TypeOK
  IInv
  CreditsExact
  CopiesNextMessage
  BitmapAgrees
PROPERTIES
  DrainedAfterIpi
  RetriedSendSucceeds
  NoOverwrite
  ImplementsChannel
CHECK_DEADLOCK FALSE
