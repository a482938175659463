SPECIFICATION FairSpec
CONSTANTS
  Ports = {1, 2}
  HoldTime = 1
  AgeIncrement = 1
  InitialId = 2
  InitialTimes <- MCFastTimes
  Spans = {1}
  FirstElapsed <- MCFirstElapsed
  Off = Off
  ConfigBpdus <- MCFastBpdus
  OtherBpdus <- MCOtherBpdus
  PathCosts = {1}
  NewIds = {0}
  NewTimes <- MCNewTimes
  Managed = {}
  Ages = {0}
PROPERTIES
  SilenceRestoresRoot
  UnblockedForwards
