SPECIFICATION Spec
CONSTANTS
  Ports = {1, 2}
  HoldTime = 1
  AgeIncrement = 1
  InitialId = 2
  InitialTimes <- MCFastTimes
  Spans = {1}
  FirstElapsed = {1}
  Off = Off
  ConfigBpdus <- MCFastBpdus
  OtherBpdus <- MCOtherBpdus
  PathCosts = {1}
  NewIds = {}
  NewTimes = {}
  Managed = {}
  Ages = {0}
INVARIANT
  RootPortExists
