SPECIFICATION Spec
CONSTANTS
  Ports = {1, 2}
  HoldTime = 1
  AgeIncrement = 1
  InitialId = 2
  InitialTimes <- MCFastTimes
  Spans = {1}
  FirstElapsed = {0, 1}
  Off = Off
  ConfigBpdus <- MCRootBpdu
  OtherBpdus <- MCOtherBpdus
  PathCosts = {1, 2}
  NewIds = {}
  NewTimes = {}
  Managed = {2}
  Ages = {0}
INVARIANTS
  PortAgreement
  RoleAgreement
