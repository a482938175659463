SPECIFICATION Spec
CONSTANTS
  Ports = {1, 2}
  HoldTime = 1
  AgeIncrement = 1
  InitialId = 2
  InitialTimes <- MCTimes
  Spans = {2}
  FirstElapsed = {2}
  Off = Off
  ConfigBpdus <- MCConfigBpdus
  OtherBpdus <- MCOtherBpdus
  PathCosts = {1}
  NewIds = {}
  NewTimes = {}
  Managed = {}
  Ages = {0}
INVARIANTS
  TypeOK
  RootAgreement
  PortAgreement
  RoleAgreement
  HeardInfoAges
  ForwardDelayRuns
  OwedByDesignated
  RootSpeaks
  ChangeCarried
  AnnouncementEnds
  SentByRole
PROPERTIES
  DelayServed
