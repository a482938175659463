SPECIFICATION FairSwitchSpec
CONSTANTS
  Ports = {1, 2}
  HoldTime = 1
  AgeIncrement = 1
  InitialId = 2
  InitialTimes <- MCTimes
  Spans = {1}
  FirstElapsed = {0}
  Off = Off
  ConfigBpdus <- MCRootBpdu
  OtherBpdus <- MCTcn
  PathCosts = {1}
  NewIds = {}
  NewTimes = {}
  Managed = {}
  Ages = {0}
  Sinks = {s1, s2}
  Macs = {m1}
  Group = Group
  Nowhere = Nowhere
  NoFrame = NoFrame
  MacTicks = 2
INVARIANTS
  SwitchTypeOK
  EntriesLive
  NoChangeMissed
  StaleEntriesFlushed
PROPERTIES
  SilentForgotten
  ImplementsLearningSwitch
