SPECIFICATION FairSpec
CONSTANTS
  Ports = {1, 2, 3}
  HoldTime = 256
  AgeIncrement = 1
  Off = Off
  Ages = {0}
  DefaultCost = 100
  DefaultTimes <- MCTimes
  Span = 768
  Joined <- MCTriangle
  Leaving <- MCLeaving
  Orders <- MCRootFirst
  MaxFaults = 1
INVARIANT NoLoop
PROPERTIES
  Settles
  ChangeSpreads
