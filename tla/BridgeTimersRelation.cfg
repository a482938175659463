SPECIFICATION Spec
CONSTANTS
  Requested <- MCRequested
  FirstRemainders = {0}
INVARIANT
  ForwardDelayRelation
