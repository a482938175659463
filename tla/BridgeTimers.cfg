SPECIFICATION Spec
CONSTANTS
  Requested <- MCRequested
  FirstRemainders <- MCRemainders
INVARIANTS
  TypeOK
  TimesInRelation
  ClockKeepsTime
