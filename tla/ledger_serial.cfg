SPECIFICATION FairSpec
CONSTANTS
  order = order
  broken = broken
  wip = wip
  decision = decision
  NoEvent = NoEvent
  NumSources = 2
  Keyed = {2}
  Events = {order, broken, wip, decision}
  Source <- TheSource
  Malformed = {broken}
  Costing = {wip}
  Posted = {wip}
  Polls = {p1}
  BatchSize = 2
  MaxTime = 3
  MaxCrashes = 1
  DistinctTimes = TRUE
  Serial = TRUE
  CanThrow = FALSE
CHECK_DEADLOCK FALSE
INVARIANTS
  ReadyMeansCaughtUp
  BuriedOnce
PROPERTIES
  CursorsAdvance
  AllIngested
