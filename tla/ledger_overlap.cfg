SPECIFICATION Spec
CONSTANTS
  order = order
  broken = broken
  wip = wip
  decision = decision
  NoEvent = NoEvent
  NumSources = 2
  Keyed = {2}
  Events = {order, broken, wip, decision}
  Source <- TheSource
  Malformed = {broken}
  Costing = {wip}
  Posted = {wip}
  Polls = {p1, p2}
  BatchSize = 2
  MaxTime = 3
  MaxCrashes = 0
  DistinctTimes = TRUE
  Serial = FALSE
  CanThrow = TRUE
CHECK_DEADLOCK FALSE
INVARIANTS
  NoEventSkipped
  WipEventsPosted
SYMMETRY PollSymmetry
