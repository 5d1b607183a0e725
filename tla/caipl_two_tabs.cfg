SPECIFICATION CaiplSpec
CONSTANTS
  Tabs = {tab1, tab2}
  Decisions = {d1}
  MaxVersion = 4
  MaxWrites = 2
CHECK_DEADLOCK FALSE
INVARIANTS
  StaleNeverApplied
