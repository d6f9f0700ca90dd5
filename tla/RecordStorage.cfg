CONSTANTS
  Comp = {1, 2}
  MaxExtent = 2
  MaxChanges = 2
  None = None
  Torn = Torn
  Modes <- AllModes
  Existing <- Representatives
  MaxFailures = 2
  MaxBacklog = 3
SPECIFICATION Spec
INVARIANTS TypeOK LoadsSeeStores FlushIsDurable NothingTornForGood NeverBlocked
PROPERTIES KeepsStore
CHECK_DEADLOCK FALSE
