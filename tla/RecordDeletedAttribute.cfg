CONSTANTS
  Comp = {1, 2}
  MaxExtent = 2
  MaxChanges = 2
  None = None
  Torn = Torn
  Modes <- JSONWriting
  Existing <- Representatives
  MaxFailures = 0
  MaxBacklog = 4
SPECIFICATION Spec
INVARIANTS DeletedAttributesAreGone
CHECK_DEADLOCK FALSE
