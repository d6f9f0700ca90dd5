CONSTANTS
  Iter = {1, 2}
  Root = Root
  None = None
  MaxVersion = 2
  MaxChanges = 1
  MaxBacklog = 4
  Extras = {"direct", "deferred", "any_order"}
  Configs <- Engines
SPECIFICATION Spec
INVARIANTS TypeOK BuffersReleased StepProtocol
CHECK_DEADLOCK FALSE
