CONSTANTS
  Iter = {1, 2}
  MaxVersion = 2
  None = None
  MaxChanges = 2
  MaxFailures = 0
  MaxBacklog = 4
  Modes = {"CREATE"}
  Backends = {"HDF5"}
  Extras = {"group_attribute"}
SPECIFICATION Spec
INVARIANT FlushSavesGroups
CHECK_DEADLOCK FALSE
