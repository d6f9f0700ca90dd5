CONSTANTS
  Iter = {1, 2}
  MaxVersion = 2
  None = None
  MaxChanges = 1
  MaxFailures = 0
  MaxBacklog = 4
  Modes = {"CREATE"}
  Backends = {"HDF5"}
  Extras = {"empty_record"}
SPECIFICATION Spec
INVARIANT NoForeignFile
CHECK_DEADLOCK FALSE
