CONSTANTS
  Iter = {1, 2}
  MaxVersion = 2
  None = None
  Modes = {"CREATE"}
  Backends = {"HDF5"}
  MaxChanges = 1
  MaxBacklog = 5
  MaxFailures = 1
  Extras = {"empty_record"}
SPECIFICATION Spec
INVARIANTS
  NoAccessAfterClose
  ClosedIsWritten
PROPERTY ClosedForever
CHECK_DEADLOCK FALSE
