CONSTANTS
  Iter = {1, 2}
  MaxVersion = 2
  None = None
  MaxChanges = 1
  MaxFailures = 0
  MaxBacklog = 0
  Modes = {"READ_ONLY", "READ_WRITE", "CREATE"}
  Backends = {"JSON", "HDF5"}
  Extras = {"group_attribute"}
SPECIFICATION Spec
INVARIANTS
  TypeOK
  TaskFindsItsFile
  NoLostUpdate
  ClosedIsDurable
  FlushSavesIterations
PROPERTIES
  KeepsPromise
  CallReturns
  StaysClosed
CHECK_DEADLOCK FALSE
