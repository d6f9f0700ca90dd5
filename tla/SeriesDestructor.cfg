CONSTANTS
  Iter = {1, 2}
  MaxVersion = 2
  None = None
  MaxChanges = 0
  MaxFailures = 0
  MaxBacklog = 4
  Modes = {"CREATE"}
  Backends = {"HDF5"}
  Extras = {}
SPECIFICATION Spec
INVARIANT DestructorDoesNotThrow
CHECK_DEADLOCK FALSE
