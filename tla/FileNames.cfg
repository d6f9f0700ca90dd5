CONSTANTS
  Indices = {5, 10, 100}
  MaxDigits = 3
  Paddings = {0, 1, 2, 3}
  MaxSessions = 4
SPECIFICATION Spec
INVARIANTS TypeOK KnownFilesExist NothingMissed
PROPERTY SafeExtension
CHECK_DEADLOCK FALSE
