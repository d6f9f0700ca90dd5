CONSTANTS
  Rank = 2
  MaxExtent = 3
  Sizes = {0, 1, 2, 3, 5}
SPECIFICATION Spec
INVARIANTS TypeOK TableIsExact NothingToMerge SlicesTile
