CONSTANTS
  Iter = {1, 2}
  Root = Root
  None = None
  MaxVersion = 2
  MaxChanges = 2
  MaxBacklog = 3
  Extras = {}
  Configs <- Engines
SPECIFICATION FairStreamSpec
INVARIANTS PublishedAtomically ReaderProtocol SeesAll NothingForgotten
PROPERTIES InOrderDelivery LoopEnds
CHECK_DEADLOCK FALSE
