CONSTANTS
  Calls = {c1, c2, c3}
  NoCall = NoCall
  RAW = RAW
  CON = CON
  CLIENT_TYPE = CLIENT_TYPE
  Sequences <- ThreeSequences
  ClientTypes = CLIENT_TYPE
  Batches <- BothOrders
  Defaults = 2
SPECIFICATION FairSpec
CHECK_DEADLOCK FALSE
INVARIANTS
  NoNumberTwice
  NothingIsSkipped
  SeededOnce
PROPERTIES
  NumbersInOrder
  EveryCallEnds
