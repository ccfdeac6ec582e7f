CONSTANTS
  Ours = {d1, d2}
  Others = {x}
  Pieces = {0, 1}
  NumBlocks = 4
  MaxBlocks = 3
  MaxQueue = 2
SPECIFICATION FairSpec
CHECK_DEADLOCK FALSE
INVARIANTS TypeOK AwaitedOnTheWay BlocksInOrder
PROPERTIES ServedPeerFinishes
