CONSTANTS
  Ours = {d1, d2}
  Others = {}
  Pieces = {0}
  NumBlocks = 2
  MaxBlocks = 2
  MaxQueue = 2
SPECIFICATION FairSpec
CHECK_DEADLOCK FALSE
PROPERTIES NextPeerAccepted
