CONSTANTS
  Workers = {w1}
  Honest = {w1}
  Length = 5
  PieceLength = 2
  RespCap = 8
  Uint = 16
SPECIFICATION FairSpec
CHECK_DEADLOCK FALSE
PROPERTIES DownloadReturns
