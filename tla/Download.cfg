CONSTANTS
  Workers = {w1, w2}
  Honest = {w1}
  Length = 5
  PieceLength = 2
  RespCap = 8
  Uint = 16
SPECIFICATION FairSpec
CHECK_DEADLOCK FALSE
INVARIANTS TypeOK TasksConserved AlonePieceOnce AloneAccounts DiesAfterLastPiece ClosedWhenCounted
PROPERTIES OwnedPiecesArrive
