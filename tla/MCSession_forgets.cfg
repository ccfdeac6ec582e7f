CONSTANTS
  A = A
  B = B
  pA = pA
  pA2 = pA2
  pB1 = pB1
  pB2 = pB2
  t1 = t1
  h = h
  o0 = o0
  o1 = o1
  o2 = o2
  s1 = s1
  a1 = a1
  Trackers = {a1}
  Peers = {pA, pA2, pB1, pB2}
  Torrents = {t1, h}
  TextHashes = {t1}
  Literal = {a1}
  Lossy = FALSE
  Savers = {}
  Passive = {}
  MaxBoots <- TwoBoots
  Key <- OneKey
  Contacts <- NoContacts
  HashLen = 2
  PieceLength = 3
  Lengths <- FileLengths
  Machines = {A, B}
  Shells <- Both
  tk = a1
  Stored <- StoredIds
  Fresh <- RandomIds
  InitFiles <- InitialFiles
  Hollow = {h}
  OldHashes = {o0, o1, o2, s1}
  JsonKey <- Garbled
  ZeroHash = ZeroHash
  Missing = Missing
  NoId = NoId
SYMMETRY Random
SPECIFICATION SessionSpec

CHECK_DEADLOCK FALSE
PROPERTIES EveryTorrentKept
