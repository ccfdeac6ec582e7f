CONSTANTS
  a1 = a1
  a2 = a2
  a3 = a3
  Trackers = {a1,a2}
  Peers = {p1,p2}
  Torrents = {t1}
  TextHashes = {t1}
  Literal = {a1,a2}
  Lossy = TRUE
  Savers = {a1}
  Passive = {p2}
  MaxBoots <- RestartA1
  Key <- OneKey
  Contacts <- OneSided
SPECIFICATION Spec

CHECK_DEADLOCK FALSE
PROPERTIES ImplementsRegistry FrozenIsMute SaveIsSnapshot StoppedStays
