CONSTANTS
  a1 = a1
  a2 = a2
  a3 = a3
  Trackers = {a1}
  Peers = {p1}
  Torrents = {t1}
  TextHashes = {}
  Literal = {a1}
  Lossy = FALSE
  Savers = {a1}
  Passive = {}
  MaxBoots <- TwoBoots
  Key <- OneKey
  Contacts <- OneSided
SPECIFICATION ClaimsSpec

CHECK_DEADLOCK FALSE
PROPERTIES LoadRestoresSave
