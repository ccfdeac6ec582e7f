CONSTANTS
  a1 = a1
  a2 = a2
  a3 = a3
  Trackers = {a1,a2}
  Peers = {p1}
  Torrents = {t1}
  TextHashes = {t1}
  Literal = {a1,a2}
  Lossy = FALSE
  Savers = {}
  Passive = {}
  MaxBoots <- TwoBoots
  Key <- OneKey
  Contacts <- OneSided
SPECIFICATION ClaimsSpec

CHECK_DEADLOCK FALSE
INVARIANTS SurvivorAnswers
