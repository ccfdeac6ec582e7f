\* Two calls at a time: downloads of two keys, or a download and an announce.
SPECIFICATION Spec
CONSTANTS
  B = 6
  W = 3
  Addresses <- MCNodes
  Values <- MCNodes
  Keys <- MCKeys
  SepKeys = {}
  Id <- MCId
  ALPHA = 1
  K = 1
  Calls <- MCCalls
  Contacts <- MCContacts
  Held <- MCHeld
  Requests <- MCRequests
  Refreshed = {}
  Bootstrap = 1
  MaxTid = 6
  Sweepers = {}
  Ticking = {}
  Together = {"download", "announce"}
  MaxReuse = 1
  Mortal = {}
  Unplugged = {}
INVARIANTS PeersWereAnnounced
CHECK_DEADLOCK FALSE
