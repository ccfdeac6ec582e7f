\* A small network of DHT nodes: joins, announces, downloads.
SPECIFICATION FairSpec
CONSTANTS
  B = 6
  W = 3
  Addresses <- MCNodes
  Values <- MCNodes
  Keys <- MCKeys
  SepKeys = {}
  Id <- MCId
  ALPHA = 2
  K = 1
  Calls <- MCCalls
  Contacts <- MCContacts
  Held <- MCHeld
  Requests <- MCRequests
  Refreshed <- MCRefreshed
  Bootstrap = 1
  MaxTid = 6
  Sweepers = {1}
  Ticking <- MCTicking
  Together = {}
  MaxReuse = 0
  Mortal = {2}
  Unplugged = {2}
INVARIANTS TypeOK StoreAgrees CountedRoundIsOver RefreshStaysNear
PROPERTIES RoundsGetCloser CallsReturn
CHECK_DEADLOCK FALSE
