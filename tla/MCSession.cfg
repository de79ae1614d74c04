SPECIFICATION FairSpec
CONSTANTS
  Connections = {c1, c2}
  Feeds = {t1}
  MaxRequests = 3
INVARIANTS
  TypeOK
  NoLiveOrderOnReplayFills
  LiveNeedsPermission
  LiveOnlyIfAsked
PROPERTIES
  RequestsServed
