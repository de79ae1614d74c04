SPECIFICATION Spec
CONSTANTS
  Connections = {c1}
  Feeds = {t1}
  MaxRequests = 3
PROPERTY
  StartsRefusedAfterReplay
