\* One unit of the clock is 250 ms: two bursts of the victim.
SPECIFICATION FairSpec
CONSTANTS
  TTL = 3
  MINUTE = 240
  AIRING = 2
  PAUSE = 18
  TIME_OFFSET = 1
  CACHE_SIZE = 1
  CACHE_TTL_MS = 8
  MAX_TRACKED_MACS = 2
  UINT32 = 1000
  Jitters = {0, 1}
  REDUNDANCY = 2
  BROADCAST_BURST = 2
  MAX_CLOCK = 30
INVARIANT TypeOK
INVARIANT SomebodyRelays
PROPERTY AcceptOncePerBurst
PROPERTY EveryBurstIsNew
PROPERTY NodesKeepTheirSpecs
PROPERTY RelaysKeepUnsent
PROPERTY AcceptedIsRelayed
CHECK_DEADLOCK FALSE
