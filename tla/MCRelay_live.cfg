\* One unit of the clock is 500 ms; it goes on long enough for what is queued.
SPECIFICATION FairSpec
CONSTANTS
  f1 = f1
  f2 = f2
  Frames = {f1, f2}
  GpsFrames = {f1}
  NoFrame = NoFrame
  m1 = m1
  m2 = m2
  Macs = {m1, m2}
  CACHE_SIZE = 2
  CACHE_TTL_MS = 4
  MAX_TRACKED_MACS = 2
  UINT32 = 1000
  ArrivingTtls = {1, 3}
  Jitters = {0, 1}
  REDUNDANCY = 2
  BROADCAST_BURST = 1
  UDP_COPIES = 1
  WifiAfterSetup = {"connected"}
  MAX_CLOCK = 7
  LAST_ARRIVAL = 1
PROPERTY ReturnsToScanning
PROPERTY QueueDrains
PROPERTY ImplementsLifecycle
PROPERTY BurstIsBounded
