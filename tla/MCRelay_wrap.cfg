\* One unit of the clock is 500 ms; its low word wraps after 6 of them.
SPECIFICATION PromptSpec
CONSTANTS
  f1 = f1
  f2 = f2
  Frames = {f1, f2}
  GpsFrames = {f1}
  NoFrame = NoFrame
  m1 = m1
  Macs = {m1}
  CACHE_SIZE = 2
  CACHE_TTL_MS = 4
  MAX_TRACKED_MACS = 2
  UINT32 = 6
  ArrivingTtls = {3}
  Jitters = {1}
  REDUNDANCY = 2
  BROADCAST_BURST = 1
  UDP_COPIES = 1
  WifiAfterSetup = {"off"}
  MAX_CLOCK = 6
  LAST_ARRIVAL = 6
PROPERTY AcceptOncePerLifetime
