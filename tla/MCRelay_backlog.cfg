\* One unit of the clock is 500 ms; five victims transmit.
SPECIFICATION PromptSpec
CONSTANTS
  f1 = f1
  f2 = f2
  f3 = f3
  f4 = f4
  f5 = f5
  Frames = {f1, f2, f3, f4, f5}
  GpsFrames = {}
  NoFrame = NoFrame
  m1 = m1
  Macs = {m1}
  CACHE_SIZE = 5
  CACHE_TTL_MS = 4
  MAX_TRACKED_MACS = 2
  UINT32 = 1000
  ArrivingTtls = {3}
  Jitters = {0}
  REDUNDANCY = 2
  BROADCAST_BURST = 1
  UDP_COPIES = 1
  WifiAfterSetup = {"off"}
  MAX_CLOCK = 4
  LAST_ARRIVAL = 4
SYMMETRY RelaySymmetry
PROPERTY NoSilentLoss
