\* One unit of the clock is 500 ms; fewer slots than frames.
SPECIFICATION PromptSpec
CONSTANTS
  f1 = f1
  f2 = f2
  f3 = f3
  Frames = {f1, f2, f3}
  GpsFrames = {}
  NoFrame = NoFrame
  m1 = m1
  Macs = {m1}
  CACHE_SIZE = 2
  CACHE_TTL_MS = 4
  MAX_TRACKED_MACS = 2
  UINT32 = 1000
  ArrivingTtls = {3}
  Jitters = {0, 1}
  REDUNDANCY = 2
  BROADCAST_BURST = 1
  UDP_COPIES = 1
  WifiAfterSetup = {"off"}
  MAX_CLOCK = 6
  LAST_ARRIVAL = 6
SYMMETRY RelaySymmetry
PROPERTY MarksWhatWasAired
