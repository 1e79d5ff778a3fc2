\* A relay or a gateway whose access point comes and goes, its tasks scheduled
\* freely; fewer slots than frames, and less room for addresses than neighbours.
\* A gateway's datagrams, which change nothing these properties speak of, are left out.
SPECIFICATION CountedSpec
CONSTANTS
  f1 = f1
  f2 = f2
  f3 = f3
  Frames = {f1, f2, f3}
  GpsFrames = {f1, f2, f3}
  NoFrame = NoFrame
  m1 = m1
  m2 = m2
  m3 = m3
  Macs = {m1, m2, m3}
  CACHE_SIZE = 2
  CACHE_TTL_MS = 2
  MAX_TRACKED_MACS = 2
  UINT32 = 1000
  ArrivingTtls = {1, 3}
  Jitters = {1}
  REDUNDANCY = 2
  BROADCAST_BURST = 1
  UDP_COPIES = 0
  WifiAfterSetup = {"connected", "off"}
  MAX_CLOCK = 2
  LAST_ARRIVAL = 2
SYMMETRY RelaySymmetry
INVARIANT TypeOK
INVARIANT OneEntryPerFrame
INVARIANT CountsDistinctSenders
INVARIANT CountsNeighboursHeard
INVARIANT TransmitsOneHopLess
PROPERTY AcceptOncePerLifetime
PROPERTY AcceptsWhateverCameFirst
PROPERTY EvictsOldestWhenFull
