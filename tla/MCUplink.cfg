\* One unit of the clock is the 5 ms between two datagrams of a burst.
SPECIFICATION Spec
CONSTANTS
  f1 = f1
  f2 = f2
  Frames = {f1, f2}
  g1 = g1
  g2 = g2
  Gateways = {g1, g2}
  UDP_COPIES = 3
  CACHE_TTL = 4
  MAX_DELAY = 1
  MAX_CLOCK = 7
INVARIANT TypeOK
INVARIANT BurstShownOnce
PROPERTY HiddenOnlyAfterShown
CHECK_DEADLOCK FALSE
