\* More signatures than rows: relays forget what they have passed on.
\* The mesh stops when the victims are done, so a deadlock is no error.
SPECIFICATION FairSpec
CONSTANTS
  f1 = f1
  f2 = f2
  r1 = r1
  r2 = r2
  r3 = r3
  exit = exit
  z1 = z1
  z2 = z2
  z3 = z3
  Frames = {f1, f2}
  GpsFrames = {f1}
  NoFrame = NoFrame
  HASHES = 1
  LAST_ROW = 0
  Relays = {r1, r2}
  Exits = {}
  Zones = {z1, z2, z3}
  VICTIM_ZONE = z1
  TTL = 3
  BRD_LIFETIME = 1
  Networks <- Line
INVARIANT TypeOK
INVARIANT TtlCountsHops
PROPERTY FloodDiesOut
CHECK_DEADLOCK FALSE
