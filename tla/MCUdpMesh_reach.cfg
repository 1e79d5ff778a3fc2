\* Two ways to the exit, one a detour, and nothing is lost.
SPECIFICATION ReliableSpec
CONSTANTS
  f1 = f1
  r1 = r1
  r2 = r2
  r3 = r3
  exit = exit
  z1 = z1
  z2 = z2
  z3 = z3
  Frames = {f1}
  GpsFrames = {f1}
  NoFrame = NoFrame
  HASHES = 2
  LAST_ROW = 1
  Relays = {r1, r2, r3}
  Exits = {exit}
  Zones = {z1, z2, z3}
  VICTIM_ZONE = z1
  TTL = 4
  BRD_LIFETIME = 1
  Networks <- Triangle
PROPERTY RelaysOnce
PROPERTY ReachesEveryExit
CHECK_DEADLOCK FALSE
