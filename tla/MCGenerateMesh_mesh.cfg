\* Three relays and the six zones drawn from, two exits.
SPECIFICATION Spec
CONSTANTS
  z1 = z1
  z2 = z2
  z3 = z3
  z4 = z4
  z5 = z5
  z6 = z6
  Zones = {z1, z2, z3, z4, z5, z6}
  zone_1 = z1
  num_relays = 3
  num_exits = 2
SYMMETRY ZoneSymmetry
INVARIANT TypeOK
INVARIANT DepthsAreDistances
INVARIANT MainMeshIsReachable
INVARIANT ExitsAreFurthest
INVARIANT DeclaresEveryZone
CHECK_DEADLOCK FALSE
