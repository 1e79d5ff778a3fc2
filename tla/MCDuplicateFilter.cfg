\* Two signatures more than rows: the cursor wraps and rows are overwritten.
SPECIFICATION Spec
CONSTANTS
  f1 = f1
  f2 = f2
  f3 = f3
  f4 = f4
  f5 = f5
  f6 = f6
  Frames = {f1, f2, f3, f4, f5, f6}
  GpsFrames = {}
  NoFrame = NoFrame
  HASHES = 4
  LAST_ROW = 3
INVARIANT TypeOK
PROPERTY ImplementsRecentHashes
