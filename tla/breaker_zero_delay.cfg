SPECIFICATION FairSpec
CONSTANTS
  Handlers = {h1}
  TripAbove = 2
  ResetBelow = 1
  MinOpens = {0}
  HalfLives = {1}
  MaxLag = 3
  NaN = NaN
  MaxOpen = 2
  Samples = {0, 3}
  MaxTime = 3
  Nobody = Nobody
  None = None
PROPERTIES
  Resets
