SPECIFICATION Spec
CONSTANTS
  Handlers = {h1}
  TripAbove = 2
  ResetBelow = 1
  MinOpens = {1, 2}
  HalfLives = {2}
  MaxLag = 11
  NaN = NaN
  MaxOpen = 5
  Samples = {0, 3}
  MaxTime = 11
  Nobody = Nobody
  None = None
PROPERTIES
  BackoffGrows
  BackoffBounded
