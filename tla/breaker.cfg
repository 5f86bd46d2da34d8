SPECIFICATION FairSpec
CONSTANTS
  Handlers = {h1, h2}
  TripAbove = 2
  ResetBelow = 1
  MinOpens = {0, 1, 3, 4}
  HalfLives = {0, 2}
  MaxLag = 2
  NaN = NaN
  MaxOpen = 3
  Samples = {0, 3}
  MaxTime = 3
  Nobody = Nobody
  None = None
INVARIANTS
  FlagMatchesPosition
  NeverPoisoned
  CooldownWithinBounds
  IInv
PROPERTIES
  NoEarlyReset
  ResetsWhenCalm
