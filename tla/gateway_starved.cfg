SPECIFICATION GatewayFairSpec
CONSTANTS
  Handlers = {h1}
  TripAbove = 2
  ResetBelow = 1
  MinOpens = {1, 2}
  HalfLives = {1}
  MaxLag = 4
  NaN = NaN
  MaxOpen = 2
  Samples = {0, 3}
  MaxTime = 4
  Nobody = Nobody
  None = None
  Kinds = {"plain"}
  ChallengeAll = FALSE
PROPERTIES
  ProxiesAgain
