SPECIFICATION GatewayFairSpec
CONSTANTS
  Handlers = {h1, h2}
  TripAbove = 2
  ResetBelow = 1
  MinOpens = {0, 1}
  HalfLives = {1}
  MaxLag = 1
  NaN = NaN
  MaxOpen = 1
  Samples = {0, 3}
  MaxTime = 1
  Nobody = Nobody
  None = None
  Kinds = {"own", "submit", "exempt", "plain"}
  ChallengeAll = FALSE
INVARIANTS
  GatewayTypeOK
PROPERTIES
  OnlyProxiedFeeds
  EveryRequestEnds
  OpenSheds
  ResetsWhenFed
