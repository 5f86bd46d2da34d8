SPECIFICATION Spec
CONSTANTS
  Tabs = {t1, t2}
  Addresses = {a1, a2}
  Second = 2
  PuzzleLifetime = 2
  TokenLifetime = 4
  SolveTime = 1
  MaxTime = 6
  None = None
INVARIANTS
  CookieMatchesToken
