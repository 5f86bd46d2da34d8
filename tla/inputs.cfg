SPECIFICATION InputsSpec
CONSTANTS
  NumOffsets = 2
  BlockWords = 2
  Words32 = 4
  Zeros = {0, 1}
  Difficulties = {0, 1, 2}
  MaxScan = 10
  None = None
  Invalid = Invalid
  Addresses <- MCAddresses
  Paths <- MCPaths
  Settings <- MCSettings
  Rules <- MCRules
  Names <- MCNames
  MaxSteps = 3
CHECK_DEADLOCK FALSE
INVARIANTS
  WorkAccepted
  NoShortcut
  SourceFound
  ChallengeIsDue
  HeadersKept
