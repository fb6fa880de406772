\* All five event functions may overlap; the process may die or fail to write.
SPECIFICATION Spec
CONSTANTS
  Names <- TwoNames
  Providers <- TwoProviders
  Modes <- TwoModes
  DefaultProvider = "openai"
  DefaultMode = "adaptive"
  Problems <- TwoProblems
  L0 <- SecondIsL0
  Handlers <- AllHandlers
  MaxClicks = 3
  MaxFaults = 1
INVARIANTS TypeOK ProfilesKept FirstPageExists
PROPERTY UnrelatedKept
CHECK_DEADLOCK FALSE
