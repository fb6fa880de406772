\* One learner who waits for each answer; the process may die anywhere.
SPECIFICATION FairSpec
CONSTANTS
  Problems <- TwoProblems
  Verdicts <- Accepted
  Handlers <- AllHandlers
  Overlap = FALSE
  MaxExecutions = 2
  MaxHints = 1
  MaxFaults = 2
INVARIANTS TypeOK CountedExactlyOnce 
PROPERTIES AchievementsKept ImplementsLedger ReconcileCatchesUp
CHECK_DEADLOCK FALSE
