\* All four event functions save concurrently under a quota of five.
SPECIFICATION Spec
CONSTANTS
  sum = sum
  sort = sort
  Problems <- TwoProblems
  Lanes <- FourLanes
  Sizes <- SizesOfFive
  Quota = 5
  MaxStamps = 3
  MaxCrashes = 1
SYMMETRY Symmetry
INVARIANTS TypeOK UnlockFollowsQuiz StaleQuizIsRefused
PROPERTY PruningIsExact
CHECK_DEADLOCK FALSE
