\* Three cases of which any number are samples, every behaviour of the program
\* on each.
SPECIFICATION JudgeSpec
CONSTANTS
  NumCases = 3
  MaxFaults = 1
INVARIANT LearnerSeesTheFirstFailure
CHECK_DEADLOCK FALSE
